------------------------------ MODULE JsonGet ------------------------------
(***************************************************************************)
(* One outbound request of phip.federation.FederationClient: _json_get and *)
(* _read_capped, from the URL to the decoded body or the exception.        *)
(*                                                                         *)
(* The resolver, the network and the peer are external: they answer, fail  *)
(* or stay silent as they please.  httpx applies the timeout it is given   *)
(* to every wait on the network by itself: to the TCP connect, to the TLS  *)
(* handshake of https, to the sending of the request and to each read.  A  *)
(* read brings bytes of the header, of the body's framing or encoding, or  *)
(* of its content, so it may yield no piece of the body, one or several.   *)
(* getaddrinfo runs before httpx and has no timer.                         *)
(***************************************************************************)
EXTENDS Integers, FiniteSets, AddressFilter

CONSTANTS Answers,                \* sets of addresses a name may resolve to
          ChunkSizes,             \* sizes of the decoded pieces of a body
          MAX_RESPONSE_BYTES,
          timeout_seconds,
          MaxReads,               \* bound: `reads` saturates here
          MaxElapsed              \* bound: `elapsed` saturates here

ASSUME SizeAssumption ==
  /\ MAX_RESPONSE_BYTES \in Nat
  /\ ChunkSizes \subseteq Nat \ {0}     \* aiter_bytes yields no empty piece
ASSUME TimeAssumption ==
  timeout_seconds \in Nat \ {0} /\ MaxReads \in Nat /\ MaxElapsed \in Nat
ASSUME AddressAssumption == Answers \subseteq SUBSET AllAddresses

VARIABLES config,     \* allow_http and allow_private_addresses, fixed
          pc,         \* the await or the end that the call has reached
          scheme,     \* of the URL
          addresses,  \* what the name resolved to
          buf,        \* decoded bytes, len(buf)
          reads,      \* reads from the network that have returned
          silence,    \* seconds that the present wait has lasted
          elapsed     \* seconds since the connection was begun

vars == <<config, pc, scheme, addresses, buf, reads, silence, elapsed>>

Schemes == {"https", "http", "other"}
OnTheWire == {"connecting", "handshaking", "sending", "awaiting", "reading"}
Ended == {"returned", "raised"}

\* __post_init__: allow_private_addresses defaults to allow_http.
Configurations ==
  {[allow_http |-> h, allow_private |-> IF p = "None" THEN h ELSE p = "True"] :
     h \in BOOLEAN, p \in {"None", "True", "False"}}

Init ==
  /\ config \in Configurations
  /\ pc = "called"
  /\ scheme \in Schemes
  /\ addresses = {}
  /\ buf = 0 /\ reads = 0 /\ silence = 0 /\ elapsed = 0

Raise ==
  /\ pc' = "raised"
  /\ UNCHANGED <<config, scheme, addresses, buf, reads, silence, elapsed>>

\* Scheme and host of the URL, both checked before the first await.
Call(has_host) ==
  /\ pc = "called"
  /\ IF has_host /\ (scheme = "https" \/ (scheme = "http" /\ config.allow_http))
     THEN /\ pc' = "resolving"
          /\ UNCHANGED <<config, scheme, addresses, buf, reads, silence, elapsed>>
     ELSE Raise

\* Mutant of Refused: only some address has to be public.
RefusedIfAllPrivate(infos) == ~config.allow_private /\ \A addr \in infos : IsPrivateAddress(addr)

\* Every address counts, whichever of them httpx will connect to.
Refused(infos) == ~config.allow_private /\ \E addr \in infos : IsPrivateAddress(addr)

\* getaddrinfo answers with a set of addresses, perhaps none.
Resolved(infos) ==
  /\ pc = "resolving"
  /\ IF infos = {} \/ Refused(infos) THEN Raise
     ELSE /\ pc' = "connecting"
          /\ addresses' = infos
          /\ UNCHANGED <<config, scheme, buf, reads, silence, elapsed>>

ResolutionFails == pc = "resolving" /\ Raise

\* One wait of httpx is over and the next begins, with a timer of its own.
NextWait(from, to) ==
  /\ pc = from
  /\ pc' = to
  /\ silence' = 0
  /\ UNCHANGED <<config, scheme, addresses, buf, reads, elapsed>>

Connected == NextWait("connecting", IF scheme = "https" THEN "handshaking" ELSE "sending")

Handshaken == NextWait("handshaking", "sending")

Sent == NextWait("sending", "awaiting")

\* A read returns, whatever it has brought, and the next one has its own timer.
Receive ==
  /\ pc \in {"awaiting", "reading"}
  /\ reads' = IF reads < MaxReads THEN reads + 1 ELSE reads
  /\ silence' = 0
  /\ UNCHANGED <<config, pc, scheme, addresses, buf, elapsed>>

\* What has been received is looked at before the next wait begins to last.
Received == reads > 0 /\ silence = 0

\* The header is complete.  Redirects are not followed: only 200 is read on.
HeaderComplete(status) ==
  /\ pc = "awaiting" /\ Received
  /\ IF status # 200 THEN Raise
     ELSE /\ pc' = "reading"
          /\ UNCHANGED <<config, scheme, addresses, buf, reads, silence, elapsed>>

\* Mutant of OverCap: the size is checked before the new piece is counted.
OverCapBefore(n) == buf > MAX_RESPONSE_BYTES

OverCap(n) == buf + n > MAX_RESPONSE_BYTES

\* A piece of the body is decoded: it is buffered, and then the size is checked.
Chunk(n) ==
  /\ pc = "reading" /\ Received
  /\ buf' = buf + n
  /\ pc' = IF OverCap(n) THEN "raised" ELSE "reading"
  /\ UNCHANGED <<config, scheme, addresses, reads, silence, elapsed>>

\* The body is complete and json.loads returns, or raises.
BodyComplete(is_json) ==
  /\ pc = "reading" /\ Received
  /\ pc' = IF is_json THEN "returned" ELSE "raised"
  /\ UNCHANGED <<config, scheme, addresses, buf, reads, silence, elapsed>>

\* Refused, reset, broken off, no HTTP, no such encoding: httpx.RequestError.
TransportFails == pc \in OnTheWire /\ Raise

\* Mutant of Expired: reading the body is not timed.
ExpiredExceptBody == pc \in OnTheWire \ {"reading"} /\ silence = timeout_seconds

Expired == pc \in OnTheWire /\ silence = timeout_seconds

\* httpx.TimeoutException, a RequestError.
TimesOut == Expired /\ Raise

\* Mutant of Tick: no read timeout until the header is complete.
TickUntimedHeader ==
  /\ pc \in OnTheWire
  /\ silence < timeout_seconds \/ (pc = "awaiting" /\ silence < 3 * timeout_seconds)
  /\ silence' = silence + 1
  /\ elapsed' = IF elapsed < MaxElapsed THEN elapsed + 1 ELSE elapsed
  /\ UNCHANGED <<config, pc, scheme, addresses, buf, reads>>

\* A second passes while the call is waiting.  The timer fires before the next.
Tick ==
  /\ pc \in OnTheWire
  /\ silence < timeout_seconds
  /\ silence' = silence + 1
  /\ elapsed' = IF elapsed < MaxElapsed THEN elapsed + 1 ELSE elapsed
  /\ UNCHANGED <<config, pc, scheme, addresses, buf, reads>>

Next ==
  \/ \E has_host \in BOOLEAN : Call(has_host)
  \/ \E infos \in Answers : Resolved(infos)
  \/ ResolutionFails
  \/ Connected
  \/ Handshaken
  \/ Sent
  \/ Receive
  \/ \E status \in {200, 302, 404} : HeaderComplete(status)
  \/ \E n \in ChunkSizes : Chunk(n)
  \/ \E is_json \in BOOLEAN : BodyComplete(is_json)
  \/ TransportFails
  \/ TimesOut
  \/ Tick

\* Time passes and httpx's timer fires; the call goes on from the URL; the
\* resolver answers in the end.  Nothing is asked of the network or the peer.
Fairness ==
  /\ WF_vars(Tick)
  /\ WF_vars(TimesOut)
  /\ WF_vars(\E has_host \in BOOLEAN : Call(has_host))
  /\ WF_vars((\E infos \in Answers : Resolved(infos)) \/ ResolutionFails)

Spec == Init /\ [][Next]_vars /\ Fairness

-----------------------------------------------------------------------------
(* Properties *)

TypeOK ==
  /\ config \in [allow_http : BOOLEAN, allow_private : BOOLEAN]
  /\ pc \in {"called", "resolving"} \cup OnTheWire \cup Ended
  /\ scheme \in Schemes
  /\ addresses \in {{}} \cup Answers
  /\ buf \in Nat /\ reads \in 0..MaxReads
  /\ silence \in 0..timeout_seconds /\ elapsed \in 0..MaxElapsed

\* No connection is begun before the name resolved to addresses none of which is
\* in a private, loopback, link-local or other special range, to the last address
\* of each, unless the configuration allows it.  This is said of the addresses
\* that _json_get was given; httpx resolves the name once more.
ConnectsOnlyWhenVetted ==
  pc \in OnTheWire \cup {"returned"} =>
    /\ addresses # {}
    /\ config.allow_private \/ \A addr \in addresses : ~IsSpecial(addr)

\* Nothing is buffered of a response that is not 200; a body that is returned
\* fits in the cap, and one that does not is given up at the first piece over it.
BodyCapped ==
  /\ pc \notin {"reading"} \cup Ended => buf = 0
  /\ pc \in {"reading", "returned"} => buf <= MAX_RESPONSE_BYTES
  /\ buf > 0 => \E n \in ChunkSizes : buf - n <= MAX_RESPONSE_BYTES

\* How many waits of a call are over: it connects, over https shakes hands, sends
\* and reads.
Dials == IF scheme = "https" THEN 2 ELSE 1

WaitsOver ==
  CASE pc \in {"called", "resolving", "connecting"} -> 0
    [] pc = "handshaking" -> Dials - 1
    [] pc = "sending" -> Dials
    [] pc \in {"awaiting", "reading"} \cup Ended -> Dials + 1 + reads

\* What timeout_seconds bounds: not the request, as its documentation says, but
\* each of the waits, of which there are as many as the peer makes reads; what
\* the reads bring, and whether it is of the body, makes no difference.
DurationBounded == reads < MaxReads => elapsed <= timeout_seconds * WaitsOver + silence

\* The only peer that keeps a call from ending is one that goes on sending for
\* ever: there is no state in which a silent one is waited for without a timer.
\* (Neither the timeout nor the cap ends a call whose peer sends a byte of an
\* endless encoding now and then.)
EndsUnlessFedForEver == <>(pc \in Ended) \/ []<><<Receive>>_vars
=============================================================================
