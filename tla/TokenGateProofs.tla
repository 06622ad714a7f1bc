--------------------------- MODULE TokenGateProofs ---------------------------
(***************************************************************************)
(* Proofs about TokenGate: whatever is presented, and whenever, a granted  *)
(* request is one that a minted token allows, at an instant inside its     *)
(* window, under a key that was live.  IndInv is the invariant.            *)
(***************************************************************************)
EXTENDS TokenGate, TLAPS

\* A published document and a read, as in KeyDirectory.
Publication == [doc : Documents, max_age : MaxAges, from : Nat]
Read == [status : {"open", "closed"}, url : Urls, since : Nat, version : Nat]
GateRecord ==
  [pc : {"idle", "resolving", "resolved"} \cup Ended, token : Tokens \cup {Garbled},
   key : Keys \cup {NoKey}, request : Requests, decided : Nat]

\* What mint_token has signed: its signatures cover what they are on.
MintedSound ==
  \A m \in minted :
    /\ m.signature.key \in Keys
    /\ m = Token(m.grant, m.signature.key)
    /\ ~MintRefused(m.grant)

\* Signatures of keys that are not compromised come from mint_token.
Genuine(token) ==
  token.signature.key \in Keys \ Compromised =>
    \E m \in minted : m.signature = token.signature

Underway == {"resolving", "resolved", "granted"}

PresentedSound ==
  \A t \in Tasks :
    gates[t].pc \in Underway => gates[t].token \in Tokens /\ Genuine(gates[t].token)

\* resolve_key has returned the key of doc for some anchor that the grant gives.
Usable(doc, g) == \E at \in Anchors(g) : KeyFault(doc, at) = "none"

\* The key in hand is that of a document which the directory may have answered.
Live(gate, read) ==
  LET log == published[read.url]
      v   == read.version
  IN /\ v \in 1..Len(log)
     /\ v < Len(log) => read.since < log[v + 1].from + MaxStaleness
     /\ log[v].doc.key = gate.key
     /\ Usable(log[v].doc, gate.token.grant)

KeysSound ==
  \A t \in Tasks : gates[t].pc \in {"resolved", "granted"} => Live(gates[t], reads[t])

NothingFromTheFuture == \A t \in Tasks : reads[t].since <= clock

Verified(gate) == TokenFault(gate.token, gate.key, gate.request, gate.decided) = "none"

GrantsVerified == \A t \in Tasks : Granted(t) => Verified(gates[t])

IndInv ==
  /\ TypeOK
  /\ MintedSound
  /\ PresentedSound
  /\ KeysSound
  /\ NothingFromTheFuture
  /\ GrantsVerified

-----------------------------------------------------------------------------
\* Tokens as they are built, and their parts, are of their types.
LEMMA TokenType ==
  /\ \A g \in Grants, key \in Keys \cup {NoKey} : Token(g, key) \in Tokens
  /\ \A token \in Tokens :
       /\ token.grant \in Grants
       /\ token.signature \in [key : Keys \cup {NoKey}, over : Grants]
       /\ token.grant.not_before \in Times /\ token.grant.expires \in Times
BY GrantAssumption DEF Token, Tokens, AllGrants

\* What is presented and decoded is a token, and a signature on it of a key that
\* is not compromised is one that mint_token made.
LEMMA PresentedTokens ==
  ASSUME TypeOK, MintedSound, NEW token \in Presentable \ {Garbled}
  PROVE  token \in Tokens /\ Genuine(token)
<1>1. CASE token \in minted
  BY <1>1 DEF TypeOK, Genuine
<1>2. ASSUME NEW m \in minted, NEW g \in Grants, token = [m EXCEPT !.grant = g]
      PROVE  token \in Tokens /\ Genuine(token)
  <2>1. m \in Tokens
    BY DEF TypeOK
  <2>2. token \in Tokens /\ token.signature = m.signature
    BY <1>2, <2>1 DEF Tokens
  <2> QED
    BY <2>2 DEF Genuine
<1>3. ASSUME NEW m \in minted,
             token = [m EXCEPT !.signature = [@ EXCEPT !.key = NoKey]]
      PROVE  token \in Tokens /\ Genuine(token)
  <2>1. m \in Tokens
    BY DEF TypeOK
  <2>2. token \in Tokens /\ token.signature.key = NoKey
    BY <1>3, <2>1 DEF Tokens
  <2> QED
    BY <2>2, KeyAssumption DEF Genuine
<1>4. ASSUME NEW g \in Grants, NEW key \in Compromised, token = Token(g, key)
      PROVE  token \in Tokens /\ Genuine(token)
  <2>1. token \in Tokens
    BY <1>4, TokenType, KeyAssumption
  <2>2. token.signature.key = key
    BY <1>4 DEF Token
  <2> QED
    BY <2>1, <2>2 DEF Genuine
<1> QED
  BY <1>1, <1>2, <1>3, <1>4 DEF Presentable

\* What verify_token raises, if anything.
LEMMA FaultType ==
  ASSUME NEW token, NEW key, NEW request, NEW now
  PROVE  TokenFault(token, key, request, now)
           \in {"none", "InvalidCapability", "InvalidSignature", "OverflowError"}
<1>1. SignatureFault(token, key) \in {"none", "InvalidCapability", "InvalidSignature"}
  BY DEF SignatureFault
<1> QED
  BY <1>1 DEF TokenFault

LookupFaults == {"ValueError", "AttributeError", "OverflowError", "KeyExpired"}

\* The gate after a lookup: it holds the document's key if that is usable.
LEMMA LookupType ==
  ASSUME NEW token \in Tokens, NEW doc \in Documents, clock \in Nat,
         NEW at \in Anchors(token.grant)
  PROVE  LET gate == AfterLookup(token, doc, at) IN
         /\ gate \in GateRecord
         /\ gate.pc \in {"resolved"} \cup LookupFaults
         /\ gate.token = token
         /\ gate.pc = "resolved" => gate.key = doc.key /\ Usable(doc, token.grant)
<1>1. NoRequest \in Requests
  BY DEF NoRequest, Requests
<1>2. doc.key \in Keys /\ doc.fault \in {"none", "ValueError", "AttributeError"}
  BY DocumentAssumption
<1>3. KeyFault(doc, at) \in {"none"} \cup LookupFaults
  BY <1>2 DEF KeyFault, LookupFaults
<1>4. CASE KeyFault(doc, at) = "none"
  BY <1>1, <1>2, <1>4 DEF AfterLookup, Gate, GateRecord, Ended, Faults, Usable
<1>5. CASE KeyFault(doc, at) # "none"
  <2> DEFINE fault == KeyFault(doc, at)
  <2>1. fault \in LookupFaults /\ AfterLookup(token, doc, at) = Gate(fault, token, NoKey, NoRequest, clock)
    BY <1>3, <1>5 DEF AfterLookup
  <2> HIDE DEF fault
  <2> QED
    BY <1>1, <2>1 DEF LookupFaults, Gate, GateRecord, Ended, Faults, FetchFaults
<1> QED
  BY <1>4, <1>5

\* A step that changes one task's gate and read keeps the invariant if the new
\* gate and the new read are as it says.
LEMMA GateStep ==
  ASSUME IndInv, NEW t \in Tasks, NEW gate \in GateRecord, NEW read \in Read,
         gates' = [gates EXCEPT ![t] = gate],
         reads' = [reads EXCEPT ![t] = read],
         UNCHANGED <<clock, published, minted>>,
         read.since <= clock,
         gate.pc \in Underway => gate.token \in Tokens /\ Genuine(gate.token),
         gate.pc \in {"resolved", "granted"} => Live(gate, read),
         gate.pc = "granted" => Verified(gate)
  PROVE  IndInv'
<1>1. /\ reads \in [Tasks -> Read] /\ gates \in [Tasks -> GateRecord]
      /\ clock \in Nat /\ minted \subseteq Tokens
  BY DEF IndInv, TypeOK, Read, GateRecord
<1>2. /\ reads' \in [Tasks -> Read] /\ gates' \in [Tasks -> GateRecord]
      /\ gates'[t] = gate /\ reads'[t] = read
      /\ \A s \in Tasks \ {t} : gates'[s] = gates[s] /\ reads'[s] = reads[s]
  BY <1>1
<1>3. TypeOK'
  BY <1>2 DEF IndInv, TypeOK, Read, GateRecord
<1>4. MintedSound'
  BY DEF IndInv, MintedSound
<1>5. PresentedSound'
  BY <1>2 DEF IndInv, PresentedSound, Genuine
<1>6. KeysSound'
  <2>1. ASSUME NEW s \in Tasks, gates'[s].pc \in {"resolved", "granted"}
        PROVE  Live(gates[s]', reads[s]')
    <3>1. Live(gates'[s], reads'[s])
      BY <1>2, <2>1 DEF IndInv, KeysSound
    <3> QED
      BY <3>1 DEF Live
  <2> QED
    BY <2>1 DEF KeysSound, Live
<1>7. NothingFromTheFuture'
  BY <1>2 DEF IndInv, NothingFromTheFuture
<1>8. GrantsVerified'
  <2>1. ASSUME NEW s \in Tasks, gates'[s].pc = "granted"
        PROVE  Verified(gates'[s])
    BY <1>2, <2>1 DEF IndInv, GrantsVerified, Granted
  <2> QED
    BY <2>1 DEF GrantsVerified, Granted, Verified
<1> QED
  BY <1>3, <1>4, <1>5, <1>6, <1>7, <1>8 DEF IndInv

-----------------------------------------------------------------------------
\* A gate is made of its parts.
LEMMA GateType ==
  ASSUME NEW pc \in {"idle", "resolving", "resolved"} \cup Ended,
         NEW token \in Tokens \cup {Garbled}, NEW key \in Keys \cup {NoKey},
         NEW request \in Requests, NEW decided \in Nat
  PROVE  LET gate == Gate(pc, token, key, request, decided) IN
         /\ gate \in GateRecord /\ gate.pc = pc /\ gate.token = token
         /\ gate.key = key /\ gate.request = request /\ gate.decided = decided
BY DEF Gate, GateRecord

LEMMA NoRequestType == NoRequest \in Requests
BY DEF NoRequest, Requests

\* Types of one task's read and gate, and of a published document.
LEMMA PartTypes ==
  ASSUME TypeOK
  PROVE  /\ \A t \in Tasks : reads[t] \in Read /\ gates[t] \in GateRecord
         /\ \A u \in Urls : published[u] \in Seq(Publication)
         /\ \A u \in Urls : \A v \in 1..Len(published[u]) :
              published[u][v] \in Publication /\ published[u][v].doc \in Documents
         /\ clock \in Nat /\ reads = [t \in Tasks |-> reads[t]]
<1>1. /\ reads \in [Tasks -> Read] /\ gates \in [Tasks -> GateRecord]
      /\ published \in [Urls -> Seq(Publication)] /\ clock \in Nat
  BY DEF TypeOK, Read, GateRecord, Publication
<1>2. reads = [t \in Tasks |-> reads[t]]
  BY <1>1
<1>3. ASSUME NEW u \in Urls, NEW v \in 1..Len(published[u])
      PROVE  published[u][v] \in Publication /\ published[u][v].doc \in Documents
  <2>1. published[u] \in Seq(Publication)
    BY <1>1
  <2>2. published[u][v] \in Publication
    BY <2>1
  <2> QED
    BY <2>2 DEF Publication
<1> QED
  BY <1>1, <1>2, <1>3

\* Initially nothing has been minted or presented.
LEMMA InitIndInv == Init => IndInv
<1> SUFFICES ASSUME Init PROVE IndInv
  OBVIOUS
<1>1. clock = 0 /\ minted = {} /\ published = [u \in Urls |-> <<>>]
  BY DEF Init, Directory!Init
<1>2. PICK u \in Urls :
        reads = [t \in Tasks |->
                   [status |-> "closed", url |-> u, since |-> 0, version |-> Directory!NoVersion]]
  BY DEF Init, Directory!Init
<1>3. gates = [t \in Tasks |-> Gate("idle", Garbled, NoKey, NoRequest, 0)]
  BY DEF Init
<1>4. \A t \in Tasks : gates[t] \in GateRecord /\ gates[t].pc = "idle"
  BY <1>3 DEF Gate, GateRecord, NoRequest, Requests
<1>5. \A t \in Tasks : reads[t] \in Read /\ reads[t].since = 0
  BY <1>2 DEF Read, Directory!NoVersion
<1>6. \A U : <<>> \in Seq(U)
  OBVIOUS
<1>7. published \in [Urls -> Seq(Publication)]
  BY <1>1, <1>6
<1>8. TypeOK
  <2>1. reads \in [Tasks -> Read] /\ gates \in [Tasks -> GateRecord]
    BY <1>2, <1>3, <1>4, <1>5
  <2> QED
    BY <1>1, <1>7, <2>1 DEF TypeOK, Publication, Read, GateRecord
<1>9. MintedSound
  BY <1>1 DEF MintedSound
<1>10. PresentedSound /\ KeysSound /\ GrantsVerified
  BY <1>4 DEF PresentedSound, Underway, KeysSound, GrantsVerified, Granted
<1>11. NothingFromTheFuture
  BY <1>1, <1>5 DEF NothingFromTheFuture
<1> QED
  BY <1>8, <1>9, <1>10, <1>11 DEF IndInv

\* mint_token signs a grant that it does not refuse.
LEMMA MintStep ==
  ASSUME IndInv, NEW g \in Grants, NEW key \in Keys, MintToken(g, key)
  PROVE  IndInv'
<1>1. /\ minted' = minted \cup {Token(g, key)} /\ ~MintRefused(g)
      /\ UNCHANGED <<clock, published, reads, gates>>
  BY DEF MintToken
<1>2. Token(g, key) \in Tokens
  BY TokenType
<1>3. TypeOK'
  BY <1>1, <1>2 DEF IndInv, TypeOK
<1>4. MintedSound'
  <2>1. /\ Token(g, key).grant = g /\ Token(g, key).signature.key = key
    BY DEF Token
  <2>2. ASSUME NEW m \in minted'
        PROVE  /\ m.signature.key \in Keys /\ m = Token(m.grant, m.signature.key)
               /\ ~MintRefused(m.grant)
    <3>1. CASE m \in minted
      BY <3>1 DEF IndInv, MintedSound
    <3>2. CASE m = Token(g, key)
      BY <1>1, <2>1, <3>2
    <3> QED
      BY <1>1, <3>1, <3>2
  <2> QED
    BY <2>2 DEF MintedSound
<1>5. PresentedSound'
  <2>1. ASSUME NEW t \in Tasks, gates[t].pc \in Underway
        PROVE  gates[t].token \in Tokens /\ Genuine(gates[t].token)'
    BY <1>1, <2>1 DEF IndInv, PresentedSound, Genuine
  <2> QED
    BY <1>1, <2>1 DEF PresentedSound
<1>6. KeysSound' /\ NothingFromTheFuture' /\ GrantsVerified'
  BY <1>1 DEF IndInv, KeysSound, Live, NothingFromTheFuture, GrantsVerified, Granted, Verified
<1> QED
  BY <1>3, <1>4, <1>5, <1>6 DEF IndInv

\* parse_token refuses a string.
LEMMA PresentGarbledStep ==
  ASSUME IndInv, NEW t \in Tasks, PresentGarbled(t)
  PROVE  IndInv'
<1> DEFINE gate == Gate("InvalidCapability", Garbled, NoKey, NoRequest, clock)
<1>1. TypeOK /\ clock \in Nat /\ reads[t] \in Read
  BY PartTypes DEF IndInv
<1>2. gate \in GateRecord /\ gate.pc = "InvalidCapability"
  <2>1. "InvalidCapability" \in {"idle", "resolving", "resolved"} \cup Ended
    BY DEF Ended, Faults
  <2> QED
    BY <1>1, <2>1, GateType, NoRequestType
<1>3. gates' = [gates EXCEPT ![t] = gate] /\ UNCHANGED <<clock, published, reads, minted>>
  BY DEF PresentGarbled
<1>4. reads' = [reads EXCEPT ![t] = reads[t]]
  BY <1>1, <1>3, PartTypes
<1>5. reads[t].since <= clock /\ gate.pc \notin Underway
  BY <1>2 DEF IndInv, NothingFromTheFuture, Underway
<1> HIDE DEF gate
<1> QED
  BY <1>1, <1>2, <1>3, <1>4, <1>5, GateStep DEF Underway

\* A token is presented, and the lookup begins.
LEMMA PresentTokenStep ==
  ASSUME IndInv, NEW t \in Tasks, NEW u \in Urls, NEW token \in Presentable \ {Garbled},
         PresentToken(t, u, token)
  PROVE  IndInv'
<1> DEFINE gate == Gate("resolving", token, NoKey, NoRequest, 0)
<1> DEFINE read == [status |-> "open", url |-> u, since |-> clock,
                    version |-> Directory!NoVersion]
<1>1. TypeOK /\ MintedSound /\ clock \in Nat
  BY PartTypes DEF IndInv
<1>2. token \in Tokens /\ Genuine(token)
  BY <1>1, PresentedTokens
<1>3. gate \in GateRecord /\ gate.pc = "resolving" /\ gate.token = token
  <2>1. /\ "resolving" \in {"idle", "resolving", "resolved"} \cup Ended /\ 0 \in Nat
        /\ token \in Tokens \cup {Garbled} /\ NoKey \in Keys \cup {NoKey}
    BY <1>2
  <2> QED
    BY ONLY <2>1, NoRequestType DEF Gate, GateRecord
<1>4. read \in Read /\ read.since <= clock
  BY <1>1 DEF Read, Directory!NoVersion
<1>5. /\ gates' = [gates EXCEPT ![t] = gate] /\ reads' = [reads EXCEPT ![t] = read]
      /\ UNCHANGED <<clock, published, minted>>
  BY DEF PresentToken, Directory!Begin
<1> HIDE DEF gate, read
<1> QED
  BY <1>2, <1>3, <1>4, <1>5, GateStep

\* The lookup begun for a token has returned a document.
LEMMA ResolveStep ==
  ASSUME IndInv, NEW t \in Tasks, NEW v \in 1..Len(published[reads[t].url]), Resolve(t, v)
  PROVE  IndInv'
<1> DEFINE token == gates[t].token
<1> DEFINE u == reads[t].url
<1> DEFINE doc == published[u][v].doc
<1>0. PICK at \in Anchors(token.grant) :
        gates' = [gates EXCEPT ![t] = AfterLookup(gates[t].token, doc, at)]
  BY DEF Resolve
<1> DEFINE gate == AfterLookup(token, doc, at)
<1> DEFINE read == [status |-> "closed", url |-> u, since |-> reads[t].since, version |-> v]
<1>1. /\ TypeOK /\ clock \in Nat /\ reads[t] \in Read /\ u \in Urls /\ doc \in Documents
      /\ reads[t].since \in Nat /\ Len(published[u]) \in Nat
  BY PartTypes DEF IndInv, Read
<1>2. token \in Tokens /\ Genuine(token)
  BY DEF IndInv, PresentedSound, Underway, Resolve
<1>3. gate \in GateRecord /\ gate.pc \in {"resolved"} \cup LookupFaults /\ gate.token = token
  BY <1>1, <1>2, LookupType
<1>4. read \in Read /\ read.since <= clock
  BY <1>1 DEF Read, IndInv, NothingFromTheFuture
<1>5. gates' = [gates EXCEPT ![t] = gate]
  BY <1>0
<1>6. reads' = [reads EXCEPT ![t] = read] /\ UNCHANGED <<clock, published, minted>>
  BY DEF Resolve, Directory!Answer
<1>7. gate.pc = "resolved" => Live(gate, read)
  <2>1. gate.pc = "resolved" => gate.key = doc.key /\ Usable(doc, token.grant)
    BY <1>1, <1>2, LookupType
  <2>2. v < Len(published[u]) => reads[t].since < published[u][v + 1].from + MaxStaleness
    BY <1>1 DEF Resolve, Directory!Answer, Directory!Acceptable, Directory!Current
  <2>3. read.url = u /\ read.version = v /\ read.since = reads[t].since
    OBVIOUS
  <2>4. v \in 1..Len(published[u])
    OBVIOUS
  <2> HIDE DEF gate, read, token, u
  <2> QED
    BY <1>3, <2>1, <2>2, <2>3, <2>4 DEF Live
<1>8. gate.pc # "granted"
  BY <1>3 DEF LookupFaults
<1> HIDE DEF gate, read, token, doc
<1> QED
  BY <1>2, <1>3, <1>4, <1>5, <1>6, <1>7, <1>8, GateStep DEF Underway, LookupFaults

\* A token is presented, and the lookup is answered from a cache.
LEMMA PresentAndResolveStep ==
  ASSUME IndInv, NEW t \in Tasks, NEW u \in Urls, NEW token \in Presentable \ {Garbled},
         NEW v \in 1..Len(published[u]), PresentAndResolve(t, u, token, v)
  PROVE  IndInv'
<1> DEFINE doc == published[u][v].doc
<1>0. PICK at \in Anchors(token.grant) :
        gates' = [gates EXCEPT ![t] = AfterLookup(token, doc, at)]
  BY DEF PresentAndResolve
<1> DEFINE gate == AfterLookup(token, doc, at)
<1> DEFINE read == [status |-> "closed", url |-> u, since |-> clock, version |-> v]
<1>1. /\ TypeOK /\ MintedSound /\ clock \in Nat /\ doc \in Documents
      /\ Len(published[u]) \in Nat
  BY PartTypes DEF IndInv
<1>2. token \in Tokens /\ Genuine(token)
  BY <1>1, PresentedTokens
<1>3. gate \in GateRecord /\ gate.pc \in {"resolved"} \cup LookupFaults /\ gate.token = token
  BY <1>1, <1>2, LookupType
<1>4. read \in Read /\ read.since <= clock
  BY <1>1 DEF Read
<1>5. gates' = [gates EXCEPT ![t] = gate]
  BY <1>0
<1>6. reads' = [reads EXCEPT ![t] = read] /\ UNCHANGED <<clock, published, minted>>
  BY DEF PresentAndResolve, Directory!AnswerAtOnce
<1>7. gate.pc = "resolved" => Live(gate, read)
  <2>1. gate.pc = "resolved" => gate.key = doc.key /\ Usable(doc, token.grant)
    BY <1>1, <1>2, LookupType
  <2>2. v < Len(published[u]) => clock < published[u][v + 1].from + MaxStaleness
    BY <1>1 DEF PresentAndResolve, Directory!AnswerAtOnce, Directory!Acceptable, Directory!Current
  <2>3. read.url = u /\ read.version = v /\ read.since = clock
    OBVIOUS
  <2> HIDE DEF gate, read
  <2> QED
    BY <1>3, <2>1, <2>2, <2>3 DEF Live
<1>8. gate.pc # "granted"
  BY <1>3 DEF LookupFaults
<1> HIDE DEF gate, read, doc
<1> QED
  BY <1>2, <1>3, <1>4, <1>5, <1>6, <1>7, <1>8, GateStep DEF Underway, LookupFaults

\* The lookup has failed.
LEMMA ResolutionFailsStep ==
  ASSUME IndInv, NEW t \in Tasks, NEW fault \in FetchFaults, ResolutionFails(t, fault)
  PROVE  IndInv'
<1> DEFINE gate == Gate(fault, gates[t].token, NoKey, NoRequest, clock)
<1> DEFINE read == [status |-> "closed", url |-> reads[t].url, since |-> reads[t].since,
                    version |-> reads[t].version]
<1>1. TypeOK /\ clock \in Nat /\ reads[t] \in Read /\ gates[t] \in GateRecord
  BY PartTypes DEF IndInv
<1>2. gate \in GateRecord /\ gate.pc = fault
  <2>1. fault \in {"idle", "resolving", "resolved"} \cup Ended
    BY DEF Ended, Faults
  <2>2. gates[t].token \in Tokens \cup {Garbled}
    BY <1>1 DEF GateRecord
  <2> QED
    BY ONLY <1>1, <2>1, <2>2, NoRequestType DEF Gate, GateRecord
<1>3. gates' = [gates EXCEPT ![t] = gate]
  BY DEF ResolutionFails
<1>4. reads' = [reads EXCEPT ![t] = read] /\ UNCHANGED <<clock, published, minted>>
  <2>1. read = [reads[t] EXCEPT !.status = "closed"]
    BY <1>1 DEF Read
  <2> QED
    BY <2>1 DEF ResolutionFails, Directory!Fail
<1>5. read \in Read /\ read.since <= clock
  BY <1>1 DEF Read, IndInv, NothingFromTheFuture
<1>6. gate.pc \notin Underway
  BY <1>2 DEF Underway, FetchFaults
<1> HIDE DEF gate, read
<1> QED
  BY <1>2, <1>3, <1>4, <1>5, <1>6, GateStep DEF Underway

\* verify_token decides.
LEMMA VerifyTokenStep ==
  ASSUME IndInv, NEW t \in Tasks, NEW request \in Asked, VerifyToken(t, request)
  PROVE  IndInv'
<1> DEFINE token == gates[t].token
<1> DEFINE key == gates[t].key
<1> DEFINE fault == TokenFault(token, key, request, clock)
<1> DEFINE pc == IF fault = "none" THEN "granted" ELSE fault
<1> DEFINE gate == Gate(pc, token, key, request, clock)
<1>1. /\ TypeOK /\ clock \in Nat /\ reads[t] \in Read /\ gates[t] \in GateRecord
      /\ request \in Requests /\ gates[t].pc = "resolved"
  BY PartTypes, GrantAssumption DEF IndInv, VerifyToken
<1>2. token \in Tokens /\ Genuine(token) /\ key \in Keys \cup {NoKey}
  BY <1>1 DEF IndInv, PresentedSound, Underway, GateRecord
<1>3. pc \in {"granted", "InvalidCapability", "InvalidSignature", "OverflowError"}
  BY FaultType
<1>4. /\ gate \in GateRecord /\ gate.pc = pc /\ gate.token = token
      /\ gate.key = key /\ gate.request = request /\ gate.decided = clock
  <2>1. pc \in {"idle", "resolving", "resolved"} \cup Ended
    BY <1>3 DEF Ended, Faults
  <2> HIDE DEF pc, token, key
  <2> QED
    BY <1>1, <1>2, <2>1, GateType
<1>5. /\ gates' = [gates EXCEPT ![t] = gate]
      /\ UNCHANGED <<clock, published, reads, minted>>
  BY DEF VerifyToken, VerificationTime
<1>6. reads' = [reads EXCEPT ![t] = reads[t]] /\ reads[t].since <= clock
  BY <1>1, <1>5, PartTypes DEF IndInv, NothingFromTheFuture
<1>7. Live(gates[t], reads[t])
  BY <1>1 DEF IndInv, KeysSound
<1>8. gate.pc = "granted" => Verified(gate)
  <2>1. pc = "granted" => fault = "none"
    BY FaultType
  <2> HIDE DEF gate, pc, token, key
  <2> QED
    BY <1>4, <2>1 DEF Verified
<1>9. Live(gate, reads[t])
  BY <1>4, <1>7 DEF Live
<1> HIDE DEF gate, pc, token, key, fault
<1> QED
  BY <1>1, <1>2, <1>4, <1>5, <1>6, <1>8, <1>9, GateStep

\* The grantor replaces its key: what was superseded before stays so, and what is
\* superseded now was current until now.
LEMMA PublishKeyStep ==
  ASSUME IndInv, NEW u \in Urls, NEW doc \in Documents, NEW max_age \in MaxAges,
         PublishKey(u, doc, max_age)
  PROVE  IndInv'
<1> DEFINE p == [doc |-> doc, max_age |-> max_age, from |-> clock]
<1>1. /\ published' = [published EXCEPT ![u] = Append(published[u], p)]
      /\ UNCHANGED <<clock, reads, minted, gates>>
  BY DEF PublishKey, Directory!Publish
<1>2. /\ TypeOK /\ published \in [Urls -> Seq(Publication)] /\ clock \in Nat
      /\ p \in Publication /\ p.from = clock
  BY DEF IndInv, TypeOK, Publication
<1>3. \A x \in Urls :
        /\ published[x] \in Seq(Publication)
        /\ published'[x] = IF x = u THEN Append(published[x], p) ELSE published[x]
  BY <1>1, <1>2
<1>4. TypeOK'
  <2>1. published' \in [Urls -> Seq(Publication)]
    BY <1>1, <1>2
  <2> QED
    BY <1>1, <1>2, <2>1 DEF TypeOK, Publication
<1>5. KeysSound'
  <2>1. ASSUME NEW t \in Tasks, gates[t].pc \in {"resolved", "granted"}
        PROVE  Live(gates[t], reads[t])'
    <3>1. Live(gates[t], reads[t])
      BY <2>1 DEF IndInv, KeysSound
    <3>2. reads[t].url \in Urls /\ reads[t].since \in Nat /\ reads[t].since <= clock
      BY <1>2, PartTypes DEF Read, IndInv, NothingFromTheFuture
    <3> DEFINE log == published[reads[t].url]
    <3> DEFINE v == reads[t].version
    <3>3. log \in Seq(Publication) /\ Len(log) \in Nat /\ v \in 1..Len(log)
      BY <1>3, <3>1, <3>2 DEF Live
    <3>4. CASE reads[t].url # u
      <4>1. published'[reads[t].url] = log
        BY <1>3, <3>2, <3>4
      <4> QED
        BY <1>1, <3>1, <4>1 DEF Live
    <3>5. CASE reads[t].url = u
      <4>1. published'[reads[t].url] = Append(log, p)
        BY <1>3, <3>2, <3>5
      <4>2. /\ Len(Append(log, p)) = Len(log) + 1
            /\ \A k \in 1..Len(log) : Append(log, p)[k] = log[k]
            /\ Append(log, p)[Len(log) + 1] = p
        BY <1>2, <3>3
      <4>3. v < Len(log) => reads[t].since < log[v + 1].from + MaxStaleness
        BY <3>1 DEF Live
      <4>4. reads[t].since < Append(log, p)[v + 1].from + MaxStaleness
        <5>1. CASE v < Len(log)
          BY <3>3, <4>2, <4>3, <5>1
        <5>2. CASE v = Len(log)
          BY <1>2, <3>2, <3>3, <4>2, <5>2, BoundAssumption
        <5> QED
          BY <3>3, <5>1, <5>2
      <4>5. v \in 1..Len(Append(log, p)) /\ Append(log, p)[v] = log[v]
        BY <3>3, <4>2
      <4>6. /\ log[v].doc.key = gates[t].key
            /\ Usable(log[v].doc, gates[t].token.grant)
        BY <3>1 DEF Live
      <4>7. gates' = gates /\ reads' = reads
        BY <1>1
      <4> HIDE DEF p, log, v
      <4> QED
        BY <4>1, <4>4, <4>5, <4>6, <4>7 DEF Live, log, v
    <3> QED
      BY <3>4, <3>5
  <2> QED
    BY <1>1, <2>1 DEF KeysSound
<1>6. MintedSound' /\ PresentedSound' /\ NothingFromTheFuture' /\ GrantsVerified'
  BY <1>1 DEF IndInv, MintedSound, PresentedSound, Genuine, NothingFromTheFuture,
       GrantsVerified, Granted, Verified
<1> QED
  BY <1>4, <1>5, <1>6 DEF IndInv

\* Time passes, or nothing happens.
LEMMA TickStep ==
  ASSUME IndInv, Tick \/ UNCHANGED vars
  PROVE  IndInv'
<1>1. /\ clock' \in {clock, clock + 1} /\ clock \in Nat
      /\ UNCHANGED <<published, reads, minted, gates>>
  BY DEF IndInv, TypeOK, Tick, Directory!Tick, vars
<1>2. TypeOK'
  <2>1. clock' \in Nat
    BY <1>1
  <2> QED
    BY <1>1, <2>1 DEF IndInv, TypeOK
<1>3. NothingFromTheFuture'
  BY <1>1, PartTypes DEF IndInv, NothingFromTheFuture, Read
<1>4. MintedSound' /\ PresentedSound' /\ KeysSound' /\ GrantsVerified'
  BY <1>1 DEF IndInv, MintedSound, PresentedSound, Genuine, KeysSound, Live,
       GrantsVerified, Granted, Verified
<1> QED
  BY <1>2, <1>3, <1>4 DEF IndInv

\* The invariant of presenting tokens and verifying them.
THEOREM IndInvInvariant == Spec => []IndInv
<1>1. Init => IndInv
  BY InitIndInv
<1>2. IndInv /\ [Next]_vars => IndInv'
  <2> SUFFICES ASSUME IndInv, [Next]_vars PROVE IndInv'
    OBVIOUS
  <2>1. CASE \E g \in Grants, key \in Keys : MintToken(g, key)
    BY <2>1, MintStep
  <2>2. CASE \E t \in Tasks : PresentGarbled(t)
    BY <2>2, PresentGarbledStep
  <2>3. CASE \E t \in Tasks, u \in Urls : \E token \in Presentable \ {Garbled} :
               PresentToken(t, u, token)
    BY <2>3, PresentTokenStep
  <2>4. CASE \E t \in Tasks, u \in Urls : \E token \in Presentable \ {Garbled} :
               \E v \in 1..Len(published[u]) : PresentAndResolve(t, u, token, v)
    BY <2>4, PresentAndResolveStep
  <2>5. CASE \E t \in Tasks : \E v \in 1..Len(published[reads[t].url]) : Resolve(t, v)
    BY <2>5, ResolveStep
  <2>6. CASE \E t \in Tasks, fault \in FetchFaults : ResolutionFails(t, fault)
    BY <2>6, ResolutionFailsStep
  <2>7. CASE \E t \in Tasks, request \in Asked : VerifyToken(t, request)
    BY <2>7, VerifyTokenStep
  <2>8. CASE \E u \in Urls, doc \in Documents, max_age \in MaxAges :
               PublishKey(u, doc, max_age)
    BY <2>8, PublishKeyStep
  <2>9. CASE Tick \/ UNCHANGED vars
    BY <2>9, TickStep
  <2> QED
    BY <2>1, <2>2, <2>3, <2>4, <2>5, <2>6, <2>7, <2>8, <2>9 DEF Next
<1> QED
  BY <1>1, <1>2, PTL DEF Spec

-----------------------------------------------------------------------------
\* What verify_token has found of a granted token.
LEMMA GrantedFacts ==
  ASSUME IndInv, NEW t \in Tasks, Granted(t)
  PROVE  LET gate == gates[t]
             g    == gates[t].token.grant
         IN /\ gate.token \in Tokens /\ Genuine(gate.token) /\ gate.request \in Requests
            /\ gate.key \in Keys \cup {NoKey} /\ gate.token.signature.key # NoKey
            /\ gate.token.signature = Token(g, gate.key).signature
            /\ Begun(g, gate.decided) /\ NotExpired(g, gate.decided)
            /\ Overflow \notin {g.not_before, g.expires}
            /\ GrantedTo(g, gate.request.actor)
            /\ FilterMatches(g, gate.request.object)
            /\ ScopeCovers(g, gate.request.scope)
<1> DEFINE token == gates[t].token
<1> DEFINE key == gates[t].key
<1>1. token \in Tokens /\ Genuine(token)
  BY DEF IndInv, PresentedSound, Underway, Granted
<1>2. gates[t] \in GateRecord
  BY PartTypes DEF IndInv
<1>3. TokenFault(token, key, gates[t].request, gates[t].decided) = "none"
  BY DEF IndInv, GrantsVerified, Verified
<1> HIDE DEF token, key
<1>4. SignatureFault(token, key) = "none"
  BY <1>3 DEF TokenFault
<1>5. token.signature.key # NoKey /\ token.signature = Token(token.grant, key).signature
  BY <1>4 DEF SignatureFault
<1>6. /\ Begun(token.grant, gates[t].decided) /\ NotExpired(token.grant, gates[t].decided)
      /\ Overflow \notin {token.grant.not_before, token.grant.expires}
      /\ GrantedTo(token.grant, gates[t].request.actor)
      /\ FilterMatches(token.grant, gates[t].request.object)
      /\ ScopeCovers(token.grant, gates[t].request.scope)
  BY <1>3, <1>4 DEF TokenFault, Covers
<1>7. gates[t].request \in Requests /\ key \in Keys \cup {NoKey}
  BY <1>2 DEF GateRecord, key
<1> QED
  BY <1>1, <1>5, <1>6, <1>7 DEF token, key

\* A granted token that was verified with a key of its owner's only is minted.
LEMMA GrantedIsMinted ==
  ASSUME IndInv, NEW t \in Tasks, Granted(t), Honest(t)
  PROVE  /\ gates[t].token \in minted
         /\ ~MintRefused(gates[t].token.grant)
<1> DEFINE token == gates[t].token
<1> DEFINE key == gates[t].key
<1>1. /\ token \in Tokens /\ Genuine(token) /\ key \in Keys \cup {NoKey}
      /\ token.signature.key # NoKey
      /\ token.signature = Token(token.grant, key).signature
  BY GrantedFacts
<1>2. token.signature = [key |-> key, over |-> token.grant]
  BY <1>1 DEF Token
<1>3. token.signature.key = key /\ token.signature.over = token.grant
  BY <1>2
<1>4. key \in Keys \ Compromised
  BY <1>1, <1>3 DEF Honest
<1>5. PICK m \in minted : m.signature = token.signature
  BY <1>1, <1>3, <1>4 DEF Genuine
<1>6. m = Token(m.grant, m.signature.key) /\ ~MintRefused(m.grant) /\ m \in Tokens
  BY DEF IndInv, MintedSound, TypeOK
<1>7. m.signature.over = m.grant
  BY <1>6 DEF Token
<1>8. m.grant = token.grant
  BY <1>3, <1>5, <1>7
<1>9. m = token
  BY <1>1, <1>5, <1>6, <1>8 DEF Tokens
<1> QED
  BY <1>6, <1>9

\* Every token, gate and publication has its type; parse_token, resolve_key and
\* verify_token end with a value or one of Faults, whatever the grantor publishes
\* and wherever the times of a token lie.
THEOREM TypeCorrect == Spec => []TypeOK
<1>1. IndInv => TypeOK
  BY DEF IndInv
<1> QED
  BY <1>1, IndInvInvariant, PTL

\* What is granted under a key that only its owner signs with was minted as it
\* is, and allows the request (verify_token, steps 2, 5 and 6).
THEOREM GrantsWereMinted == Spec => []GrantsAreMinted
<1>1. IndInv => GrantsAreMinted
  <2> SUFFICES ASSUME IndInv, NEW t \in Tasks, Granted(t), Honest(t)
               PROVE  LET scope == gates[t].request.scope
                          g     == gates[t].token.grant
                      IN /\ gates[t].token \in minted
                         /\ scope \in PushScopes => g.scope = scope
                         /\ scope = "read_history" => g.scope = "read_history"
                         /\ gates[t].request.object \in Objects =>
                              gates[t].request.object \in g.object_filter
    BY DEF GrantsAreMinted
  <2> DEFINE g == gates[t].token.grant
  <2> DEFINE scope == gates[t].request.scope
  <2>1. gates[t].token \in minted
    BY GrantedIsMinted
  <2>2. FilterMatches(g, gates[t].request.object) /\ ScopeCovers(g, scope)
    BY GrantedFacts
  <2> HIDE DEF g, scope
  <2>3. scope \in PushScopes => g.scope = scope
    BY <2>2, NameAssumption DEF ScopeCovers, PushScopes
  <2>4. scope = "read_history" => g.scope = "read_history"
    BY <2>2, NameAssumption DEF ScopeCovers, ReadScopes
  <2>5. gates[t].request.object \in Objects => gates[t].request.object \in g.object_filter
    BY <2>2, NameAssumption DEF FilterMatches
  <2> QED
    BY <2>1, <2>3, <2>4, <2>5 DEF g, scope
<1> QED
  BY <1>1, IndInvInvariant, PTL

\* An actor that a minted token does not name gets no more than the topology by
\* it: what keeps others from more is mint_token's allowlist, not verify_token.
THEOREM StrangersReadNoMore == Spec => []StrangersReadTopologyOnly
<1>1. IndInv => StrangersReadTopologyOnly
  <2> SUFFICES ASSUME IndInv, NEW t \in Tasks, Granted(t), Honest(t),
                      gates[t].request.actor
                        \notin {Unspecified, gates[t].token.grant.granted_to}
               PROVE  gates[t].request.scope \in {Unspecified, "read_topology"}
    BY DEF StrangersReadTopologyOnly
  <2> DEFINE g == gates[t].token.grant
  <2>1. ~MintRefused(g)
    BY GrantedIsMinted
  <2>2. GrantedTo(g, gates[t].request.actor) /\ ScopeCovers(g, gates[t].request.scope)
    BY GrantedFacts
  <2> HIDE DEF g
  <2>3. g.granted_to = Anyone
    BY <2>2 DEF GrantedTo, g
  <2>4. g.scope = "read_topology"
    BY <2>1, <2>3 DEF MintRefused, StarSafeScopes
  <2> QED
    BY <2>2, <2>4 DEF ScopeCovers
<1> QED
  BY <1>1, IndInvInvariant, PTL

\* A token is in its window when verify_token grants, however long the lookup of
\* the key took.
THEOREM GrantsAreInTime == Spec => []GrantedInTime
<1>1. IndInv => GrantedInTime
  BY GrantedFacts DEF GrantedInTime, Begun, NotExpired
<1> QED
  BY <1>1, IndInvInvariant, PTL

\* The key behind a granted token was published less than MaxStaleness before it
\* was looked up, and was valid at the token's not_before.
THEOREM KeysAreLive == Spec => []KeysWereLive
<1>1. IndInv => KeysWereLive
  <2> SUFFICES ASSUME IndInv, NEW t \in Tasks, Granted(t)
               PROVE  LET log == published[reads[t].url]
                          v   == reads[t].version
                          nb  == gates[t].token.grant.not_before
                      IN /\ v \in 1..Len(log)
                         /\ log[v].doc.key = gates[t].token.signature.key
                         /\ log[v].doc.fault = "none"
                         /\ v < Len(log) => reads[t].since < log[v + 1].from + MaxStaleness
                         /\ nb # NoTime =>
                              /\ log[v].doc.window \notin {NoWindow, Overflow}
                              /\ nb \in log[v].doc.window.not_before
                                         ..log[v].doc.window.not_after
    BY DEF KeysWereLive
  <2> DEFINE log == published[reads[t].url]
  <2> DEFINE v == reads[t].version
  <2> DEFINE token == gates[t].token
  <2> DEFINE nb == token.grant.not_before
  <2>1. /\ v \in 1..Len(log)
        /\ v < Len(log) => reads[t].since < log[v + 1].from + MaxStaleness
        /\ log[v].doc.key = gates[t].key
        /\ Usable(log[v].doc, token.grant)
    BY DEF IndInv, KeysSound, Live, Granted
  <2>2. /\ token \in Tokens /\ nb # Overflow
        /\ token.signature = Token(token.grant, gates[t].key).signature
    BY GrantedFacts
  <2>3. token.signature.key = gates[t].key
    BY <2>2 DEF Token
  <2>4. KeyFault(log[v].doc, nb) = "none"
    BY <2>1, <2>2 DEF Usable, Anchors
  <2>5. /\ log[v].doc.fault = "none"
        /\ nb # NoTime =>
             /\ log[v].doc.window \notin {NoWindow, Overflow}
             /\ nb \in log[v].doc.window.not_before..log[v].doc.window.not_after
    <3>1. reads[t].url \in Urls
      BY PartTypes DEF IndInv, Read
    <3>2. log[v].doc \in Documents
      BY <2>1, <3>1, PartTypes DEF IndInv
    <3>3. log[v].doc.window \in [not_before : Nat, not_after : Nat] \cup {NoWindow, Overflow}
      BY <3>2, DocumentAssumption
    <3>4. nb \in Times
      BY <2>2, TokenType
    <3> HIDE DEF nb, log, v
    <3> QED
      BY <2>2, <2>4, <3>3, <3>4 DEF KeyFault, Outside, Times
  <2> HIDE DEF nb, log, v, token
  <2> QED
    BY <2>1, <2>3, <2>5 DEF nb, log, v, token
<1> QED
  BY <1>1, IndInvInvariant, PTL
=============================================================================
