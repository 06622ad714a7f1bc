---------------------------- MODULE JsonGetProofs ----------------------------
(***************************************************************************)
(* Proofs, for every cap, timeout and set of addresses, of the safety      *)
(* properties of JsonGet.                                                  *)
(***************************************************************************)
EXTENDS JsonGet, TLAPS

-----------------------------------------------------------------------------
(* The address filter *)

\* The comparisons of _is_private_v4 are those of the ranges.
LEMMA FilterV4 ==
  ASSUME NEW a \in Octets, NEW b \in Octets
  PROVE  IsPrivateV4(a, b) <=> IsSpecialV4(a, b)
<1> DEFINE n == 256 * a + b
<1> USE DEF Octets
<1>1. IsSpecialV4(a, b) <=>
        \/ n \div 256 = 0 \/ n \div 256 = 127 \/ n \div 256 = 10
        \/ n \div 16 = 2753 \/ n \div 1 = 49320 \/ n \div 64 = 401 \/ n \div 1 = 43518
        \/ n \div 4096 = 14 \/ n \div 4096 = 15
  BY DEF IsSpecialV4, BlocksV4, Block, InBlock
<1>2. n \div 256 = a
  OBVIOUS
<1>3. n \div 16 = 2753 <=> a = 172 /\ 16 <= b /\ b <= 31
  OBVIOUS
<1>4. n \div 64 = 401 <=> a = 100 /\ 64 <= b /\ b <= 127
  OBVIOUS
<1>5. (n \div 1 = 49320 <=> a = 192 /\ b = 168) /\ (n \div 1 = 43518 <=> a = 169 /\ b = 254)
  OBVIOUS
<1>6. n \div 4096 = 14 \/ n \div 4096 = 15 <=> a >= 224
  OBVIOUS
<1> HIDE DEF n
<1> QED BY <1>1, <1>2, <1>3, <1>4, <1>5, <1>6 DEF IsPrivateV4

\* A digit by quotients alone.
LEMMA Digits ==
  ASSUME NEW h \in Nat
  PROVE  /\ Digit2(h) = h \div 256 - 16 * (h \div 4096)
         /\ Digit3(h) = h \div 16 - 16 * (h \div 256)
<1>1. \A n \in Nat : n % 16 = n - 16 * (n \div 16)
  OBVIOUS
<1>2. h \div 256 \in Nat /\ h \div 16 \in Nat
  OBVIOUS
<1>3. (h \div 256) \div 16 = h \div 4096 /\ (h \div 16) \div 16 = h \div 256
  OBVIOUS
<1> QED BY <1>1, <1>2, <1>3 DEF Digit2, Digit3

\* The patterns of _is_private_v6, digit by digit, are those of the ranges.
LEMMA FilterV6Hextet ==
  ASSUME NEW h \in Hextets
  PROVE  (\E block \in BlocksV6 : InBlock(h, block)) <=>
           /\ Digit1(h) = 15
           /\ \/ Digit2(h) = 14 /\ Digit3(h) \in 8..11
              \/ Digit2(h) \in {12, 13}
              \/ Digit2(h) = 15
<1>1. (\E block \in BlocksV6 : InBlock(h, block)) <=>
        h \div 64 = 1018 \/ h \div 512 = 126 \/ h \div 256 = 255
  BY DEF BlocksV6, Block, InBlock
<1>2. h \in Nat /\ h <= 65535
  BY DEF Hextets
<1> DEFINE d1 == h \div 4096
           d2 == h \div 256 - 16 * (h \div 4096)
           d3 == h \div 16 - 16 * (h \div 256)
<1>3. Digit1(h) = d1 /\ Digit2(h) = d2 /\ Digit3(h) = d3
  BY <1>2, Digits DEF Digit1
<1>4. h \div 64 = 1018 <=> d1 = 15 /\ d2 = 14 /\ d3 >= 8 /\ d3 <= 11
  BY <1>2
<1>5. h \div 512 = 126 <=> d1 = 15 /\ (d2 = 12 \/ d2 = 13)
  BY <1>2
<1>6. h \div 256 = 255 <=> d1 = 15 /\ d2 = 15
  BY <1>2
<1>7. d3 \in Int /\ d2 \in Int
  BY <1>2
<1> HIDE DEF d1, d2, d3
<1> QED BY <1>1, <1>3, <1>4, <1>5, <1>6, <1>7

\* _is_private_address refuses exactly the addresses of the ranges it is meant to.
THEOREM FilterIsExact == \A addr \in AllAddresses : IsPrivateAddress(addr) <=> IsSpecial(addr)
<1> SUFFICES ASSUME NEW addr \in AllAddresses PROVE IsPrivateAddress(addr) <=> IsSpecial(addr)
  OBVIOUS
<1>1. addr.a \in Octets /\ addr.b \in Octets /\ addr.first \in Hextets
  BY DEF AllAddresses
<1>2. IsPrivateV4(addr.a, addr.b) <=> IsSpecialV4(addr.a, addr.b)
  BY <1>1, FilterV4
<1>3. IsPrivateV6(addr) <=>
        \/ addr.first = 0 /\ addr.rest \in {"zero", "one"}
        \/ addr.first = 0 /\ addr.rest = "mapped" /\ IsPrivateV4(addr.a, addr.b)
        \/ \E block \in BlocksV6 : InBlock(addr.first, block)
  BY <1>1, FilterV6Hextet DEF IsPrivateV6
<1> QED BY <1>2, <1>3 DEF IsPrivateAddress, IsSpecial

-----------------------------------------------------------------------------
(* The request *)

Safety == TypeOK /\ ConnectsOnlyWhenVetted /\ BodyCapped /\ DurationBounded

LEMMA InitSafety == Init => Safety
<1> SUFFICES ASSUME Init PROVE Safety
  OBVIOUS
<1>1. config \in [allow_http : BOOLEAN, allow_private : BOOLEAN]
  <2>1. PICK h \in BOOLEAN, p \in {"None", "True", "False"} :
          config = [allow_http |-> h,
                    allow_private |-> IF p = "None" THEN h ELSE p = "True"]
    BY DEF Init, Configurations
  <2>2. (IF p = "None" THEN h ELSE p = "True") \in BOOLEAN
    BY Zenon
  <2> QED
    BY <2>1, <2>2
<1>2. TypeOK
  BY <1>1, TimeAssumption DEF Init, TypeOK, OnTheWire, Ended
<1> QED
  BY <1>2, TimeAssumption
  DEF Init, Safety, ConnectsOnlyWhenVetted, BodyCapped, DurationBounded, WaitsOver,
      OnTheWire, Ended

LEMMA NextTypeOK == TypeOK /\ [Next]_vars => TypeOK'
<1> SUFFICES ASSUME TypeOK, [Next]_vars PROVE TypeOK'
  OBVIOUS
<1> USE SizeAssumption, TimeAssumption DEF TypeOK, OnTheWire, Ended
<1>1. ASSUME NEW has_host \in BOOLEAN, Call(has_host)
      PROVE  TypeOK'
  BY <1>1 DEF Call, Raise
<1>2. ASSUME NEW infos \in Answers, Resolved(infos)
      PROVE  TypeOK'
  BY <1>2 DEF Resolved, Raise
<1>3. CASE ResolutionFails \/ TransportFails \/ TimesOut
  BY <1>3 DEF ResolutionFails, TransportFails, TimesOut, Raise
<1>4. CASE Connected \/ Handshaken \/ Sent
  BY <1>4 DEF Connected, Handshaken, Sent, NextWait
<1>5. CASE Receive
  <2>1. reads' \in 0..MaxReads
    BY <1>5 DEF Receive
  <2> QED
    BY <1>5, <2>1 DEF Receive
<1>6. ASSUME NEW status \in {200, 302, 404}, HeaderComplete(status)
      PROVE  TypeOK'
  BY <1>6 DEF HeaderComplete, Raise
<1>7. ASSUME NEW n \in ChunkSizes, Chunk(n)
      PROVE  TypeOK'
  BY <1>7 DEF Chunk
<1>8. ASSUME NEW is_json \in BOOLEAN, BodyComplete(is_json)
      PROVE  TypeOK'
  BY <1>8 DEF BodyComplete
<1>9. CASE Tick
  BY <1>9 DEF Tick
<1>10. CASE UNCHANGED vars
  BY <1>10 DEF vars
<1> QED
  BY <1>1, <1>2, <1>3, <1>4, <1>5, <1>6, <1>7, <1>8, <1>9, <1>10 DEF Next

LEMMA NextVetted ==
  TypeOK /\ ConnectsOnlyWhenVetted /\ [Next]_vars => ConnectsOnlyWhenVetted'
<1> SUFFICES ASSUME TypeOK, ConnectsOnlyWhenVetted, [Next]_vars PROVE ConnectsOnlyWhenVetted'
  OBVIOUS
<1>1. ASSUME NEW infos \in Answers, Resolved(infos)
      PROVE  ConnectsOnlyWhenVetted'
  <2>1. \A addr \in infos : IsPrivateAddress(addr) <=> IsSpecial(addr)
    BY AddressAssumption, FilterIsExact
  <2>2. pc' = "raised" \/ (addresses' = infos /\ UNCHANGED config /\ infos # {} /\ ~Refused(infos))
    BY <1>1 DEF Resolved, Raise
  <2>3. ~Refused(infos) => config.allow_private \/ \A addr \in infos : ~IsSpecial(addr)
    BY <2>1 DEF Refused
  <2> QED BY <2>2, <2>3 DEF ConnectsOnlyWhenVetted, OnTheWire
\* Every other step that leads on the wire comes from there.
<1>2. ASSUME UNCHANGED <<config, addresses>>,
             pc' \in OnTheWire \cup {"returned"} => pc \in OnTheWire \cup {"returned"}
      PROVE  ConnectsOnlyWhenVetted'
  BY <1>2 DEF ConnectsOnlyWhenVetted
<1> QED
  BY <1>1, <1>2
  DEF Next, vars, OnTheWire, Call, ResolutionFails, NextWait, Connected, Handshaken, Sent,
      Receive, HeaderComplete, Chunk, BodyComplete, TransportFails, TimesOut, Expired, Tick,
      Raise

LEMMA NextCapped == TypeOK /\ BodyCapped /\ [Next]_vars => BodyCapped'
<1> SUFFICES ASSUME TypeOK, BodyCapped, [Next]_vars PROVE BodyCapped'
  OBVIOUS
<1> USE SizeAssumption DEF TypeOK, OnTheWire, Ended, Raise
<1>1. ASSUME NEW n \in ChunkSizes, Chunk(n)
      PROVE  BodyCapped'
  <2>1. n \in Nat /\ buf <= MAX_RESPONSE_BYTES /\ buf' = buf + n
    BY <1>1 DEF Chunk, BodyCapped
  <2>2. buf' - n <= MAX_RESPONSE_BYTES
    BY <2>1
  <2>3. pc' \in {"reading", "returned"} => buf' <= MAX_RESPONSE_BYTES
    BY <1>1, <2>1 DEF Chunk, OverCap
  <2>4. pc' \in {"reading"} \cup Ended
    BY <1>1 DEF Chunk
  <2> QED
    BY <2>2, <2>3, <2>4 DEF BodyCapped
\* Every other step leaves buf alone, and leads to a body that is read or
\* returned only from one that is read or from an empty one.
<1>2. ASSUME UNCHANGED buf,
             pc' \in {"reading", "returned"} => pc \in {"awaiting", "reading", pc'},
             pc' \notin {"reading"} \cup Ended => pc \notin {"reading"} \cup Ended
      PROVE  BodyCapped'
  <2>1. pc \in {"awaiting", "reading", "returned"} => buf <= MAX_RESPONSE_BYTES
    BY DEF BodyCapped
  <2>2. pc' \in {"reading", "returned"} => buf' <= MAX_RESPONSE_BYTES
    BY <1>2, <2>1
  <2>3. pc' \notin {"reading"} \cup Ended => buf' = 0
    BY <1>2 DEF BodyCapped
  <2>4. buf' > 0 => \E n \in ChunkSizes : buf' - n <= MAX_RESPONSE_BYTES
    BY <1>2 DEF BodyCapped
  <2> QED
    BY <2>2, <2>3, <2>4 DEF BodyCapped
<1>3. CASE UNCHANGED vars
  BY <1>2, <1>3 DEF vars
<1> QED
  BY <1>1, <1>2, <1>3
  DEF Next, Call, Resolved, ResolutionFails, NextWait, Connected, Handshaken, Sent, Receive,
      HeaderComplete, BodyComplete, TransportFails, TimesOut, Expired, Tick

\* A wait that is over makes room for timeout_seconds more.
LEMMA OneMoreWait ==
  ASSUME NEW k \in Nat, NEW m \in Nat
  PROVE  /\ timeout_seconds * k \in Nat
         /\ m >= k => timeout_seconds * m >= timeout_seconds * k
         /\ m > k => timeout_seconds * m >= timeout_seconds * k + timeout_seconds
<1>1. timeout_seconds \in Nat /\ timeout_seconds * k \in Nat
  BY TimeAssumption
<1>2. ASSUME NEW j \in Nat, m = k + j
      PROVE  timeout_seconds * m = timeout_seconds * k + timeout_seconds * j
             /\ timeout_seconds * j \in Nat
  BY <1>1, <1>2
<1>3. ASSUME m > k
      PROVE  timeout_seconds * m >= timeout_seconds * k + timeout_seconds
  <2>1. m - k - 1 \in Nat /\ m = k + ((m - k - 1) + 1)
    BY <1>3
  <2>2. PICK j \in Nat : m = k + (j + 1)
    BY <2>1
  <2>3. timeout_seconds * (j + 1) = timeout_seconds * j + timeout_seconds
        /\ timeout_seconds * j \in Nat
    BY <1>1
  <2>4. j + 1 \in Nat
    OBVIOUS
  <2>5. timeout_seconds * m = timeout_seconds * k + timeout_seconds * (j + 1)
    BY <1>2, <2>2, <2>4
  <2> QED
    BY <1>1, <2>3, <2>5
<1> QED
  BY <1>1, <1>3

LEMMA WaitsType ==
  ASSUME TypeOK
  PROVE  /\ WaitsOver \in Nat /\ Dials \in {1, 2}
         /\ silence \in Nat /\ silence <= timeout_seconds /\ elapsed \in Nat
         /\ reads \in Nat /\ reads <= MaxReads
BY TimeAssumption DEF TypeOK, WaitsOver, Dials, OnTheWire, Ended

\* Each step either ends a wait, or leaves the timer and the time alone, or is a
\* second of both.
LEMMA NextDuration == TypeOK /\ DurationBounded /\ [Next]_vars => DurationBounded'
<1> SUFFICES ASSUME TypeOK, DurationBounded, [Next]_vars, reads' < MaxReads
             PROVE  elapsed' <= timeout_seconds * WaitsOver' + silence'
  BY DEF DurationBounded
<1>0. /\ WaitsOver \in Nat /\ Dials \in {1, 2} /\ silence \in Nat /\ elapsed \in Nat
      /\ silence <= timeout_seconds /\ reads \in Nat /\ reads <= MaxReads
      /\ timeout_seconds \in Nat /\ MaxReads \in Nat
  BY WaitsType, TimeAssumption
<1>1. TypeOK' /\ WaitsOver' \in Nat
  BY NextTypeOK DEF TypeOK, WaitsOver, Dials, OnTheWire, Ended
\* The two kinds of step that do not count seconds.
<1>2. ASSUME UNCHANGED <<elapsed, silence>>, WaitsOver' >= WaitsOver, reads < MaxReads
      PROVE  elapsed' <= timeout_seconds * WaitsOver' + silence'
  <2>1. elapsed <= timeout_seconds * WaitsOver + silence
    BY <1>2 DEF DurationBounded
  <2>2. /\ timeout_seconds * WaitsOver' >= timeout_seconds * WaitsOver
        /\ timeout_seconds * WaitsOver \in Nat /\ timeout_seconds * WaitsOver' \in Nat
    BY <1>0, <1>1, <1>2, OneMoreWait
  <2> QED
    BY <1>0, <1>2, <2>1, <2>2
<1>3. ASSUME UNCHANGED elapsed, silence' = 0, WaitsOver' > WaitsOver, reads < MaxReads
      PROVE  elapsed' <= timeout_seconds * WaitsOver' + silence'
  <2>1. elapsed <= timeout_seconds * WaitsOver + silence
    BY <1>3 DEF DurationBounded
  <2>2. /\ timeout_seconds * WaitsOver' >= timeout_seconds * WaitsOver + timeout_seconds
        /\ timeout_seconds * WaitsOver \in Nat /\ timeout_seconds * WaitsOver' \in Nat
    BY <1>0, <1>1, <1>3, OneMoreWait
  <2> QED
    BY <1>0, <1>3, <2>1, <2>2
<1>4. CASE Connected \/ Handshaken \/ Sent
  <2>1. UNCHANGED <<reads, scheme>> /\ Dials' = Dials /\ Dials \in {1, 2}
    BY <1>0, <1>4 DEF Connected, Handshaken, Sent, NextWait, Dials
  <2>2. ASSUME Connected PROVE WaitsOver' > WaitsOver
    <3>1. WaitsOver = 0
      BY <2>2 DEF Connected, NextWait, WaitsOver, Ended
    <3>2. (pc' = "handshaking" /\ scheme = "https") \/ pc' = "sending"
      BY <2>2, Zenon DEF Connected, NextWait
    <3>3. scheme = "https" => Dials = 2
      BY DEF Dials
    <3>4. pc' = "handshaking" => WaitsOver' = Dials - 1
      BY <2>1 DEF WaitsOver, Ended
    <3>5. pc' = "sending" => WaitsOver' = Dials
      BY <2>1 DEF WaitsOver, Ended
    <3> QED
      BY <2>1, <3>1, <3>2, <3>3, <3>4, <3>5
  <2>3. ASSUME Handshaken PROVE WaitsOver' > WaitsOver
    <3>1. WaitsOver = Dials - 1 /\ WaitsOver' = Dials
      BY <2>1, <2>3 DEF Handshaken, NextWait, WaitsOver, Ended
    <3> QED
      BY <2>1, <3>1
  <2>4. ASSUME Sent PROVE WaitsOver' > WaitsOver
    <3>1. WaitsOver = Dials /\ WaitsOver' = Dials + 1 + reads
      BY <2>1, <2>4 DEF Sent, NextWait, WaitsOver, Ended
    <3> QED
      BY <1>0, <2>1, <3>1
  <2>5. WaitsOver' > WaitsOver
    BY <1>4, <2>2, <2>3, <2>4
  <2> QED
    BY <1>3, <1>4, <2>1, <2>5 DEF Connected, Handshaken, Sent, NextWait
<1>5. CASE Receive
  <2>1. reads < MaxReads /\ reads' = reads + 1
    BY <1>0, <1>5 DEF Receive
  <2>2. WaitsOver' > WaitsOver
    BY <1>0, <1>5, <2>1 DEF Receive, WaitsOver, Dials, Ended
  <2> QED
    BY <1>3, <1>5, <2>1, <2>2 DEF Receive
<1>6. CASE Tick
  <2>1. UNCHANGED <<WaitsOver, reads>> /\ silence' = silence + 1 /\ elapsed' <= elapsed + 1
    BY <1>0, <1>6 DEF Tick, WaitsOver, Dials
  <2>2. elapsed <= timeout_seconds * WaitsOver + silence
    BY <2>1 DEF DurationBounded
  <2>3. timeout_seconds * WaitsOver \in Nat /\ elapsed' \in Nat
    BY <1>0, <1>1, OneMoreWait DEF TypeOK
  <2> QED
    BY <1>0, <2>1, <2>2, <2>3
<1>7. ASSUME UNCHANGED <<elapsed, silence, reads, scheme>>,
             \/ pc' \in Ended
             \/ pc \in {"called", "resolving"}
             \/ pc \in {"awaiting", "reading"} /\ pc' = "reading"
             \/ pc' = pc
      PROVE  elapsed' <= timeout_seconds * WaitsOver' + silence'
  <2>1. Dials' = Dials
    BY <1>7 DEF Dials
  <2>2. WaitsOver' >= WaitsOver
    <3>1. pc \in {"called", "resolving"} => WaitsOver = 0
      BY DEF WaitsOver, Ended
    <3>2. pc' \in Ended => WaitsOver' = Dials + 1 + reads
      BY <1>7, <2>1 DEF WaitsOver, Ended
    <3>3. WaitsOver <= Dials + 1 + reads
      BY <1>0 DEF WaitsOver, TypeOK, OnTheWire, Ended
    <3>4. pc \in {"awaiting", "reading"} /\ pc' = "reading" => WaitsOver' = WaitsOver
      BY <1>7, <2>1 DEF WaitsOver, Ended
    <3>5. pc' = pc => WaitsOver' = WaitsOver
      BY <1>7, <2>1 DEF WaitsOver
    <3> QED
      BY <1>0, <1>1, <1>7, <3>1, <3>2, <3>3, <3>4, <3>5
  <2> QED
    BY <1>2, <1>7, <2>2
<1> QED
  BY <1>4, <1>5, <1>6, <1>7
  DEF Next, vars, Call, Resolved, ResolutionFails, HeaderComplete, Chunk, BodyComplete,
      TransportFails, TimesOut, Raise, Ended

LEMMA SafetyInvariant == Spec => []Safety
<1>1. Init => Safety
  BY InitSafety
<1>2. Safety /\ [Next]_vars => Safety'
  BY NextTypeOK, NextVetted, NextCapped, NextDuration DEF Safety
<1> QED
  BY <1>1, <1>2, PTL DEF Spec

\* Every variable of a request keeps its type; in particular no wait lasts longer
\* than timeout_seconds.
THEOREM TypeCorrect == Spec => []TypeOK
<1>1. Safety => TypeOK
  BY DEF Safety
<1> QED
  BY <1>1, SafetyInvariant, PTL

\* No connection is begun before every address that the name resolved to for
\* _json_get was checked.
THEOREM VettedBeforeConnect == Spec => []ConnectsOnlyWhenVetted
<1>1. Safety => ConnectsOnlyWhenVetted
  BY DEF Safety
<1> QED
  BY <1>1, SafetyInvariant, PTL

\* A response is given up as soon as it is over MAX_RESPONSE_BYTES.
THEOREM BodiesAreCapped == Spec => []BodyCapped
<1>1. Safety => BodyCapped
  BY DEF Safety
<1> QED
  BY <1>1, SafetyInvariant, PTL

\* What timeout_seconds does bound: each wait, and so a request by the number of
\* its waits.
THEOREM DurationsAreBounded == Spec => []DurationBounded
<1>1. Safety => DurationBounded
  BY DEF Safety
<1> QED
  BY <1>1, SafetyInvariant, PTL
=============================================================================
