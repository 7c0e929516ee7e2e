----------------------------- MODULE LoginProofs -----------------------------
(***************************************************************************)
(* The bound on recorded login failures, for any number of requests,       *)
(* addresses, attempts and minutes.                                        *)
(***************************************************************************)
EXTENDS LoginLimiter, FiniteSetTheorems, TLAPS

\* The requests that passed checkRateLimit for ip and may still fail.
Comparing(ip) == {q \in Requests : request[q].pc = "compare" /\ request[q].ip = ip}

\* A failure that is still to be recorded counts already.
InFlightBounded ==
  \A ip \in IPs :
    attempts[ip].count + Cardinality(Comparing(ip))
      <= MaxAttempts + Cardinality(Requests) - 1

LInv == LimiterTypeOK /\ InFlightBounded

\* The sets of requests have sizes, none greater than that of all requests.
LEMMA Cards ==
  /\ Cardinality(Requests) \in Nat
  /\ \A T : T \subseteq Requests =>
       /\ IsFiniteSet(T) /\ Cardinality(T) \in Nat
       /\ Cardinality(T) <= Cardinality(Requests)
BY LimiterAssumption, FS_CardinalityType, FS_Subset

\* A step that changes the entry and the requests of one address ip leaves the
\* bound of the other addresses alone.
LEMMA OneAddress ==
  ASSUME LInv, NEW ip \in IPs, NEW q \in Requests, NEW e, NEW f,
         attempts' = [attempts EXCEPT ![ip] = e],
         request' = [request EXCEPT ![q] = f],
         request[q].pc # "compare" \/ request[q].ip = ip,
         f.pc # "compare" \/ f.ip = ip,
         e.count + Cardinality(Comparing(ip)') <= MaxAttempts + Cardinality(Requests) - 1
  PROVE  InFlightBounded'
<1>1. \A jp \in IPs : jp # ip => Comparing(jp)' = Comparing(jp)
  BY DEF Comparing, LInv, LimiterTypeOK
<1>2. \A jp \in IPs : attempts'[jp] = IF jp = ip THEN e ELSE attempts[jp]
  BY DEF LInv, LimiterTypeOK
<1>3. SUFFICES ASSUME NEW jp \in IPs
               PROVE  attempts'[jp].count + Cardinality(Comparing(jp)')
                        <= MaxAttempts + Cardinality(Requests) - 1
  BY DEF InFlightBounded
<1>4. CASE jp = ip
  BY <1>2, <1>4
<1>5. CASE jp # ip
  BY <1>1, <1>2, <1>5 DEF LInv, InFlightBounded
<1>. QED
  BY <1>4, <1>5

\* The invariant holds before the first login.
LEMMA LInvInit == MaxAttempts > 0 /\ LimiterInit => LInv
<1>1. SUFFICES ASSUME MaxAttempts > 0, LimiterInit PROVE LInv
  OBVIOUS
<1>2. LimiterTypeOK
  BY <1>1, LimiterAssumption DEF LimiterInit, LimiterTypeOK, NoEntry
<1>3. \A ip \in IPs : attempts[ip].count = 0
  BY <1>1 DEF LimiterInit, NoEntry
<1>4. \A ip \in IPs : Comparing(ip) \subseteq Requests
  BY DEF Comparing
<1>5. InFlightBounded
  BY <1>1, <1>3, <1>4, Cards, LimiterAssumption DEF InFlightBounded
<1>. QED
  BY <1>2, <1>5 DEF LInv

\* Every step of loginHandler, and the passing of time, keeps the invariant.
LEMMA LInvNext == MaxAttempts > 0 /\ LInv /\ [LimiterNext]_lvars => LInv'
<1>0. SUFFICES ASSUME MaxAttempts > 0, LInv, [LimiterNext]_lvars PROVE LInv'
  OBVIOUS
<1>t. LimiterTypeOK
  BY <1>0 DEF LInv
<1>c. \A ip : Comparing(ip)' \subseteq Requests /\ Comparing(ip) \subseteq Requests
  BY DEF Comparing
<1>e. \A ip \in IPs : /\ Entry(ip) \in [count : Nat, age : 0..Lockout + 1]
                      /\ Entry(ip).count <= attempts[ip].count
  BY <1>t, LimiterAssumption DEF Entry, NoEntry, LimiterTypeOK
<1>1. CASE UNCHANGED lvars
  BY <1>0, <1>1 DEF lvars, LInv, LimiterTypeOK, InFlightBounded, Comparing
<1>2. CASE Tick
  <2>1. LimiterTypeOK'
    BY <1>t, <1>2, LimiterAssumption DEF Tick, LimiterTypeOK
  <2>2. \A ip \in IPs : attempts'[ip].count = attempts[ip].count /\ Comparing(ip)' = Comparing(ip)
    BY <1>t, <1>2 DEF Tick, LimiterTypeOK, Comparing
  <2>. QED
    BY <1>0, <2>1, <2>2 DEF LInv, InFlightBounded
<1>3. ASSUME NEW q \in Requests, NEW ip \in IPs, Refuse(q, ip) \/ Admit(q, ip)
      PROVE  LInv'
  <2>1. PICK pc \in {"answer", "compare"} :
          request' = [request EXCEPT ![q] = [pc |-> pc, ip |-> ip]]
    BY <1>3 DEF Refuse, Admit
  <2>2. attempts' = [attempts EXCEPT ![ip] = Entry(ip)] /\ request[q].pc = "idle"
    BY <1>3 DEF Refuse, Admit, CheckRateLimit
  <2>3. LimiterTypeOK'
    BY <1>t, <1>e, <2>1, <2>2 DEF LimiterTypeOK
  <2>4. Entry(ip).count + Cardinality(Comparing(ip)') <= MaxAttempts + Cardinality(Requests) - 1
    <3>1. CASE Admit(q, ip)
      <4>1. Entry(ip).count <= MaxAttempts - 1
        BY <1>0, <1>e, <3>1, LimiterAssumption DEF Admit, Blocked
      <4>. QED
        BY <1>c, <1>e, <4>1, Cards, LimiterAssumption
    <3>2. CASE Refuse(q, ip)
      <4>1. Comparing(ip)' = Comparing(ip)
        BY <1>t, <3>2 DEF Refuse, Comparing, LimiterTypeOK
      <4>2. attempts[ip].count + Cardinality(Comparing(ip)) <= MaxAttempts + Cardinality(Requests) - 1
        BY <1>0 DEF LInv, InFlightBounded
      <4>3. attempts[ip].count \in Nat
        BY <1>t DEF LimiterTypeOK
      <4>. QED
        BY <1>c, <1>e, <4>1, <4>2, <4>3, Cards, LimiterAssumption
    <3>. QED
      BY <1>3, <3>1, <3>2
  <2>5. InFlightBounded'
    BY <1>0, <2>1, <2>2, <2>4, OneAddress
  <2>. QED
    BY <2>3, <2>5 DEF LInv
<1>4. ASSUME NEW q \in Requests, Accept(q)
      PROVE  LInv'
  <2>. DEFINE ip == request[q].ip
              f  == [request[q] EXCEPT !.pc = "answer"]
  <2>1. /\ ip \in IPs /\ request[q].pc = "compare"
        /\ attempts' = [attempts EXCEPT ![ip] = NoEntry]
        /\ request' = [request EXCEPT ![q] = f]
        /\ f.pc = "answer"
    BY <1>t, <1>4 DEF Accept, LimiterTypeOK
  <2>2. LimiterTypeOK'
    BY <1>t, <1>4, LimiterAssumption DEF Accept, LimiterTypeOK, NoEntry
  <2>3. NoEntry.count = 0
    BY DEF NoEntry
  <2>. HIDE DEF f
  <2>4. InFlightBounded'
    <3>1. PICK jp \in IPs : jp = ip
      BY <2>1
    <3>2. NoEntry.count + Cardinality(Comparing(jp)') <= MaxAttempts + Cardinality(Requests) - 1
      BY <1>0, <1>c, <2>3, Cards, LimiterAssumption
    <3>. QED
      BY <1>0, <2>1, <3>1, <3>2, OneAddress
  <2>. QED
    BY <2>2, <2>4 DEF LInv
<1>5. ASSUME NEW q \in Requests, Reject(q)
      PROVE  LInv'
  <2>. DEFINE ip == request[q].ip
              e  == [count |-> attempts[ip].count + 1, age |-> 0]
              f  == [request[q] EXCEPT !.pc = "report"]
  <2>1. /\ ip \in IPs /\ request[q].pc = "compare"
        /\ attempts' = [attempts EXCEPT ![ip] = e]
        /\ request' = [request EXCEPT ![q] = f]
        /\ f.pc = "report" /\ e.count = attempts[ip].count + 1
        /\ attempts[ip].count \in Nat
    BY <1>t, <1>5 DEF Reject, LimiterTypeOK
  <2>2. LimiterTypeOK'
    BY <1>t, <1>5, LimiterAssumption DEF Reject, LimiterTypeOK
  <2>3. {r \in Requests : request'[r].pc = "compare" /\ request'[r].ip = ip} = Comparing(ip) \ {q}
    BY <1>t, <2>1 DEF Comparing, LimiterTypeOK
  <2>4. q \in Comparing(ip) /\ IsFiniteSet(Comparing(ip))
    BY <1>c, <2>1, Cards DEF Comparing
  <2>5. Cardinality(Comparing(ip) \ {q}) = Cardinality(Comparing(ip)) - 1
    BY <2>4, FS_RemoveElement
  <2>6. attempts[ip].count + Cardinality(Comparing(ip)) <= MaxAttempts + Cardinality(Requests) - 1
    BY <1>0, <2>1 DEF LInv, InFlightBounded
  <2>7. Cardinality(Comparing(ip)) \in Nat
    BY <1>c, Cards
  <2>8. e.count + Cardinality(Comparing(ip) \ {q}) <= MaxAttempts + Cardinality(Requests) - 1
    BY <2>1, <2>5, <2>6, <2>7, Cards, LimiterAssumption
  <2>. HIDE DEF e, f
  <2>9. InFlightBounded'
    <3>1. PICK jp \in IPs : jp = ip
      BY <2>1
    <3>2. Comparing(jp)' = Comparing(ip) \ {q}
      BY <2>3, <3>1 DEF Comparing
    <3>. QED
      BY <1>0, <2>1, <2>8, <3>1, <3>2, OneAddress
  <2>. QED
    BY <2>2, <2>9 DEF LInv
<1>6. ASSUME NEW q \in Requests, Report(q) \/ Answer(q)
      PROVE  LInv'
  <2>1. LimiterTypeOK'
    <3>1. CASE Report(q)
      <4>1. request[q].ip \in IPs
        BY <1>t DEF LimiterTypeOK
      <4>. QED
        BY <1>t, <1>e, <3>1, <4>1 DEF Report, CheckRateLimit, LimiterTypeOK
    <3>2. CASE Answer(q)
      BY <1>t, <3>2 DEF Answer, LimiterTypeOK
    <3>. QED
      BY <1>6, <3>1, <3>2
  <2>2. \A ip \in IPs : Comparing(ip)' = Comparing(ip)
    BY <1>t, <1>6 DEF Report, Answer, Comparing, LimiterTypeOK
  <2>3. \A ip \in IPs : attempts'[ip].count <= attempts[ip].count
    BY <1>t, <1>e, <1>6 DEF Report, Answer, CheckRateLimit, LimiterTypeOK
  <2>4. \A ip \in IPs : /\ attempts[ip].count \in Nat /\ attempts'[ip].count \in Nat
                        /\ Cardinality(Comparing(ip)) \in Nat
    BY <1>t, <1>c, <2>1, Cards DEF LimiterTypeOK
  <2>5. InFlightBounded'
    BY <1>0, <2>2, <2>3, <2>4, Cards, LimiterAssumption DEF LInv, InFlightBounded
  <2>. QED
    BY <2>1, <2>5 DEF LInv
<1>. QED
  BY <1>0, <1>1, <1>2, <1>3, <1>4, <1>5, <1>6 DEF LimiterNext

\* With the limiter on, the failures an address collects exceed max_attempts by
\* less than the number of requests served at the same time.
THEOREM FailuresAreBounded ==
  ASSUME MaxAttempts > 0
  PROVE  LimiterSpec => []FailuresBounded
<1>1. LInv => FailuresBounded
  <2>1. SUFFICES ASSUME LInv, NEW ip \in IPs
                 PROVE  attempts[ip].count <= MaxAttempts + Cardinality(Requests) - 1
    BY DEF FailuresBounded
  <2>2. attempts[ip].count \in Nat /\ Cardinality(Comparing(ip)) \in Nat
    <3>1. Comparing(ip) \subseteq Requests
      BY DEF Comparing
    <3>. QED
      BY <2>1, <3>1, Cards DEF LInv, LimiterTypeOK
  <2>. QED
    BY <2>1, <2>2, Cards, LimiterAssumption DEF LInv, InFlightBounded
<1>. QED
  BY <1>1, LInvInit, LInvNext, PTL DEF LimiterSpec
=============================================================================
