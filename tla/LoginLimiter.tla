---------------------------- MODULE LoginLimiter ----------------------------
(***************************************************************************)
(* The limiter of failed logins (auth.go): loginHandler, which serves any  *)
(* number of POST requests at the same time, and the three functions it    *)
(* calls.  Each of them locks loginMu, so each is one step; between them   *)
(* the handler holds nothing.                                              *)
(***************************************************************************)
EXTENDS Integers, FiniteSets

CONSTANTS
  Requests,     \* the goroutines that may serve a login at the same time
  IPs,          \* the client addresses
  MaxAttempts,  \* auth.max_attempts; the limiter is off unless it is positive
  Lockout       \* auth.lockout_minutes

ASSUME LimiterAssumption == /\ IsFiniteSet(Requests)
                            /\ MaxAttempts \in Int
                            /\ Lockout \in Nat \ {0}

VARIABLES
  attempts,  \* loginAttempts
  request    \* the frame of each goroutine

lvars == <<attempts, request>>

(***************************************************************************)
(* An entry of loginAttempts.  The count of an entry is at least 1, so 0   *)
(* stands for an address without one.  age is the time since lastFail; all *)
(* ages beyond Lockout are alike.                                          *)
(***************************************************************************)
NoEntry == [count |-> 0, age |-> 0]

LimiterTypeOK ==
  /\ attempts \in [IPs -> [count : Nat, age : 0..Lockout + 1]]
  /\ request \in [Requests -> [pc : {"idle", "compare", "report", "answer"}, ip : IPs]]

LimiterInit ==
  /\ attempts = [ip \in IPs |-> NoEntry]
  /\ request \in [Requests -> [pc : {"idle"}, ip : IPs]]

-----------------------------------------------------------------------------
(***************************************************************************)
(* checkRateLimit.  It drops an entry whose lockout period has passed, and *)
(* then tells whether the address is blocked.                              *)
(***************************************************************************)
Entry(ip) == IF MaxAttempts > 0 /\ attempts[ip].age > Lockout
             THEN NoEntry ELSE attempts[ip]

Blocked(ip) == MaxAttempts > 0 /\ Entry(ip).count >= MaxAttempts

CheckRateLimit(ip) == attempts' = [attempts EXCEPT ![ip] = Entry(ip)]

\* Fault: an attempt that is refused counts as a failure.
RefuseAndCount(q, ip) ==
  /\ request[q].pc = "idle" /\ Blocked(ip)
  /\ attempts' = [attempts EXCEPT ![ip].age = 0]
  /\ request' = [request EXCEPT ![q] = [pc |-> "answer", ip |-> ip]]

\* A POST from a blocked address: the credentials are not looked at.
Refuse(q, ip) ==
  /\ request[q].pc = "idle" /\ Blocked(ip)
  /\ CheckRateLimit(ip)
  /\ request' = [request EXCEPT ![q] = [pc |-> "answer", ip |-> ip]]

\* Fault: the limit is checked with > instead of >=.
AdmitAtLimit(q, ip) ==
  /\ request[q].pc = "idle" /\ (MaxAttempts <= 0 \/ Entry(ip).count <= MaxAttempts)
  /\ CheckRateLimit(ip)
  /\ request' = [request EXCEPT ![q] = [pc |-> "compare", ip |-> ip]]

\* A POST from another address: the credentials are compared next.
Admit(q, ip) ==
  /\ request[q].pc = "idle" /\ ~Blocked(ip)
  /\ CheckRateLimit(ip)
  /\ request' = [request EXCEPT ![q] = [pc |-> "compare", ip |-> ip]]

\* The credentials are right: clearAttempts, the cookie, the redirect.
Accept(q) ==
  /\ request[q].pc = "compare"
  /\ attempts' = [attempts EXCEPT ![request[q].ip] = NoEntry]
  /\ request' = [request EXCEPT ![q].pc = "answer"]

\* They are wrong: recordFailure ...
Reject(q) ==
  /\ request[q].pc = "compare"
  /\ attempts' = [attempts EXCEPT ![request[q].ip] = [count |-> @.count + 1, age |-> 0]]
  /\ request' = [request EXCEPT ![q].pc = "report"]

\* ... and a second checkRateLimit, for the attempts that remain.
Report(q) ==
  /\ request[q].pc = "report"
  /\ CheckRateLimit(request[q].ip)
  /\ request' = [request EXCEPT ![q].pc = "answer"]

\* The page is rendered and the goroutine is free again.
Answer(q) ==
  /\ request[q].pc = "answer"
  /\ request' = [request EXCEPT ![q].pc = "idle"]
  /\ UNCHANGED attempts

\* Time passes.
Tick ==
  /\ attempts' = [ip \in IPs |->
       IF attempts[ip].count > 0 /\ attempts[ip].age <= Lockout
       THEN [attempts[ip] EXCEPT !.age = @ + 1] ELSE attempts[ip]]
  /\ UNCHANGED request

LimiterNext ==
  \/ Tick
  \/ \E q \in Requests :
       \/ \E ip \in IPs : Refuse(q, ip) \/ Admit(q, ip)
       \/ Accept(q) \/ Reject(q) \/ Report(q) \/ Answer(q)

LimiterSpec == LimiterInit /\ [][LimiterNext]_lvars

\* Time goes on.  Nobody has to log in, and no request has to finish.
FairLimiterSpec == LimiterSpec /\ WF_lvars(Tick)

-----------------------------------------------------------------------------
(***************************************************************************)
(* Properties.                                                             *)
(***************************************************************************)

\* However many requests pass checkRateLimit before the first of them calls
\* recordFailure, an address never collects more than max_attempts failures
\* plus one for each other request in progress: a refused attempt and an entry
\* dropped in between do not let more through.  (config.yml:108 calls
\* max_attempts the most failures before a lockout; requests that were checked
\* together may exceed it by their number less one.)
FailuresBounded ==
  \A ip \in IPs : attempts[ip].count <= MaxAttempts + Cardinality(Requests) - 1

\* Every lockout ends ("for how long to lock out once max_attempts is exceeded",
\* config.yml:110): failures recorded late by requests that were admitted
\* before can prolong it, attempts that are refused cannot, however many
\* are made.
LockoutEnds == \A ip \in IPs : Blocked(ip) ~> ~Blocked(ip)
=============================================================================
