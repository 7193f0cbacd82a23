------------------------- MODULE SaltClient_proofs -------------------------
(***************************************************************************)
(* Proofs about SaltClient: its type invariant, the refusal of a token and *)
(* the implementation of SaltCall, for every lifetime of the tokens, every *)
(* skew of the clocks and any number of faults.                            *)
(***************************************************************************)
EXTENDS SaltClient, TLAPS

\* A command is run in the last step of a call only, and a token that the
\* server just gave is refused only after a restart or some time.
CallInv ==
  /\ step \in {"idle", "login", "send", "relogin", "resend"} => ran = 0
  /\ ran \in {0, 1}
  /\ step = "resend" /\ ~shaken => Accepts(token)
  /\ step = "refused" => shaken
  /\ epoch <= faults

IInv == TypeOK /\ CallInv

LEMMA NewTokenIsAccepted ==
  ASSUME TypeOK, NewToken, UNCHANGED server
  PROVE  token' \in Token /\ Accepts(token)'
<1>1. clock + Ttl \in 0..(MaxTime + Ttl) /\ clock <= clock + Ttl
      /\ clock + Ttl # -1
  BY SMT, ClockAssumption DEF TypeOK
<1>2. token' = [epoch |-> epoch, expire |-> clock + Ttl]
  BY DEF NewToken
<1> QED
  BY <1>1, <1>2 DEF Token, NoToken, Accepts, server, TypeOK

LEMMA InitInv == Init => IInv
<1> SUFFICES ASSUME Init PROVE IInv
  OBVIOUS
<1>1. 0 \in 0..MaxTime /\ 0 \in 0..MaxFaults /\ 0 \in Nat
  BY ClockAssumption, FaultAssumption
<1>2. skew \in (-MaxSkew)..MaxSkew
  BY DEF Init
<1>3. TypeOK
  BY <1>1, <1>2 DEF Init, TypeOK, Steps
<1>4. CallInv
  BY <1>1 DEF Init, CallInv
<1> QED
  BY <1>3, <1>4 DEF IInv

LEMMA AuthenticateInv ==
  ASSUME IInv, NEW from \in {"login", "relogin"}, NEW to \in {"send", "resend"},
         Authenticate(from, to)
  PROVE  IInv'
<1> USE DEF IInv
<1>1. CASE NewToken /\ step' = to /\ UNCHANGED faults
  <2>1. UNCHANGED <<server, ran, shaken>> /\ step = from
    BY DEF Authenticate
  <2>2. token' \in Token /\ Accepts(token)'
    BY <1>1, <2>1, NewTokenIsAccepted
  <2> QED
    BY <1>1, <2>1, <2>2 DEF TypeOK, CallInv, Steps, Outcomes, server
<1>2. CASE Fault /\ step' = "failed" /\ UNCHANGED token
  BY <1>2, FaultAssumption
     DEF Authenticate, Fault, TypeOK, CallInv, Steps, Outcomes, server, Accepts
<1> QED
  BY <1>1, <1>2 DEF Authenticate

LEMMA DoRequestInv ==
  ASSUME IInv, NEW at \in {"send", "resend"}, DoRequest(at)
  PROVE  IInv'
<1> USE DEF IInv
<1>1. /\ step = at /\ ran = 0 /\ UNCHANGED <<clock, skew, epoch, shaken>>
  BY DEF DoRequest, CallInv, server
<1>2. /\ token' \in Token \cup {NoToken}
      /\ step' \in Steps \ {"idle", "login", "send", "resend"}
      /\ faults' \in 0..MaxFaults /\ faults <= faults'
      /\ ran' \in {0, 1}
      /\ step' = "relogin" => ran' = 0
      /\ step' = "refused" => at = "resend" /\ ~Accepts(token)
  <2>1. Lost(at) \in {"failed", "panic"}
    BY DEF Lost
  <2>2. CASE Accepts(token) /\ ran' = ran + 1 /\ step' = "answered"
             /\ UNCHANGED <<token, faults>>
    BY <1>1, <2>2 DEF TypeOK, Steps, Outcomes
  <2>3. CASE ~Accepts(token) /\ Refused(at) /\ UNCHANGED <<ran, faults>>
    BY <1>1, <2>3 DEF TypeOK, Steps, Outcomes, Refused
  <2>4. CASE Fault /\ step' = Lost(at) /\ UNCHANGED <<token, ran>>
    BY <1>1, <2>1, <2>4, FaultAssumption DEF TypeOK, Steps, Outcomes, Fault
  <2>5. CASE /\ Accepts(token) /\ Fault /\ ran' = ran + 1
             /\ step' = Lost(at) /\ UNCHANGED token
    BY <1>1, <2>1, <2>5, FaultAssumption DEF TypeOK, Steps, Outcomes, Fault
  <2>6. CASE /\ Accepts(token) /\ Fault /\ step' = "failed"
             /\ \E n \in {0, 1} : ran' = ran + n
             /\ UNCHANGED token
    BY <1>1, <2>6, FaultAssumption DEF TypeOK, Steps, Outcomes, Fault
  <2> QED
    BY <2>2, <2>3, <2>4, <2>5, <2>6 DEF DoRequest
<1>3. TypeOK'
  BY <1>1, <1>2 DEF TypeOK
<1>4. CallInv'
  BY <1>1, <1>2, FaultAssumption DEF CallInv, TypeOK
<1> QED
  BY <1>3, <1>4

LEMMA StepInv == IInv /\ [Next]_vars => IInv'
<1> SUFFICES ASSUME IInv, [Next]_vars PROVE IInv'
  OBVIOUS
<1> USE DEF IInv
<1>1. CASE Call
  BY <1>1 DEF Call, TypeOK, CallInv, Steps, Outcomes, server
<1>2. CASE Login
  BY <1>2, AuthenticateInv DEF Login
<1>3. CASE Relogin
  BY <1>3, AuthenticateInv DEF Relogin
<1>4. CASE Send
  BY <1>4, DoRequestInv DEF Send
<1>5. CASE Resend
  BY <1>5, DoRequestInv DEF Resend
<1>6. CASE Return
  BY <1>6 DEF Return, TypeOK, CallInv, Steps, Outcomes, server
<1>7. CASE Tick
  BY <1>7, ClockAssumption DEF Tick, TypeOK, CallInv
<1>8. CASE Restart
  <2>1. /\ epoch' \in 0..MaxFaults /\ faults' \in 0..MaxFaults
        /\ epoch' <= faults'
    BY <1>8, FaultAssumption DEF Restart, Fault, TypeOK, CallInv
  <2> QED
    BY <1>8, <2>1 DEF Restart, TypeOK, CallInv
<1>9. CASE UNCHANGED vars
  BY <1>9 DEF vars, TypeOK, CallInv, Accepts
<1> QED
  BY <1>1, <1>2, <1>3, <1>4, <1>5, <1>6, <1>7, <1>8, <1>9 DEF Next, Client

LEMMA Invariant == Spec => []IInv
<1>1. Init => IInv
  BY InitInv
<1>2. IInv /\ [Next]_vars => IInv'
  BY StepInv
<1> QED
  BY <1>1, <1>2, PTL DEF Spec

\* Client, server and clocks keep the values of their types: client.go,
\* authenticatedRequest and authenticate.
THEOREM TypeCorrect == Spec => []TypeOK
<1>1. IInv => TypeOK
  BY DEF IInv
<1> QED
  BY <1>1, Invariant, PTL

\* A caller sees a token refused only if the server restarted or time passed
\* during the call (client.go, authenticatedRequest): the one retry with a new
\* token is enough against any older invalidation.
THEOREM RefusedOnlyShaken == Spec => []RefusedOnlyIfShaken
<1>1. IInv => RefusedOnlyIfShaken
  BY DEF IInv, CallInv, RefusedOnlyIfShaken
<1> QED
  BY <1>1, Invariant, PTL

-----------------------------------------------------------------------------
(* The implementation of SaltCall. *)

LEMMA InitCalls == Init => Calls!Init
  BY DEF Init, Calls!Init, CallState

LEMMA AuthenticateCalls ==
  ASSUME IInv, NEW from \in {"login", "relogin"}, NEW to \in {"send", "resend"},
         Authenticate(from, to)
  PROVE  Calls!Fail \/ UNCHANGED <<CallState, ran>>
<1>1. step = from /\ ran = 0 /\ ran' = ran
  BY DEF Authenticate, IInv, CallInv
<1>2. CASE step' = to
  BY <1>1, <1>2 DEF CallState
<1>3. CASE step' = "failed"
  BY <1>1, <1>3 DEF CallState, Calls!Fail
<1> QED
  BY <1>2, <1>3 DEF Authenticate

LEMMA DoRequestCalls ==
  ASSUME IInv, NEW at \in {"send", "resend"}, DoRequest(at)
  PROVE  \/ Calls!Answer \/ Calls!Fail \/ Calls!Crash
         \/ UNCHANGED <<CallState, ran>>
<1>1. step = at /\ ran = 0
  BY DEF DoRequest, IInv, CallInv
<1>2. CASE step' = "answered" /\ ran' = ran + 1
  BY <1>1, <1>2 DEF CallState, Calls!Answer
<1>3. CASE step' \in {"refused", "failed"} /\ ran' \in {0, 1}
  BY <1>1, <1>3 DEF CallState, Calls!Fail
<1>4. CASE step' = "panic" /\ ran' \in {0, 1}
  BY <1>1, <1>4 DEF CallState, Calls!Crash
<1>5. CASE step' = "relogin" /\ ran' = ran
  BY <1>1, <1>5 DEF CallState
<1> QED
  BY <1>1, <1>2, <1>3, <1>4, <1>5 DEF DoRequest, Refused, Lost

LEMMA NextCalls ==
  IInv /\ [Next]_vars => [Calls!Next]_<<CallState, ran>>
<1> SUFFICES ASSUME IInv, [Next]_vars
             PROVE  Calls!Next \/ UNCHANGED <<CallState, ran>>
  OBVIOUS
<1>1. CASE Call
  <2>1. step = "idle" /\ step' \in {"login", "send"} /\ ran' = 0
    BY <1>1 DEF Call
  <2>2. Calls!Call
    BY <2>1 DEF CallState, Calls!Call
  <2> QED
    BY <2>2 DEF Calls!Next
<1>2. CASE Login
  BY <1>2, AuthenticateCalls DEF Login, Calls!Next
<1>3. CASE Relogin
  BY <1>3, AuthenticateCalls DEF Relogin, Calls!Next
<1>4. CASE Send
  BY <1>4, DoRequestCalls DEF Send, Calls!Next
<1>5. CASE Resend
  BY <1>5, DoRequestCalls DEF Resend, Calls!Next
<1>6. CASE Return
  <2>1. step \in Outcomes /\ step' = "idle" /\ ran' = 0
    BY <1>6 DEF Return
  <2>2. Calls!Return
    BY <2>1 DEF CallState, Calls!Return, Outcomes
  <2> QED
    BY <2>2 DEF Calls!Next
<1>7. CASE Tick \/ Restart \/ UNCHANGED vars
  BY <1>7 DEF Tick, Restart, vars, CallState
<1> QED
  BY <1>1, <1>2, <1>3, <1>4, <1>5, <1>6, <1>7 DEF Next, Client

\* The client of Salt API implements SaltCall (client.go,
\* authenticatedRequest): no command is run twice in one call, and an answered
\* one was run.
THEOREM ImplementsSaltCall == Spec => CallSpec
<1>1. Init => Calls!Init
  BY InitCalls
<1>2. IInv /\ [Next]_vars => [Calls!Next]_<<CallState, ran>>
  BY NextCalls
<1> QED
  BY <1>1, <1>2, Invariant, PTL DEF Spec, CallSpec, Calls!Spec
=============================================================================
