-------------------------- MODULE SaltLogin_proofs --------------------------
(***************************************************************************)
(* Proofs about SaltLogin: what holds of the client holds of it with the     *)
(* authentication too, whose refusals and failures are steps the client      *)
(* alone does not take; and a token is given only to who is vouched for.     *)
(***************************************************************************)
EXTENDS SaltLogin, SaltClient_proofs

\* The operator logs in with a token or a password, and Kubernetes gives one of
\* the answers that auth knows.
LoginInv == IInv /\ creds \in NewCredential /\ kube \in Kube

\* The two steps that SaltClient does not know.
ByItself == RefuseLogin \/ KubeFails

LEMMA StepsOfTheClient == [LoginNext]_loginVars => [Next]_vars \/ ByItself
BY DEF LoginNext, LoginClient, GiveToken, Request, Around, KubeRecovers, ByItself,
       Next, Client, loginVars, vars

LEMMA ByItselfInv == IInv /\ ByItself => IInv'
<1> SUFFICES ASSUME IInv, ByItself PROVE IInv'
  OBVIOUS
<1> USE DEF IInv
<1>1. CASE RefuseLogin
  BY <1>1 DEF RefuseLogin, TypeOK, CallInv, Steps, Outcomes, server, Accepts
<1>2. CASE KubeFails
  <2>1. faults' \in 0..MaxFaults /\ epoch <= faults'
    BY <1>2, FaultAssumption DEF KubeFails, Fault, TypeOK, CallInv
  <2> QED BY <1>2, <2>1 DEF KubeFails, TypeOK, CallInv, server, Accepts
<1> QED BY <1>1, <1>2 DEF ByItself

LEMMA LoginInvariant == LoginSpec => []LoginInv
<1>0. Good \in Kube
  BY DEF Good, Kube, Answers
<1>1. LoginInit => LoginInv
  BY <1>0, InitInv DEF LoginInit, LoginInv
<1>2. LoginInv /\ [LoginNext]_loginVars => LoginInv'
  <2> SUFFICES ASSUME LoginInv, [LoginNext]_loginVars PROVE LoginInv'
    OBVIOUS
  <2>1. IInv'
    BY StepsOfTheClient, StepInv, ByItselfInv DEF LoginInv
  <2>2. UNCHANGED creds
    BY DEF LoginNext, LoginClient, GiveToken, RefuseLogin, Request, Around,
           KubeFails, KubeRecovers, loginVars
  <2>3. kube' \in Kube
    BY <1>0 DEF LoginInv, LoginNext, LoginClient, GiveToken, RefuseLogin, Request,
                Around, KubeFails, KubeRecovers, loginVars, Answer
  <2> QED BY <2>1, <2>2, <2>3 DEF LoginInv
<1> QED BY <1>1, <1>2, PTL DEF LoginSpec

\* The retry with a new token is enough with the authentication too: a login
\* that Kubernetes does not vouch for fails, and refuses no token.
THEOREM LoginRefusesOnlyShaken == LoginSpec => []RefusedOnlyIfShaken
<1>1. LoginInv => RefusedOnlyIfShaken
  BY DEF LoginInv, IInv, CallInv, RefusedOnlyIfShaken
<1> QED BY <1>1, LoginInvariant, PTL

-----------------------------------------------------------------------------
LEMMA ByItselfCalls == IInv /\ ByItself => [Calls!Next]_<<CallState, ran>>
<1> SUFFICES ASSUME IInv, ByItself PROVE Calls!Next \/ UNCHANGED <<CallState, ran>>
  OBVIOUS
<1>1. CASE RefuseLogin
  <2>1. step \in {"login", "relogin"} /\ step' = "failed" /\ ran' = ran
    BY <1>1 DEF RefuseLogin
  <2>2. CallState = "called" /\ CallState' = "failed"
    BY <2>1 DEF CallState
  <2>3. ran' \in {0, 1}
    BY <2>1 DEF IInv, CallInv
  <2> QED BY <2>2, <2>3 DEF Calls!Next, Calls!Fail
<1>2. CASE KubeFails
  BY <1>2 DEF KubeFails, CallState
<1> QED BY <1>1, <1>2 DEF ByItself

\* The client with the authentication implements SaltCall: client.go, and
\* auth of kubernetes_rbac.py, of which every refusal and exception is a call
\* that failed before its command ran.
THEOREM LoginImplementsSaltCall == LoginSpec => CallSpec
<1>1. LoginInit => Calls!Init
  BY InitCalls DEF LoginInit
<1>2. LoginInv /\ [LoginNext]_loginVars => [Calls!Next]_<<CallState, ran>>
  BY StepsOfTheClient, NextCalls, ByItselfCalls DEF LoginInv
<1> QED BY <1>1, <1>2, LoginInvariant, PTL DEF LoginSpec, CallSpec, Calls!Spec

-----------------------------------------------------------------------------
\* auth says yes to the operator only if its token is its own, or its password
\* may read /version.
LEMMA YesIsVouched ==
  ASSUME creds \in NewCredential, kube \in Kube, Vouched
  PROVE  Vouching
<1>0. PICK basic \in BOOLEAN :
        creds = [username |-> OperatorName, token |-> basic # TRUE, password |-> basic]
  BY DEF NewCredential
<1>1. \/ creds.token /\ ~creds.password
      \/ ~creds.token /\ creds.password
  <2>1. creds.token = (basic # TRUE) /\ creds.password = basic
    BY <1>0, Zenon
  <2> QED BY <2>1
<1>2. creds.username = OperatorName
  BY <1>0
<1>3. auth(creds, kube) = "yes"
  BY DEF Vouched
<1>4. _check_auth_args(creds) /\ kube.configured
  BY <1>3 DEF auth
<1>5. CASE creds.password
  <2>1. auth(creds, kube) = _auth_basic(kube)
    BY <1>4, <1>5 DEF auth
  <2>2. kube.version \in Answers
    BY DEF Kube
  <2>3. kube.version = "allowed"
    BY <1>3, <2>1, <2>2 DEF _auth_basic, Answers
  <2> QED BY <1>1, <1>4, <1>5, <2>3 DEF Vouching
<1>6. CASE ~creds.password
  <2>1. auth(creds, kube) = _auth_bearer(OperatorName, kube)
    BY <1>2, <1>4, <1>6 DEF auth
  <2>2. kube.review = OperatorName
    BY <1>3, <2>1 DEF _auth_bearer
  <2> QED BY <1>4, <1>6, <2>2 DEF Vouching
<1> QED BY <1>5, <1>6

\* kubernetes_rbac.py: whatever Kubernetes answers, and whenever it stops, a
\* login passes only while the credentials are told to be the operator's.
THEOREM TokensAreVouched == LoginSpec => TokenIsVouched
<1> DEFINE Given == step \in {"login", "relogin"} /\ step' \in {"send", "resend"}
<1>1. ASSUME LoginInv, LoginNext, Given PROVE Vouching
  <2>1. GiveToken => Vouching
    BY <1>1, YesIsVouched DEF GiveToken, LoginInv
  <2>2. ~RefuseLogin /\ ~KubeFails /\ ~KubeRecovers
    BY <1>1 DEF RefuseLogin, KubeFails, KubeRecovers, vars
  <2>3. ~Request /\ ~Around
    BY <1>1 DEF Request, Around, Call, Send, Resend, DoRequest, Return, Outcomes, Tick, Restart
  <2> QED BY <1>1, <2>1, <2>2, <2>3 DEF LoginNext, LoginClient
<1>2. LoginInv /\ [LoginNext]_loginVars => [Given => Vouching]_loginVars
  BY <1>1
<1> QED BY <1>2, LoginInvariant, PTL DEF LoginSpec, TokenIsVouched
=============================================================================
