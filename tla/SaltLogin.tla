------------------------------ MODULE SaltLogin ------------------------------
(***************************************************************************)
(* The client of the storage operator with the authentication of Salt API:   *)
(* a login succeeds when the API server of Kubernetes vouches for the        *)
(* credentials of the operator, which it may stop to do for a while.         *)
(***************************************************************************)
EXTENDS SaltClient, SaltAuth

VARIABLES
  creds,    \* credentials of the operator
  kube      \* what the API server of Kubernetes answers now

loginVars == <<vars, creds, kube>>

NewCredential ==
  {[username |-> OperatorName, token |-> basic # TRUE, password |-> basic] : basic \in BOOLEAN}

Kube == [configured : BOOLEAN, review : {OperatorName, "another", "nobody", "error", "raises"},
         version : Answers, nodes : {"denied"}]

Good == [configured |-> TRUE, review |-> OperatorName, version |-> "allowed", nodes |-> "denied"]

\* The answers that the credentials make no use of stay as they are.
Answer ==
  {k \in Kube : \/ k = [Good EXCEPT !.configured = FALSE]
                \/ k.configured /\ IF creds.password THEN k.review = OperatorName
                                                     ELSE k.version = "allowed"}

Vouched == auth(creds, kube) = "yes"

GiveToken == (Login \/ Relogin) /\ (step' # "failed" => Vouched) /\ UNCHANGED <<creds, kube>>

\* A login that is refused, or whose check raises, is an error for the client.
RefuseLogin ==
  /\ step \in {"login", "relogin"} /\ ~Vouched
  /\ step' = "failed"
  /\ UNCHANGED <<server, token, ran, shaken, faults, creds, kube>>

Request == (Call \/ Send \/ Resend \/ Return) /\ UNCHANGED <<creds, kube>>

Around == (Tick \/ Restart) /\ UNCHANGED <<creds, kube>>

KubeFails ==
  /\ Fault
  /\ kube = Good /\ kube' \in Answer \ {Good}
  /\ UNCHANGED <<server, token, step, ran, shaken, creds>>

KubeRecovers ==
  /\ kube # Good /\ kube' = Good
  /\ UNCHANGED <<vars, creds>>

LoginInit == Init /\ creds \in NewCredential /\ kube = Good

LoginClient == GiveToken \/ RefuseLogin \/ Request
LoginNext == LoginClient \/ Around \/ KubeFails \/ KubeRecovers

\* The client goes on and the API server does not stay out of service.
LoginSpec ==
  /\ LoginInit /\ [][LoginNext]_loginVars
  /\ WF_loginVars(LoginClient) /\ WF_loginVars(KubeRecovers)

\* What the operator asks for is permitted to it without a group.
ASSUME OperatorIsPermitted ==
  {"disk.dump", "state.sls volumes", "jobs"} \subseteq Permitted(OperatorName, {})

Vouching ==
  /\ kube.configured
  /\ creds.token => kube.review = OperatorName
  /\ creds.password => kube.version = "allowed"

(***************************************************************************)
(* Salt API gives a token only while Kubernetes tells that the credentials   *)
(* are those of the operator: a token of its own, or a password that may     *)
(* read /version.  No error on the way (no configuration, a review that      *)
(* fails or raises, somebody else's token) lets a login pass.                *)
(***************************************************************************)
TokenIsVouched ==
  [][(step \in {"login", "relogin"} /\ step' \in {"send", "resend"}) => Vouching]_loginVars
=============================================================================
