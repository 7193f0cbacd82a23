------------------------------ MODULE SaltAuth ------------------------------
(***************************************************************************)
(* The external authentication of Salt API (_auth/kubernetes_rbac.py): who   *)
(* logs in gives a bearer token, reviewed by the API server of Kubernetes,   *)
(* or a password, which must let its user read /version.  Everything is a    *)
(* function of the arguments and of what the API server answers:             *)
(*   review   the user the token belongs to, "nobody", "error" or "raises"   *)
(*   version  whether the user may read /version: "allowed", "denied", the   *)
(*            code of a refusal, or "raises"                                 *)
(*   nodes    the same for the management of nodes                           *)
(***************************************************************************)

Answers == {"allowed", "denied", "401", "403", "raises"}

\* One of a token, and a password with its user.
_check_auth_args(a) ==
  /\ ~(a.token /\ a.password)
  /\ a.token \/ (a.password /\ a.username # "")

\* Mutant: nobody asks whose token it is.
_auth_anybody(username, kube) ==
  CASE kube.review = "raises" -> "raises"
    [] kube.review \in {"error", "nobody"} -> "no"
    [] OTHER -> "yes"

_auth_bearer(username, kube) ==
  CASE kube.review = "raises" -> "raises"
    [] kube.review = username -> "yes"
    [] OTHER -> "no"

_auth_basic(kube) ==
  CASE kube.version = "allowed" -> "yes"
    [] kube.version \in {"denied", "401", "403"} -> "no"
    [] kube.version = "raises" -> "raises"

\* A refusal is logged or raised, and leaves no result to look at either way.
_groups_basic(kube) ==
  CASE kube.nodes = "allowed" -> {"node-admins"}
    [] kube.nodes = "denied" -> {}
    [] OTHER -> {"raises"}

auth(a, kube) ==
  CASE ~_check_auth_args(a) -> "raises"
    [] _check_auth_args(a) /\ ~kube.configured -> "no"
    [] OTHER -> IF a.password THEN _auth_basic(kube) ELSE _auth_bearer(a.username, kube)

groups(a, kube) ==
  CASE ~_check_auth_args(a) -> {"raises"}
    [] _check_auth_args(a) /\ ~kube.configured -> {}
    [] OTHER -> IF a.password THEN _groups_basic(kube) ELSE {}

(***************************************************************************)
(* external_auth, in the configuration of the master: what a session may     *)
(* ask for.                                                                  *)
(***************************************************************************)
OperatorName == "storage-operator"

Permitted(username, grps) ==
  (IF "node-admins" \in grps
   THEN {"disk.dump", "state.sls volumes", "any function", "jobs", "wheel", "runner"} ELSE {})
  \cup (IF username = OperatorName THEN {"disk.dump", "state.sls volumes", "jobs"} ELSE {})
=============================================================================
