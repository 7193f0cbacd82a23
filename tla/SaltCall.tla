------------------------------ MODULE SaltCall ------------------------------
(***************************************************************************)
(* What the reconciliation loop may rely on when it calls Salt API         *)
(* (storage-operator/pkg/salt/client.go): a call that is answered was run  *)
(* exactly once, one that fails was run at most once.  VolumeController is *)
(* built on this: its PrepareVolume, CallFails, AnswerLost and Crash are   *)
(* the four ways out of a call.  SaltClient shows how it comes about.      *)
(***************************************************************************)
EXTENDS Naturals

VARIABLES
  call,   \* "idle", "called", "answered", "failed" or "crashed"
  ran     \* how many times the server ran the command of this call

Init == call = "idle" /\ ran = 0

Call   == call = "idle" /\ call' = "called" /\ ran' = 0
Answer == call = "called" /\ call' = "answered" /\ ran' = 1
Fail   == call = "called" /\ call' = "failed" /\ ran' \in {0, 1}
Crash  == call = "called" /\ call' = "crashed" /\ ran' \in {0, 1}
\* The caller takes the answer; the operator is restarted after a crash.
Return == /\ call \in {"answered", "failed", "crashed"}
          /\ call' = "idle" /\ ran' = 0

Next == Call \/ Answer \/ Fail \/ Crash \/ Return

Spec == Init /\ [][Next]_<<call, ran>>
=============================================================================
