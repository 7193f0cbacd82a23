----------------------------- MODULE MCSolutions -----------------------------
(***************************************************************************)
(* Solutions for TLC, with the conversion of the manifests that the states   *)
(* send.                                                                     *)
(***************************************************************************)
EXTENDS Solutions, Conversion, TLC

\* The administrators are alike.
WriterSymmetry == Permutations(Writers)

(***************************************************************************)
(* What a state sends is its manifest: refused where it does not fit the     *)
(* model, and otherwise converted value by value, with none dropped (a fact  *)
(* about functions, evaluated in the initial state): see                     *)
(* ConversionIsComplete in Conversion.                                       *)
(***************************************************************************)
ManifestsConverted == commands = 0 /\ job = [a \in Writers |-> Idle] => ConversionIsComplete
=============================================================================
