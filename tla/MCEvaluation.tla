---- MODULE MCEvaluation ----
(* Evaluation for TLC. *)
EXTENDS Evaluation
====
