---------------------------- MODULE MCExpressions ----------------------------
(* Expressions of up to MaxWraps operators around each first variable.     *)
EXTENDS Expressions
=============================================================================
