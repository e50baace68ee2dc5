-------------------------- MODULE MCQualification --------------------------
(* Rule counts of the two workloads: an empty bank and one of two rules,   *)
(* one rule to an RPC.                                                     *)
EXTENDS Qualification

MCCounts == <<0, 2>>
=============================================================================
