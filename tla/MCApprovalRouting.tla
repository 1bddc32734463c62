-------------------------- MODULE MCApprovalRouting --------------------------
(* ApprovalRouting with two attempts and a client of every kind.           *)
EXTENDS ApprovalRouting
=============================================================================
