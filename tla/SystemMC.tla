------------------------------ MODULE SystemMC ------------------------------
(* Instances of System for TLC. *)
EXTENDS System

CONSTANTS a1, t1, t2
=============================================================================
