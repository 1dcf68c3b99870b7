----------------------------- MODULE AppCacheMC -----------------------------
(* Instances of AppCache for TLC. *)
EXTENDS AppCache

CONSTANTS c1, c2

(* Each request has a thread of its own; their usage differs. *)
MCThreadOf == [c \in Contexts |-> c]
MCHits     == [c \in Contexts |-> IF c = c1 THEN 1 ELSE 2]
=============================================================================
