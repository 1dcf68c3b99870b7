--------------------------- MODULE UniqueCalloutMC ---------------------------
(* Instances of UniqueCallout for TLC. *)
EXTENDS UniqueCallout, TLC

CONSTANTS c1, c2, c3, t1, t2, u, a

(* Three requests on two threads, for one application, each known by its   *)
(* user_key or by its app_id.                                              *)
MCThreadOf == c1 :> t1 @@ c2 :> t1 @@ c3 :> t2
MCAppKeyOf == u :> a
=============================================================================
