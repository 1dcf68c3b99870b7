---------------------------- MODULE SingletonMC ----------------------------
(* Instances of Singleton for TLC. *)
EXTENDS Singleton, TLC

CONSTANTS s1, k1, k2, a1, a2, x, y

Told(s, k, a, usage) == [svc |-> <<s>>, tok |-> <<k>>, app |-> a, metrics |-> usage]

(* Two applications of a service; the token of the service changes; one    *)
(* and two metrics; names of one part.                                     *)
MCInputs ==
  { Told(s1, k1, a1, x :> 1), Told(s1, k1, a1, x :> 1 @@ y :> 2),
    Told(s1, k1, a2, x :> 1), Told(s1, k2, a1, y :> 1) }

MCFlushModes == {"ContainerLimit", "Periodical", "Default"}
=============================================================================
