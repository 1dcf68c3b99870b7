---------------------------- MODULE LimitCheckMC ----------------------------
(* Instances of LimitCheck for TLC. *)
EXTENDS LimitCheck

MCMetrics == {"hits", "orders"}

PartialFunctions(S, T) == UNION {[D -> T] : D \in SUBSET S}

MCRequests == PartialFunctions(MCMetrics, 0 .. 2)

Window(s, e, w) == [start |-> s, end |-> e, window |-> w]

(* A period of its full length, one longer than its name stands for (a     *)
(* month of 31 days) and one without end.                                  *)
FullWindows == {Window(1, 3, 2), Window(0, 3, 2), Window(0, 9, Eternity)}

(* A month of 28 days: shorter than the 30 days of Period::Month.          *)
ShortWindows == {Window(1, 3, 4)}

UsagesOver(windows, currents) ==
  {[start |-> w.start, end |-> w.end, window |-> w.window,
    max |-> x, current |-> c] : w \in windows, x \in 1 .. 2, c \in currents}

MCApps ==
  PartialFunctions(MCMetrics, UsagesOver(FullWindows \cup ShortWindows, 0 .. 1))

(* 3scale has counted more hits than the limit allows: every gateway       *)
(* reports what it has let pass.                                           *)
OvershotApps == PartialFunctions({"hits"}, UsagesOver({Window(1, 3, 2)}, 0 .. 3))

Flat == [p \in {} |-> {}]
HitsOverOrders == [p \in {"hits"} |-> {"orders"}]

NoHierarchy   == {Flat}
SomeHierarchy == {Flat, HitsOverOrders}
=============================================================================
