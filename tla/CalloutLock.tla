----------------------------- MODULE CalloutLock -----------------------------
(***************************************************************************)
(* What the callout lock promises, without its shared entries, CAS numbers *)
(* and queues: per cache key one request at a time owns the lock, the      *)
(* others may wait for it, and a waiter is called at most once, only by    *)
(* the owner of the key it waits for, after that owner has handled its     *)
(* answer, and with that owner's outcome.                                  *)
(*                                                                         *)
(* It promises no more than the code keeps: an owner may leave without     *)
(* freeing the lock (Abandon), and may free it while requests still wait.  *)
(* It is a safety specification.                                           *)
(***************************************************************************)
CONSTANTS
  Contexts,   \* HTTP requests
  Keys,       \* cache keys
  Outcomes    \* what a waiter can be told

VARIABLES
  taken,     \* the keys whose lock is held
  phase,     \* context -> its part in the protocol
  under,     \* context -> the key of the lock it owns or waits for
  outcome    \* context -> what an answered owner tells, or a waiter was told

vars == <<taken, phase, under, outcome>>

NoKey     == "none"
NoOutcome == "none"

Init ==
  /\ taken = {}
  /\ phase = [c \in Contexts |-> "out"]
  /\ under = [c \in Contexts |-> NoKey]
  /\ outcome = [c \in Contexts |-> NoOutcome]

Become(c, p) == phase' = [phase EXCEPT ![c] = p]

(* A request that never needs the lock: its application is cached.         *)
Pass(c) ==
  /\ phase[c] = "out"
  /\ Become(c, "left")
  /\ UNCHANGED <<taken, under, outcome>>

Acquire(c, k) ==
  /\ phase[c] = "out" /\ k \notin taken
  /\ taken' = taken \cup {k}
  /\ Become(c, "owner")
  /\ under' = [under EXCEPT ![c] = k]
  /\ UNCHANGED outcome

Join(c, k) ==
  /\ phase[c] = "out" /\ k \in taken
  /\ Become(c, "waiting")
  /\ under' = [under EXCEPT ![c] = k]
  /\ UNCHANGED <<taken, outcome>>

(* The owner has handled the response of its call. *)
Answer(c, o) ==
  /\ phase[c] = "owner"
  /\ Become(c, "answered")
  /\ outcome' = [outcome EXCEPT ![c] = o]
  /\ UNCHANGED <<taken, under>>

CallWaiter(c, w) ==
  /\ phase[c] = "answered" /\ phase[w] = "waiting" /\ under[w] = under[c]
  /\ Become(w, "called")
  /\ outcome' = [outcome EXCEPT ![w] = outcome[c]]
  /\ UNCHANGED <<taken, under>>

Leave(c) ==
  /\ Become(c, "left")
  /\ under' = [under EXCEPT ![c] = NoKey]
  /\ outcome' = [outcome EXCEPT ![c] = NoOutcome]

Release(c) ==
  /\ phase[c] = "answered"
  /\ taken' = taken \ {under[c]}
  /\ Leave(c)

(* The call cannot be made, its answer is an authorization error, or the   *)
(* owner's VM is trapped: nobody frees this lock any more.                 *)
Abandon(c) ==
  /\ phase[c] = "owner"
  /\ Leave(c)
  /\ UNCHANGED taken

(* A waiter goes on as it was told. *)
Resume(w) ==
  /\ phase[w] = "called"
  /\ Leave(w)
  /\ UNCHANGED taken

Next ==
  \E c \in Contexts :
    \/ Pass(c) \/ Release(c) \/ Abandon(c) \/ Resume(c)
    \/ \E k \in Keys : Acquire(c, k) \/ Join(c, k)
    \/ \E o \in Outcomes : Answer(c, o)
    \/ \E w \in Contexts : CallWaiter(c, w)

Spec == Init /\ [][Next]_vars
=============================================================================
