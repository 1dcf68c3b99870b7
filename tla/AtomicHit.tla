----------------------------- MODULE AtomicHit -----------------------------
(***************************************************************************)
(* What a cached application promises to the requests that hit it, without *)
(* copies, CAS numbers and retries: the hits left are a counter, and a     *)
(* request is charged by one indivisible step that finds enough of them    *)
(* and takes its own.  Only a request that missed the record and asked     *)
(* 3scale may put a new record in its place as it is charged; and a        *)
(* charged request is reported, or its report fails; others never are.     *)
(*                                                                         *)
(* A request may end uncharged at any time before (refused, failed, given  *)
(* up).  It is a safety specification.                                     *)
(***************************************************************************)
EXTENDS Integers

CONSTANTS
  Contexts,   \* HTTP requests
  Hits        \* context -> the hits it declares

VARIABLES
  record,     \* the application: whether it is cached, its hits left
  phase       \* context -> how far its request is

vars == <<record, phase>>

NoRecord == [present |-> FALSE, left |-> 0]
Records  == [present : {TRUE}, left : Nat]

Init ==
  /\ record = NoRecord
  /\ phase = [c \in Contexts |-> "asks"]

Become(c, p) == phase' = [phase EXCEPT ![c] = p]

(* handle_cache_hit: the verdict, the deduction and the write in one.      *)
Charge(c) ==
  /\ phase[c] = "asks"
  /\ record.present /\ record.left >= Hits[c]
  /\ record' = [present |-> TRUE, left |-> record.left - Hits[c]]
  /\ Become(c, "charged")

(* A miss: no record, so 3scale is asked.                                  *)
Miss(c) ==
  /\ phase[c] = "asks" /\ ~record.present
  /\ Become(c, "calls")
  /\ UNCHANGED record

Fetch(c) ==
  /\ phase[c] = "calls"
  /\ Become(c, "fetched")
  /\ UNCHANGED record

(* The fresh record is stored with the request charged to it.              *)
Renew(c) ==
  /\ phase[c] = "fetched"
  /\ record' \in Records
  /\ Become(c, "charged")

(* The message to the singleton, which may fail.                           *)
Report(c) ==
  /\ phase[c] = "charged"
  /\ Become(c, "reported") \/ Become(c, "unreported")
  /\ UNCHANGED record

End(c) ==
  /\ phase[c] \in {"asks", "calls", "fetched"}
  /\ Become(c, "ended")
  /\ UNCHANGED record

(* The singleton refreshes the record, or removes it.                      *)
Replace ==
  /\ record' \in Records \cup {NoRecord}
  /\ UNCHANGED phase

Next ==
  \/ \E c \in Contexts :
       Charge(c) \/ Miss(c) \/ Fetch(c) \/ Renew(c) \/ Report(c) \/ End(c)
  \/ Replace

Spec == Init /\ [][Next]_vars
=============================================================================
