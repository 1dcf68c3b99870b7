------------------------- MODULE UniqueCalloutProofs -------------------------
(***************************************************************************)
(* Proofs about UniqueCallout, for any number of threads, requests and     *)
(* keys: its type invariant, and that owners exclude each other and hold   *)
(* their lock.                                                             *)
(***************************************************************************)
EXTENDS UniqueCallout, TLAPS

USE KeysAssumption, ThreadOfAssumption, AppKeyOfAssumption, FailureModeAssumption

(* The CAS operators of the store keep numbers, never yield 1 and grow.    *)
LEMMA NextCasGrows ==
  ASSUME NEW n \in Nat, n # 1
  PROVE  NextCas(n) \in Nat /\ NextCas(n) > n /\ NextCas(n) # 1
BY DEF NextCas, NoEntry, FirstCas

(* A write makes a CAS of every CAS.                                       *)
LEMMA NextCasType == \A n \in Nat : NextCas(n) \in Nat
BY DEF NextCas, NoEntry, FirstCas

(* A write of a lock entry keeps the type of the lock table.               *)
LEMMA LockWriteType ==
  ASSUME TypeOK, NEW k \in Keys, NEW h \in BOOLEAN, NEW w \in Seq(Contexts),
         lock' = [lock EXCEPT ![k] =
                    [held |-> h, waiters |-> w, cas |-> NextCas(@.cas)]]
  PROVE  lock' \in [Keys -> LockEntry]
<1> DEFINE e == [held |-> h, waiters |-> w, cas |-> NextCas(lock[k].cas)]
<1>1. lock \in [Keys -> LockEntry] /\ lock[k].cas \in Nat
  BY DEF TypeOK, LockEntry
<1>2. NextCas(lock[k].cas) \in Nat
  BY <1>1, NextCasType
<1>3. e \in LockEntry
  BY <1>2 DEF LockEntry
<1>4. lock' = [lock EXCEPT ![k] = e]
  OBVIOUS
<1> QED
  BY ONLY <1>1, <1>3, <1>4, k \in Keys

(* The initial state has the types of TypeOK.                              *)
LEMMA InitTypeOK == Init => TypeOK
BY DEF Init, TypeOK, NoLock, NoEntry, LockEntry, Keys, PCs, Running, Actions,
       Verdicts

(* Settling a request keeps the types of its pc and its verdict.           *)
LEMMA SettleType ==
  ASSUME TypeOK, NEW c \in Contexts, NEW v \in Verdicts, Settle(c, v)
  PROVE  pc' \in [Contexts -> PCs] /\ verdict' \in [Contexts -> Verdicts]
BY DEF TypeOK, Settle, Goto, PCs, Running

(* What the failure mode and a cache hit make of a request are verdicts.  *)
LEMMA VerdictTypes ==
  FailureVerdict \in Verdicts /\ HitVerdicts \subseteq Verdicts
BY DEF FailureVerdict, HitVerdicts, Verdicts

(* So does a cache hit.                                                    *)
LEMMA HitType ==
  ASSUME TypeOK, NEW c \in Contexts, Hit(c)
  PROVE  pc' \in [Contexts -> PCs] /\ verdict' \in [Contexts -> Verdicts]
<1>1. CASE \E v \in HitVerdicts : Settle(c, v)
  BY <1>1, SettleType, VerdictTypes
<1>2. CASE Goto(c, "trapped") /\ UNCHANGED verdict
  BY <1>2 DEF Goto, TypeOK, PCs
<1> QED
  BY <1>1, <1>2 DEF Hit

(* Every step of the system keeps the types.                               *)
LEMMA NextTypeOK == TypeOK /\ [Next]_vars => TypeOK'
<1> SUFFICES ASSUME TypeOK, [Next]_vars PROVE TypeOK'
  OBVIOUS
<1>a. ASSUME NEW c \in Contexts, NEW label \in PCs, Goto(c, label)
      PROVE  pc' \in [Contexts -> PCs]
  BY <1>a DEF TypeOK, Goto
<1>1. ASSUME NEW c \in Contexts, OnRequest(c) PROVE TypeOK'
  <2>1. pc' \in [Contexts -> PCs]
    BY <1>1, <1>a DEF OnRequest, PCs, Running
  <2>2. key' \in [Contexts -> Keys]
    BY <1>1 DEF OnRequest, TypeOK, Keys
  <2> QED
    BY <1>1, <2>1, <2>2 DEF OnRequest, TypeOK, shared
<1>2. ASSUME NEW c \in Contexts, Lookup(c) PROVE TypeOK'
  <2>1. pc' \in [Contexts -> PCs] /\ verdict' \in [Contexts -> Verdicts]
    BY <1>2, <1>a, HitType DEF Lookup, PCs, Running, TypeOK
  <2> QED
    BY <1>2, <2>1 DEF Lookup, TypeOK, shared
<1>3. ASSUME NEW c \in Contexts, CameFirst(c) PROVE TypeOK'
  <2>1. pc' \in [Contexts -> PCs] /\ verdict' \in [Contexts -> Verdicts]
    BY <1>3, <1>a, HitType, SettleType, VerdictTypes
    DEF CameFirst, PCs, Running, TypeOK
  <2>2. key' \in [Contexts -> Keys]
    BY <1>3 DEF CameFirst, TypeOK, Keys
  <2> QED
    BY <1>3, <2>1, <2>2 DEF CameFirst, TypeOK, shared
<1>4. ASSUME NEW c \in Contexts, LockGet(c) PROVE TypeOK'
  <2>1. pc' \in [Contexts -> PCs]
    BY <1>4, <1>a DEF LockGet, PCs, Running
  <2>2. seen' \in [Contexts -> LockEntry]
    BY <1>4 DEF LockGet, TypeOK
  <2> QED
    BY <1>4, <2>1, <2>2 DEF LockGet, TypeOK, shared
<1>5. ASSUME NEW c \in Contexts, Acquire(c) PROVE TypeOK'
  <2>1. pc' \in [Contexts -> PCs]
    BY <1>5, <1>a DEF Acquire, PCs, Running
  <2>2. lock' \in [Keys -> LockEntry]
    <3>1. key[c] \in Keys /\ <<>> \in Seq(Contexts)
      BY DEF TypeOK
    <3> QED
      BY <1>5, <3>1, LockWriteType DEF Acquire, TypeOK
  <2> QED
    BY <1>5, <2>1, <2>2 DEF Acquire, TypeOK, local
<1>6. ASSUME NEW c \in Contexts, JoinWaitlist(c) PROVE TypeOK'
  <2>1. pc' \in [Contexts -> PCs]
    BY <1>6, <1>a DEF JoinWaitlist, PCs, Running
  <2>2. lock' \in [Keys -> LockEntry]
    <3>1. key[c] \in Keys /\ Append(seen[c].waiters, c) \in Seq(Contexts)
      BY DEF TypeOK, LockEntry
    <3> QED
      BY <1>6, <3>1, LockWriteType DEF JoinWaitlist, PushWaiter, TypeOK
  <2>3. met' \in [Contexts -> BOOLEAN]
    BY <1>6 DEF JoinWaitlist, TypeOK
  <2> QED
    BY <1>6, <2>1, <2>2, <2>3 DEF JoinWaitlist, TypeOK, local
<1>20. ASSUME NEW c \in Contexts, Register(c) PROVE TypeOK'
  <2>1. pc' \in [Contexts -> PCs]
    BY <1>20, <1>a DEF Register, PCs
  <2> QED
    BY <1>20, <2>1 DEF Register, KeepContext, TypeOK, local
<1>7. ASSUME NEW c \in Contexts, Dispatch(c) PROVE TypeOK'
  <2>1. pc' \in [Contexts -> PCs] /\ verdict' \in [Contexts -> Verdicts]
    BY <1>7, <1>a, SettleType, VerdictTypes DEF Dispatch, PCs, TypeOK
  <2> QED
    BY <1>7, <2>1 DEF Dispatch, TypeOK, shared, local
<1>8. ASSUME NEW c \in Contexts, FreshApp(c) PROVE TypeOK'
  <2>1. pc' \in [Contexts -> PCs]
    BY <1>8, <1>a DEF FreshApp, PCs, Running
  <2>2. verdict' \in [Contexts -> Verdicts]
    BY <1>8, VerdictTypes DEF FreshApp, TypeOK, Verdicts
  <2>3. /\ app' \in [AppKeys -> {"absent", "cached", "erased"}]
        /\ action' \in [Contexts -> Actions]
    BY <1>8 DEF FreshApp, TypeOK, Actions
  <2> QED
    BY <1>8, <2>1, <2>2, <2>3 DEF FreshApp, TypeOK
<1>9. ASSUME NEW c \in Contexts, FreeGet(c) PROVE TypeOK'
  <2>1. pc' \in [Contexts -> PCs]
    BY <1>9, <1>a DEF FreeGet, PCs, Running
  <2>2. notify' \in [Contexts -> Seq(Contexts)]
    BY <1>9 DEF FreeGet, TypeOK, LockEntry
  <2> QED
    BY <1>9, <2>1, <2>2 DEF FreeGet, TypeOK, shared
<1>10. ASSUME NEW c \in Contexts, NotifyOne(c) PROVE TypeOK'
  <2>1. Head(notify[c]) \in Contexts /\ Tail(notify[c]) \in Seq(Contexts)
    BY <1>10 DEF NotifyOne, TypeOK
  <2>2. [kind |-> action[c], ctx |-> Head(notify[c])] \in Message
    BY <2>1 DEF TypeOK, Message
  <2>3. mq' \in [Threads -> Seq(Message)]
    BY <1>10, <2>1, <2>2 DEF NotifyOne, TypeOK
  <2>4. notify' \in [Contexts -> Seq(Contexts)]
    BY <1>10, <2>1 DEF NotifyOne, TypeOK
  <2> QED
    BY <1>10, <2>3, <2>4 DEF NotifyOne, TypeOK
<1>11. ASSUME NEW c \in Contexts, EraseLock(c) PROVE TypeOK'
  <2>1. pc' \in [Contexts -> PCs]
    BY <1>11, <1>a DEF EraseLock, PCs
  <2>2. lock' \in [Keys -> LockEntry]
    <3>1. prev[c] \in Keys /\ <<>> \in Seq(Contexts)
      BY DEF TypeOK
    <3> QED
      BY <1>11, <3>1, LockWriteType DEF EraseLock
  <2> QED
    BY <1>11, <2>1, <2>2 DEF EraseLock, TypeOK, local
<1>12. ASSUME NEW c \in Contexts, ResponseStatus(c) PROVE TypeOK'
  <2>1. pc' \in [Contexts -> PCs]
    BY <1>12, <1>a DEF ResponseStatus, PCs, Running
  <2>2. /\ key' \in [Contexts -> Keys] /\ prev' \in [Contexts -> Keys]
        /\ mapped' \in [UserKeys -> BOOLEAN]
    BY <1>12 DEF ResponseStatus, SaveKey, TypeOK, Keys
  <2> QED
    BY <1>12, <2>1, <2>2 DEF ResponseStatus, SaveKey, TypeOK
<1>13. ASSUME NEW c \in Contexts, ResponseRefused(c) PROVE TypeOK'
  <2>1. pc' \in [Contexts -> PCs]
    BY <1>13, <1>a DEF ResponseRefused, PCs, Running
  <2>2. verdict' \in [Contexts -> Verdicts] /\ prev' \in [Contexts -> Keys]
    BY <1>13, VerdictTypes DEF ResponseRefused, SaveKey, TypeOK, Verdicts
  <2> QED
    BY <1>13, <2>1, <2>2 DEF ResponseRefused, SaveKey, TypeOK, shared
<1>14. ASSUME NEW c \in Contexts, ResponseError(c) PROVE TypeOK'
  <2>1. pc' \in [Contexts -> PCs] /\ verdict' \in [Contexts -> Verdicts]
    BY <1>14, SettleType, VerdictTypes DEF ResponseError
  <2>2. prev' \in [Contexts -> Keys]
    BY <1>14 DEF ResponseError, SaveKey, TypeOK
  <2> QED
    BY <1>14, <2>1, <2>2 DEF ResponseError, SaveKey, TypeOK, shared
<1>19. ASSUME NEW c \in Contexts, ResponsePanics(c) PROVE TypeOK'
  <2>1. pc' \in [Contexts -> PCs]
    BY <1>19, <1>a DEF ResponsePanics, PCs
  <2>2. prev' \in [Contexts -> Keys]
    BY <1>19 DEF ResponsePanics, SaveKey, TypeOK
  <2> QED
    BY <1>19, <2>1, <2>2 DEF ResponsePanics, SaveKey, TypeOK, shared
<1>15. ASSUME NEW c \in Contexts, Disconnect(c) PROVE TypeOK'
  <2>1. pc' \in [Contexts -> PCs]
    BY <1>15, <1>a DEF Disconnect, PCs
  <2> QED
    BY <1>15, <2>1 DEF Disconnect, TypeOK, shared, local
<1>16. ASSUME NEW t \in Threads, OnQueueReady(t) PROVE TypeOK'
  <2> DEFINE m == Head(mq[t])
  <2>1. m \in Message /\ Tail(mq[t]) \in Seq(Message) /\ m.ctx \in Contexts
    <3>1. mq[t] \in Seq(Message) /\ mq[t] # <<>>
      BY <1>16 DEF OnQueueReady, TypeOK
    <3>2. m \in Message /\ Tail(mq[t]) \in Seq(Message)
      BY <3>1
    <3> QED
      BY <3>2 DEF Message
  <2>2. mq' \in [Threads -> Seq(Message)] /\ waiting' \subseteq Contexts
    BY <1>16, <2>1 DEF OnQueueReady, TypeOK
  <2>3. CASE UNCHANGED <<pc, key, verdict>>
    BY <1>16, <2>2, <2>3 DEF OnQueueReady, TypeOK
  <2>4. CASE Settle(m.ctx, FailureVerdict) /\ UNCHANGED key
    <3>1. pc' \in [Contexts -> PCs] /\ verdict' \in [Contexts -> Verdicts]
      BY <2>4, <2>1, SettleType, VerdictTypes
    <3> QED
      BY <1>16, <2>2, <2>4, <3>1 DEF OnQueueReady, TypeOK
  <2>5. CASE ResumeOnHit(m.ctx)
    <3>1. pc' \in [Contexts -> PCs] /\ verdict' \in [Contexts -> Verdicts]
      BY <2>5, <2>1, <1>a, HitType DEF ResumeOnHit, PCs, TypeOK
    <3>2. key' \in [Contexts -> Keys]
      BY <2>5, <2>1 DEF ResumeOnHit, TypeOK, AppKeyFor, Keys
    <3> QED
      BY <1>16, <2>2, <3>1, <3>2 DEF OnQueueReady, TypeOK
  <2> QED
    BY <1>16, <2>3, <2>4, <2>5 DEF OnQueueReady
<1>17. ASSUME NEW a \in AppKeys, SingletonWrites(a) PROVE TypeOK'
  BY <1>17 DEF SingletonWrites, TypeOK, local
<1>18. CASE UNCHANGED vars
  BY <1>18 DEF vars, TypeOK
<1> QED
  BY <1>1, <1>2, <1>3, <1>4, <1>5, <1>6, <1>7, <1>8, <1>9, <1>10, <1>11, <1>12,
     <1>13, <1>14, <1>15, <1>16, <1>17, <1>18, <1>19, <1>20
  DEF Next, CallbackStep, Response

(* Every variable of the filter's callout protocol always has its type.    *)
THEOREM Typing == Spec => []TypeOK
BY InitTypeOK, NextTypeOK, PTL DEF Spec
-----------------------------------------------------------------------------
(* The inductive invariant behind mutual exclusion.  CAS 1 is never stored *)
(* and an absent entry is not held, so only the first writer can write     *)
(* with CAS 1; a context about to write has read a version that is not     *)
(* newer than the stored one, and the same version means the same value.   *)

CasShape ==
  \A k \in Keys : lock[k].cas # 1 /\ (lock[k].cas = NoEntry => ~lock[k].held)

SnapshotNotNewer ==
  \A c \in Contexts :
    pc[c] = "set" =>
      /\ seen[c].cas # 1
      /\ seen[c].cas = NoEntry => ~seen[c].held
      /\ seen[c].cas <= lock[key[c]].cas

(* A context whose write would be accepted has read what it overwrites.    *)
CasIdentifiesValue ==
  \A c \in Contexts :
    pc[c] = "set" /\ seen[c].cas # NoEntry /\ seen[c].cas = lock[key[c]].cas
      => seen[c] = lock[key[c]]

LockInv ==
  /\ CasShape
  /\ SnapshotNotNewer
  /\ CasIdentifiesValue
  /\ OwnerHoldsLock
  /\ MutualExclusion

(* Nobody owns a lock or is about to write one in the initial state.       *)
LEMMA InitLockInv == Init => LockInv
BY DEF Init, LockInv, CasShape, SnapshotNotNewer, CasIdentifiesValue,
       OwnerHoldsLock, MutualExclusion, NoLock, NoEntry, Owning

(* A step that writes no lock, makes no owner, leaves every owner's key    *)
(* alone and starts no write keeps the invariant.                          *)
LEMMA QuietStep ==
  ASSUME LockInv, UNCHANGED lock,
         \A d \in Contexts : pc'[d] \in Owning =>
            pc[d] \in Owning /\ LockKeyOf(d)' = LockKeyOf(d),
         \A d \in Contexts : pc'[d] = "set" =>
            pc[d] = "set" /\ seen'[d] = seen[d] /\ key'[d] = key[d]
  PROVE  LockInv'
<1>1. CasShape' /\ SnapshotNotNewer' /\ CasIdentifiesValue'
  BY DEF LockInv, CasShape, SnapshotNotNewer, CasIdentifiesValue
<1>2. OwnerHoldsLock' /\ MutualExclusion'
  BY DEF LockInv, OwnerHoldsLock, MutualExclusion
<1> QED
  BY <1>1, <1>2 DEF LockInv

(* A step of one context that leaves lock, seen, key and prev alone and    *)
(* moves the context to a place where it owns nothing new.                 *)
LEMMA QuietMove ==
  ASSUME TypeOK, LockInv, NEW c \in Contexts, NEW label,
         Goto(c, label), UNCHANGED <<lock, seen, key, prev>>,
         label # "set",
         label \in Owning => /\ pc[c] \in Owning
                             /\ label \in {"fresh", "free", "notify"}
                                  <=> pc[c] \in {"fresh", "free", "notify"}
  PROVE  LockInv'
<1>1. pc'[c] = label /\ \A d \in Contexts \ {c} : pc'[d] = pc[d]
  BY DEF Goto, TypeOK
<1> QED
  BY <1>1, QuietStep DEF LockKeyOf

(* A write by an accepted set_shared_data: other contexts that have read   *)
(* the entry are now behind it.                                            *)
LEMMA WriteKeepsSnapshots ==
  ASSUME TypeOK, LockInv, NEW k \in Keys, NEW e \in LockEntry,
         lock' = [lock EXCEPT ![k] = e],
         e.cas = NextCas(lock[k].cas),
         \A d \in Contexts : pc'[d] = "set" =>
            pc[d] = "set" /\ seen'[d] = seen[d] /\ key'[d] = key[d]
  PROVE  CasShape' /\ SnapshotNotNewer' /\ CasIdentifiesValue'
<1>1. e.cas \in Nat /\ e.cas > lock[k].cas /\ e.cas # 1 /\ lock[k].cas \in Nat
  BY NextCasGrows DEF TypeOK, LockInv, CasShape, LockEntry
<1>2. lock'[k] = e /\ \A j \in Keys \ {k} : lock'[j] = lock[j]
  BY DEF TypeOK
<1>3. CasShape'
  BY <1>1, <1>2 DEF CasShape, LockInv, NoEntry
<1>4. \A d \in Contexts : /\ seen[d].cas \in Nat
                          /\ key[d] \in Keys
                          /\ lock[key[d]].cas \in Nat
  BY DEF TypeOK, LockEntry
<1>5. SnapshotNotNewer'
  BY <1>1, <1>2, <1>4 DEF SnapshotNotNewer, LockInv
<1>6. CasIdentifiesValue'
  <2> SUFFICES ASSUME NEW d \in Contexts, pc'[d] = "set",
                      seen[d].cas # NoEntry, seen[d].cas = lock'[key[d]].cas
               PROVE  seen[d] = lock'[key[d]]
    BY DEF CasIdentifiesValue
  <2>1. key[d] # k
    BY <1>1, <1>2, <1>4 DEF LockInv, SnapshotNotNewer
  <2> QED
    BY <2>1, <1>2, <1>4 DEF LockInv, CasIdentifiesValue
<1> QED
  BY <1>3, <1>5, <1>6

(* Who acquires a lock wrote over an entry that was not held.              *)
LEMMA AcquiredWasFree ==
  ASSUME TypeOK, LockInv, NEW c \in Contexts, pc[c] = "set",
         SetAccepted(c), ~seen[c].held
  PROVE  ~lock[key[c]].held
<1>1. key[c] \in Keys /\ seen[c].cas \in Nat
  BY DEF TypeOK, LockEntry
<1> QED
  BY <1>1 DEF SetAccepted, Accepts, CasToSend, LockInv, CasShape, NoEntry,
     AnyCas, CasIdentifiesValue

(* Every step of the system keeps the invariant.                           *)
LEMMA NextLockInv == TypeOK /\ LockInv /\ [Next]_vars => LockInv'
<1> SUFFICES ASSUME TypeOK, LockInv, [Next]_vars PROVE LockInv'
  OBVIOUS
<1>0. ASSUME NEW c \in Contexts, NEW v, Settle(c, v),
             UNCHANGED <<lock, seen, key, prev>>
      PROVE  LockInv'
  BY <1>0, QuietMove DEF Settle, Owning
<1>a. ASSUME NEW c \in Contexts, Hit(c), UNCHANGED <<lock, seen, key, prev>>
      PROVE  LockInv'
  <2>1. CASE \E v \in HitVerdicts : Settle(c, v)
    BY <1>a, <2>1, <1>0
  <2>2. CASE Goto(c, "trapped")
    BY <1>a, <2>2, QuietMove DEF Owning
  <2> QED
    BY <1>a, <2>1, <2>2 DEF Hit
<1>1. ASSUME NEW c \in Contexts, OnRequest(c) PROVE LockInv'
  <2>1. pc'[c] \in {"get", "lookup"} /\ \A d \in Contexts \ {c} : pc'[d] = pc[d]
    BY <1>1 DEF OnRequest, Goto, TypeOK
  <2>2. \A d \in Contexts \ {c} : key'[d] = key[d]
    BY <1>1 DEF OnRequest, TypeOK
  <2> QED
    BY <1>1, <2>1, <2>2, QuietStep DEF OnRequest, Owning, LockKeyOf, shared
<1>2. ASSUME NEW c \in Contexts, Lookup(c) PROVE LockInv'
  <2>1. UNCHANGED <<lock, seen, key, prev>>
    BY <1>2 DEF Lookup, shared
  <2> QED
    BY <1>2, <2>1, <1>a, QuietMove DEF Lookup, Owning
<1>3. ASSUME NEW c \in Contexts, CameFirst(c) PROVE LockInv'
  <2>1. UNCHANGED <<lock, seen, prev>>
    BY <1>3 DEF CameFirst, shared
  <2>2. CASE UNCHANGED key
    BY <1>3, <2>1, <2>2, <1>a, <1>0, QuietMove DEF CameFirst, Owning
  <2>3. CASE /\ key' = [key EXCEPT ![c] = AppKeyOf[key[c]]]
             /\ Goto(c, "lookup")
    <3>1. \A d \in Contexts \ {c} : key'[d] = key[d] /\ pc'[d] = pc[d]
      BY <2>3 DEF Goto, TypeOK
    <3>2. pc'[c] = "lookup"
      BY <2>3 DEF Goto, TypeOK
    <3> QED
      BY <2>1, <3>1, <3>2, QuietStep DEF Owning, LockKeyOf
  <2> QED
    BY <1>3, <2>2, <2>3 DEF CameFirst
<1>4. ASSUME NEW c \in Contexts, LockGet(c) PROVE LockInv'
  <2>1. /\ pc'[c] \in {"set", "came_first"} /\ seen'[c] = lock[key[c]]
        /\ \A d \in Contexts \ {c} : pc'[d] = pc[d] /\ seen'[d] = seen[d]
        /\ UNCHANGED <<lock, key, prev>>
    BY <1>4 DEF LockGet, Goto, TypeOK, shared
  <2>2. lock[key[c]].cas \in Nat /\ key[c] \in Keys
    BY DEF TypeOK, LockEntry
  <2>3. CasShape' /\ CasIdentifiesValue'
    BY <2>1 DEF LockInv, CasShape, CasIdentifiesValue
  <2>4. SnapshotNotNewer'
    BY <2>1, <2>2 DEF LockInv, CasShape, SnapshotNotNewer
  <2>5. OwnerHoldsLock' /\ MutualExclusion'
    BY <2>1 DEF LockInv, OwnerHoldsLock, MutualExclusion, LockKeyOf, Owning
  <2> QED
    BY <2>3, <2>4, <2>5 DEF LockInv
<1>5. ASSUME NEW c \in Contexts, Acquire(c) PROVE LockInv'
  <2>1. UNCHANGED <<seen, key, prev>>
    BY <1>5 DEF Acquire, local
  <2>2. CASE Goto(c, "get") /\ UNCHANGED lock
    BY <2>1, <2>2, QuietMove DEF Owning
  <2>3. CASE SetAccepted(c) /\ Goto(c, "dispatch")
    <3> DEFINE k == key[c]
               e == [held |-> TRUE, waiters |-> <<>>,
                     cas |-> NextCas(lock[k].cas)]
    <3>1. lock' = [lock EXCEPT ![k] = e] /\ k \in Keys
      BY <1>5, <2>3 DEF Acquire, TypeOK, Goto
    <3>2. e \in LockEntry
      BY <3>1, NextCasType DEF TypeOK, LockEntry
    <3>3. pc'[c] = "dispatch" /\ \A d \in Contexts \ {c} : pc'[d] = pc[d]
      BY <2>3 DEF Goto, TypeOK
    <3>4. CasShape' /\ SnapshotNotNewer' /\ CasIdentifiesValue'
      BY <2>1, <3>1, <3>2, <3>3, WriteKeepsSnapshots
    <3>5. ~lock[k].held
      BY <1>5, <2>3, AcquiredWasFree DEF Acquire
    <3>6. \A d \in Contexts : pc[d] \in Owning => LockKeyOf(d) # k
      BY <3>5 DEF LockInv, OwnerHoldsLock
    <3>7. LockKeyOf(c)' = k /\ \A d \in Contexts \ {c} : LockKeyOf(d)' = LockKeyOf(d)
      BY <2>1, <3>3 DEF LockKeyOf
    <3>8. /\ lock'[k].held /\ \A j \in Keys \ {k} : lock'[j] = lock[j]
          /\ \A d \in Contexts : LockKeyOf(d) \in Keys
      BY <3>1 DEF TypeOK, LockKeyOf
    <3>9. OwnerHoldsLock'
      BY <3>3, <3>6, <3>7, <3>8 DEF LockInv, OwnerHoldsLock
    <3>10. MutualExclusion'
      BY <3>3, <3>6, <3>7 DEF LockInv, MutualExclusion
    <3> QED
      BY <3>4, <3>9, <3>10 DEF LockInv
  <2> QED
    BY <1>5, <2>2, <2>3 DEF Acquire
<1>6. ASSUME NEW c \in Contexts, JoinWaitlist(c) PROVE LockInv'
  <2>1. UNCHANGED <<seen, key, prev>>
    BY <1>6 DEF JoinWaitlist, local
  <2>2. CASE Goto(c, "get") /\ UNCHANGED lock
    BY <2>1, <2>2, QuietMove DEF Owning
  <2>3. CASE SetAccepted(c) /\ Goto(c, "register")
    <3> DEFINE k == key[c]
               e == [held |-> TRUE, waiters |-> Append(seen[c].waiters, c),
                     cas |-> NextCas(lock[k].cas)]
    <3>1. lock' = [lock EXCEPT ![k] = e] /\ k \in Keys
      BY <1>6, <2>3 DEF JoinWaitlist, PushWaiter, TypeOK, Goto
    <3>2. e \in LockEntry
      <4>1. Append(seen[c].waiters, c) \in Seq(Contexts)
        BY DEF TypeOK, LockEntry
      <4> QED
        BY <3>1, <4>1, NextCasType DEF TypeOK, LockEntry
    <3>3. pc'[c] = "register" /\ \A d \in Contexts \ {c} : pc'[d] = pc[d]
      BY <2>3 DEF Goto, TypeOK
    <3>4. CasShape' /\ SnapshotNotNewer' /\ CasIdentifiesValue'
      BY <2>1, <3>1, <3>2, <3>3, WriteKeepsSnapshots
    <3>5. /\ lock'[k].held /\ \A j \in Keys \ {k} : lock'[j] = lock[j]
          /\ \A d \in Contexts : LockKeyOf(d) \in Keys
      BY <3>1 DEF TypeOK, LockKeyOf
    <3>6. \A d \in Contexts : pc'[d] \in Owning =>
             pc[d] \in Owning /\ LockKeyOf(d)' = LockKeyOf(d)
      BY <2>1, <3>3 DEF LockKeyOf, Owning
    <3>7. OwnerHoldsLock' /\ MutualExclusion'
      BY <3>5, <3>6 DEF LockInv, OwnerHoldsLock, MutualExclusion
    <3> QED
      BY <3>4, <3>7 DEF LockInv
  <2> QED
    BY <1>6, <2>2, <2>3 DEF JoinWaitlist
<1>20. ASSUME NEW c \in Contexts, Register(c) PROVE LockInv'
  BY <1>20, QuietMove DEF Register, Owning, local
<1>7. ASSUME NEW c \in Contexts, Dispatch(c) PROVE LockInv'
  <2>1. UNCHANGED <<lock, seen, key, prev>> /\ pc[c] = "dispatch"
    BY <1>7 DEF Dispatch, shared, local
  <2> QED
    BY <1>7, <2>1, <1>0, QuietMove DEF Dispatch, Owning
<1>8. ASSUME NEW c \in Contexts, FreshApp(c) PROVE LockInv'
  <2>1. /\ Goto(c, "free") \/ Goto(c, "trapped")
        /\ pc[c] = "fresh" /\ UNCHANGED <<lock, seen, key, prev>>
    BY <1>8 DEF FreshApp
  <2> QED
    BY <2>1, QuietMove DEF Owning
<1>9. ASSUME NEW c \in Contexts, FreeGet(c) PROVE LockInv'
  <2>1. UNCHANGED <<lock, seen, key, prev>> /\ pc[c] = "free"
    BY <1>9 DEF FreeGet, shared
  <2> QED
    BY <1>9, <2>1, QuietMove DEF FreeGet, Owning
<1>10. ASSUME NEW c \in Contexts, NotifyOne(c) PROVE LockInv'
  BY <1>10, QuietStep DEF NotifyOne, LockKeyOf
<1>11. ASSUME NEW c \in Contexts, EraseLock(c) PROVE LockInv'
  <2> DEFINE k == prev[c]
             e == [held |-> FALSE, waiters |-> <<>>,
                   cas |-> NextCas(lock[k].cas)]
  <2>1. UNCHANGED <<seen, key, prev>> /\ pc[c] = "notify" /\ LockKeyOf(c) = k
    BY <1>11 DEF EraseLock, local, LockKeyOf
  <2>2. lock' = [lock EXCEPT ![k] = e] /\ k \in Keys
    BY <1>11 DEF EraseLock, TypeOK
  <2>3. e \in LockEntry
    BY <2>2, NextCasType DEF TypeOK, LockEntry
  <2>4. pc'[c] = "done" /\ \A d \in Contexts \ {c} : pc'[d] = pc[d]
    BY <1>11 DEF EraseLock, Goto, TypeOK
  <2>5. CasShape' /\ SnapshotNotNewer' /\ CasIdentifiesValue'
    BY <2>1, <2>2, <2>3, <2>4, WriteKeepsSnapshots
  <2>6. \A d \in Contexts : pc'[d] \in Owning =>
           pc[d] \in Owning /\ d # c /\ LockKeyOf(d)' = LockKeyOf(d)
    BY <2>1, <2>4 DEF LockKeyOf, Owning
  <2>7. \A d \in Contexts : pc'[d] \in Owning => LockKeyOf(d) # k
    BY <2>1, <2>6 DEF LockInv, MutualExclusion, Owning
  <2>8. OwnerHoldsLock'
    <3>1. /\ \A j \in Keys \ {k} : lock'[j] = lock[j]
          /\ \A d \in Contexts : LockKeyOf(d) \in Keys
      BY <2>2 DEF TypeOK, LockKeyOf
    <3> QED
      BY <3>1, <2>6, <2>7 DEF LockInv, OwnerHoldsLock
  <2>9. MutualExclusion'
    BY <2>6 DEF LockInv, MutualExclusion
  <2> QED
    BY <2>5, <2>8, <2>9 DEF LockInv
<1>12. ASSUME NEW c \in Contexts, ResponseStatus(c) PROVE LockInv'
  <2>1. /\ pc[c] = "callout" /\ pc'[c] = "fresh" /\ prev'[c] = key[c]
        /\ \A d \in Contexts \ {c} : pc'[d] = pc[d] /\ prev'[d] = prev[d]
    BY <1>12 DEF ResponseStatus, SaveKey, Goto, TypeOK
  <2>2. \A d \in Contexts \ {c} : key'[d] = key[d]
    BY <1>12 DEF ResponseStatus, SaveKey, TypeOK
  <2> QED
    BY <1>12, <2>1, <2>2, QuietStep DEF ResponseStatus, LockKeyOf, Owning
<1>13. ASSUME NEW c \in Contexts, ResponseRefused(c) PROVE LockInv'
  <2>1. /\ pc[c] = "callout" /\ pc'[c] = "free" /\ prev'[c] = key[c]
        /\ \A d \in Contexts \ {c} : pc'[d] = pc[d] /\ prev'[d] = prev[d]
    BY <1>13 DEF ResponseRefused, SaveKey, Goto, TypeOK
  <2> QED
    BY <1>13, <2>1, QuietStep DEF ResponseRefused, LockKeyOf, Owning, shared
<1>14. ASSUME NEW c \in Contexts, ResponseError(c) PROVE LockInv'
  <2>1. /\ pc'[c] = "done"
        /\ \A d \in Contexts \ {c} : pc'[d] = pc[d] /\ prev'[d] = prev[d]
    BY <1>14 DEF ResponseError, SaveKey, Settle, Goto, TypeOK
  <2> QED
    BY <1>14, <2>1, QuietStep DEF ResponseError, LockKeyOf, Owning, shared
<1>19. ASSUME NEW c \in Contexts, ResponsePanics(c) PROVE LockInv'
  <2>1. /\ pc'[c] = "trapped"
        /\ \A d \in Contexts \ {c} : pc'[d] = pc[d] /\ prev'[d] = prev[d]
    BY <1>19 DEF ResponsePanics, SaveKey, Goto, TypeOK
  <2> QED
    BY <1>19, <2>1, QuietStep DEF ResponsePanics, LockKeyOf, Owning, shared
<1>15. ASSUME NEW c \in Contexts, Disconnect(c) PROVE LockInv'
  BY <1>15, QuietMove DEF Disconnect, Owning, shared, local
<1>16. ASSUME NEW t \in Threads, OnQueueReady(t) PROVE LockInv'
  <2> DEFINE c == Head(mq[t]).ctx
  <2>1. c \in Contexts
    <3>1. mq[t] \in Seq(Message) /\ mq[t] # <<>>
      BY <1>16 DEF OnQueueReady, TypeOK
    <3>2. Head(mq[t]) \in Message
      BY <3>1
    <3> QED
      BY <3>2 DEF Message
  <2>2. UNCHANGED <<lock, seen, prev>>
    BY <1>16 DEF OnQueueReady
  <2>3. CASE UNCHANGED <<pc, key>>
    BY <2>2, <2>3, QuietStep DEF LockKeyOf
  <2>4. CASE Settle(c, FailureVerdict) /\ UNCHANGED key
    BY <2>1, <2>2, <2>4, <1>0
  <2>5. CASE ResumeOnHit(c)
    <3>a. Goto(c, "stranded") \/ Goto(c, "done") \/ Goto(c, "trapped")
      BY <2>5 DEF ResumeOnHit, Hit, Settle
    <3>b. \A d \in Contexts \ {c} : key'[d] = key[d]
      BY <2>1, <2>5 DEF ResumeOnHit, TypeOK
    <3>1. /\ pc'[c] \in {"stranded", "done", "trapped"}
          /\ \A d \in Contexts \ {c} : pc'[d] = pc[d] /\ key'[d] = key[d]
      BY <2>1, <3>a, <3>b DEF Goto, TypeOK
    <3> QED
      BY <2>2, <3>1, QuietStep DEF LockKeyOf, Owning
  <2> QED
    BY <1>16, <2>3, <2>4, <2>5 DEF OnQueueReady
<1>17. ASSUME NEW a \in AppKeys, SingletonWrites(a) PROVE LockInv'
  BY <1>17, QuietStep DEF SingletonWrites, LockKeyOf, local
<1>18. CASE UNCHANGED vars
  BY <1>18, QuietStep DEF vars, LockKeyOf
<1> QED
  BY <1>1, <1>2, <1>3, <1>4, <1>5, <1>6, <1>7, <1>8, <1>9, <1>10, <1>11, <1>12,
     <1>13, <1>14, <1>15, <1>16, <1>17, <1>18, <1>19, <1>20
  DEF Next, CallbackStep, Response

(* Who holds a lock, what its entry says and what its writers have read   *)
(* agree after every step of every thread.                                 *)
THEOREM LockInvariance == Spec => []LockInv
BY InitTypeOK, NextTypeOK, InitLockInv, NextLockInv, PTL DEF Spec

(* However many threads race through set_callout_lock, one request per     *)
(* cache key calls 3scale.                                                 *)
THEOREM CalloutIsUnique == Spec => []MutualExclusion
BY LockInvariance, PTL DEF LockInv

(* An owner frees a lock that is held, under the key it was taken with.    *)
THEOREM OwnersHoldTheirLock == Spec => []OwnerHoldsLock
BY LockInvariance, PTL DEF LockInv
=============================================================================
