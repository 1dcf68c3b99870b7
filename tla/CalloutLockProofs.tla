-------------------------- MODULE CalloutLockProofs --------------------------
(***************************************************************************)
(* Proofs about the waiters of UniqueCallout, for any number of threads,   *)
(* requests and keys: a message finds its context waiting, a waiter is     *)
(* dropped by an owner's erasure only, and the filters implement the       *)
(* abstract lock of CalloutLock.                                           *)
(***************************************************************************)
EXTENDS UniqueCalloutProofs

USE KeysAssumption, ThreadOfAssumption, AppKeyOfAssumption, FailureModeAssumption

In(x, s)  == \E i \in 1 .. Len(s) : s[i] = x
NoDup(s)  == \A i, j \in 1 .. Len(s) : s[i] = s[j] => i = j

(* The same of the contexts that the messages of a queue name. *)
InMail(c, q) == \E i \in 1 .. Len(q) : q[i].ctx = c
OneEach(q)   == \A i, j \in 1 .. Len(q) : q[i].ctx = q[j].ctx => i = j

(* An appended element is the only new one.                                *)
LEMMA AppendSeq ==
  ASSUME NEW S, NEW s \in Seq(S), NEW x \in S
  PROVE  /\ \A y : In(y, Append(s, x)) => In(y, s) \/ y = x
         /\ NoDup(s) /\ ~In(x, s) => NoDup(Append(s, x))
BY DEF In, NoDup

(* A sequence is its head and its tail.                                    *)
LEMMA TailSeq ==
  ASSUME NEW S, NEW s \in Seq(S), s # <<>>
  PROVE  /\ In(Head(s), s)
         /\ \A y : In(y, Tail(s)) => In(y, s)
         /\ NoDup(s) => NoDup(Tail(s)) /\ ~In(Head(s), Tail(s))
BY DEF In, NoDup

(* An appended message names the only new context.                         *)
LEMMA AppendMail ==
  ASSUME NEW q \in Seq(Message), NEW m \in Message
  PROVE  /\ \A c : InMail(c, Append(q, m)) <=> InMail(c, q) \/ c = m.ctx
         /\ OneEach(q) /\ ~InMail(m.ctx, q) => OneEach(Append(q, m))
<1>1. /\ Len(Append(q, m)) = Len(q) + 1 /\ Append(q, m)[Len(q) + 1] = m
      /\ \A i \in 1 .. Len(q) : Append(q, m)[i] = q[i]
      /\ Len(q) \in Nat
  OBVIOUS
<1>2. OneEach(q) /\ ~InMail(m.ctx, q) => OneEach(Append(q, m))
  BY <1>1 DEF InMail, OneEach
<1>3. ASSUME NEW c, InMail(c, q) \/ c = m.ctx PROVE InMail(c, Append(q, m))
  BY <1>1, <1>3 DEF InMail
<1>4. ASSUME NEW c, InMail(c, Append(q, m)) PROVE InMail(c, q) \/ c = m.ctx
  BY <1>1, <1>4 DEF InMail
<1> QED
  BY <1>2, <1>3, <1>4

(* A queue is its first message and the rest.                              *)
LEMMA TailMail ==
  ASSUME NEW q \in Seq(Message), q # <<>>
  PROVE  /\ \A c : InMail(c, q) <=> c = Head(q).ctx \/ InMail(c, Tail(q))
         /\ OneEach(q) => OneEach(Tail(q)) /\ ~InMail(Head(q).ctx, Tail(q))
<1>1. /\ Len(Tail(q)) = Len(q) - 1 /\ Head(q) = q[1] /\ Len(q) \in Nat
      /\ Len(q) > 0
      /\ \A i \in 1 .. Len(Tail(q)) : Tail(q)[i] = q[i + 1]
  OBVIOUS
<1>2. OneEach(q) => OneEach(Tail(q)) /\ ~InMail(Head(q).ctx, Tail(q))
  BY <1>1 DEF InMail, OneEach
<1>3. ASSUME NEW c, c = Head(q).ctx \/ InMail(c, Tail(q)) PROVE InMail(c, q)
  BY <1>1, <1>3 DEF InMail
<1>4. ASSUME NEW c, InMail(c, q) PROVE c = Head(q).ctx \/ InMail(c, Tail(q))
  <2>1. PICK i \in 1 .. Len(q) : q[i].ctx = c
    BY <1>4 DEF InMail
  <2>2. CASE i = 1
    BY <1>1, <2>1, <2>2
  <2>3. CASE i # 1
    <3>1. i - 1 \in 1 .. Len(Tail(q)) /\ Tail(q)[i - 1] = q[i]
      BY <1>1, <2>3
    <3> QED
      BY <2>1, <3>1 DEF InMail
  <2> QED
    BY <2>2, <2>3
<1> QED
  BY <1>2, <1>3, <1>4
-----------------------------------------------------------------------------
(* The inductive invariant of the waiters: who is in a waitlist, in an     *)
(* owner's list of waiters to notify, or named by a message is waiting,    *)
(* and is in one of the three only.  While its owner notifies, the entry   *)
(* of a lock still lists waiters that were called already.                 *)

Notifying(k) == \E c \in Contexts : pc[c] = "notify" /\ prev[c] = k

KeptInv ==
  \A c \in Contexts : /\ c \in waiting => pc[c] \in {"waiting", "gone"}
                      /\ pc[c] = "waiting" => c \in waiting

(* A context that is in a waitlist, or was, and waits for its message: its *)
(* own thread keeps it, or is about to.                                    *)
Joined(c) == pc[c] = "register" \/ c \in waiting

Uncalled(w, k) == Joined(w) /\ key[w] = k /\ ~Called(w)

ListInv ==
  \A k \in Keys : ~Notifying(k) =>
    /\ NoDup(lock[k].waiters)
    /\ \A w \in Contexts : In(w, lock[k].waiters) => Uncalled(w, k)

NotifyInv ==
  \A c \in Contexts :
    /\ pc[c] # "notify" => notify[c] = <<>>
    /\ NoDup(notify[c])
    /\ \A w \in Contexts : In(w, notify[c]) => Uncalled(w, prev[c])

MailInv ==
  \A t \in Threads :
    /\ OneEach(mq[t])
    /\ \A w \in Contexts : InMail(w, mq[t]) => Joined(w) /\ ThreadOf[w] = t

WaitInv == KeptInv /\ ListInv /\ NotifyInv /\ MailInv

(* A context is called if a message of its own thread names it.            *)
LEMMA CalledByMail ==
  \A c \in Contexts : Called(c) <=> \E t \in Threads : InMail(c, mq[t])
BY DEF Called, InMail

(* Nobody waits in the initial state.                                      *)
LEMMA InitWaitInv == Init => WaitInv
BY DEF Init, WaitInv, KeptInv, ListInv, NotifyInv, MailInv, NoLock, In, NoDup,
       InMail, OneEach, Joined

(* A step that touches no waitlist, list, message or kept context, and no  *)
(* key of a context that waits or notifies, keeps the invariant.           *)
LEMMA QuietWait ==
  ASSUME TypeOK, WaitInv,
         \A k \in Keys : lock'[k].waiters = lock[k].waiters,
         UNCHANGED <<mq, waiting, notify>>,
         \A d \in Contexts :
           /\ pc'[d] = "notify" <=> pc[d] = "notify"
           /\ pc[d] = "notify" => prev'[d] = prev[d]
           /\ d \in waiting => pc'[d] \in {"waiting", "gone"} /\ key'[d] = key[d]
           /\ pc'[d] = "waiting" => pc[d] = "waiting"
           /\ pc[d] = "register" => pc'[d] = "register" /\ key'[d] = key[d]
  PROVE  WaitInv'
<1>1. \A c \in Contexts : Called(c)' <=> Called(c)
  BY DEF Called
<1>2. \A w \in Contexts, k \in Keys : Uncalled(w, k) => Uncalled(w, k)'
  BY <1>1 DEF Uncalled, Joined
<1>3. KeptInv'
  BY DEF WaitInv, KeptInv
<1>4. \A k \in Keys : Notifying(k)' <=> Notifying(k)
  BY DEF Notifying
<1>5. ListInv'
  BY <1>2, <1>4 DEF WaitInv, ListInv
<1>6. NotifyInv'
  <2> SUFFICES ASSUME NEW c \in Contexts
               PROVE  /\ pc'[c] # "notify" => notify[c] = <<>>
                      /\ NoDup(notify[c])
                      /\ \A w \in Contexts :
                           In(w, notify[c]) => Uncalled(w, prev[c])'
    BY DEF NotifyInv
  <2>1. CASE pc[c] = "notify"
    BY <1>2, <2>1 DEF WaitInv, NotifyInv, TypeOK
  <2>2. CASE pc[c] # "notify"
    <3>1. notify[c] = <<>> /\ \A w : ~In(w, notify[c])
      BY <2>2 DEF WaitInv, NotifyInv, In
    <3> QED
      BY <3>1 DEF NoDup
  <2> QED
    BY <2>1, <2>2
<1>7. MailInv'
  BY DEF WaitInv, MailInv, Joined
<1> QED
  BY <1>3, <1>5, <1>6, <1>7 DEF WaitInv

(* The same for a step that only moves one context that does not wait.     *)
LEMMA QuietWaitMove ==
  ASSUME TypeOK, WaitInv, NEW c \in Contexts, NEW label,
         Goto(c, label), UNCHANGED <<mq, waiting, notify>>,
         \A k \in Keys : lock'[k].waiters = lock[k].waiters,
         \A d \in Contexts \ {c} : key'[d] = key[d] /\ prev'[d] = prev[d],
         ~Joined(c), pc[c] # "notify", label \notin {"notify", "waiting"}
  PROVE  WaitInv'
<1>1. pc'[c] = label /\ \A d \in Contexts \ {c} : pc'[d] = pc[d]
  BY DEF Goto, TypeOK
<1>2. \A d \in Contexts : d \in waiting => pc[d] \in {"waiting", "gone"}
  BY DEF WaitInv, KeptInv
<1> QED
  BY <1>1, <1>2, QuietWait DEF Joined

(* A context that acts on the lock does not wait.                          *)
LEMMA ActorDoesNotWait ==
  ASSUME WaitInv, NEW c \in Contexts, pc[c] \notin {"register", "waiting", "gone"}
  PROVE  ~Joined(c) /\ c \notin waiting /\ ~Called(c)
BY CalledByMail DEF WaitInv, KeptInv, MailInv, Joined

(* Joining puts a context that waited nowhere at the end of the list it    *)
(* has read, which is the stored one.                                      *)
LEMMA JoinKeepsWaitInv ==
  ASSUME TypeOK, LockInv, WaitInv, NEW c \in Contexts, JoinWaitlist(c)
  PROVE  WaitInv'
<1> DEFINE k == key[c]
<1>1. /\ ~Joined(c) /\ c \notin waiting /\ ~Called(c)
      /\ pc[c] = "set" /\ k \in Keys
  BY ActorDoesNotWait DEF JoinWaitlist, TypeOK
<1>2. CASE Goto(c, "get") /\ UNCHANGED lock
  BY <1>1, <1>2, QuietWaitMove DEF JoinWaitlist
<1>3. CASE SetAccepted(c) /\ PushWaiter(c) /\ Goto(c, "register")
  <2>1. seen[c] = lock[k]
    <3>1. /\ seen[c].held /\ seen[c].cas # NoEntry /\ seen[c].cas # 1
          /\ seen[c].cas <= lock[k].cas
          /\ seen[c].cas \in Nat /\ lock[k].cas \in Nat
      BY <1>1 DEF JoinWaitlist, LockInv, SnapshotNotNewer, TypeOK, LockEntry
    <3>2. seen[c].cas = lock[k].cas
      BY <1>3, <3>1 DEF SetAccepted, Accepts, CasToSend, NoEntry, AnyCas
    <3> QED
      BY <1>1, <3>1, <3>2 DEF LockInv, CasIdentifiesValue
  <2>2. /\ lock'[k].waiters = Append(lock[k].waiters, c)
        /\ \A j \in Keys \ {k} : lock'[j] = lock[j]
        /\ pc'[c] = "register" /\ \A d \in Contexts \ {c} : pc'[d] = pc[d]
        /\ UNCHANGED <<mq, waiting, key, prev, notify>>
    BY <1>1, <1>3, <2>1 DEF PushWaiter, Goto, TypeOK, JoinWaitlist
  <2>3. \A d \in Contexts : Called(d)' <=> Called(d)
    BY <2>2 DEF Called
  <2>4. \A j \in Keys : Notifying(j)' <=> Notifying(j)
    BY <1>1, <2>2 DEF Notifying
  <2>5. \A w \in Contexts, j \in Keys : Uncalled(w, j) => Uncalled(w, j)'
    BY <1>1, <2>2, <2>3 DEF Uncalled, Joined
  <2>6. Uncalled(c, k)'
    BY <1>1, <2>2, <2>3 DEF Uncalled, Joined
  <2>7. ListInv'
    <3> SUFFICES ASSUME NEW j \in Keys, ~Notifying(j)
                 PROVE  /\ NoDup(lock'[j].waiters)
                        /\ \A w \in Contexts :
                             In(w, lock'[j].waiters) => Uncalled(w, j)'
      BY <2>4 DEF ListInv
    <3>1. /\ NoDup(lock[j].waiters)
          /\ \A w \in Contexts : In(w, lock[j].waiters) => Uncalled(w, j)
      BY DEF WaitInv, ListInv
    <3>2. CASE j = k
      <4>1. lock[k].waiters \in Seq(Contexts)
        BY <1>1 DEF TypeOK, LockEntry
      <4>2. ~In(c, lock[k].waiters)
        BY <1>1, <3>1, <3>2 DEF Uncalled
      <4>3. /\ NoDup(Append(lock[k].waiters, c))
            /\ \A w : In(w, Append(lock[k].waiters, c))
                        => In(w, lock[k].waiters) \/ w = c
        BY <3>1, <3>2, <4>1, <4>2, AppendSeq
      <4> QED
        BY <2>2, <2>5, <2>6, <3>1, <3>2, <4>3
    <3>3. CASE j # k
      BY <2>2, <2>5, <3>1, <3>3
    <3> QED
      BY <3>2, <3>3
  <2>8. KeptInv'
    BY <1>1, <2>2 DEF WaitInv, KeptInv
  <2>9. NotifyInv'
    BY <1>1, <2>2, <2>5 DEF WaitInv, NotifyInv, TypeOK
  <2>10. MailInv'
    BY <1>1, <2>2 DEF WaitInv, MailInv, Joined
  <2> QED
    BY <2>7, <2>8, <2>9, <2>10 DEF WaitInv
<1> QED
  BY <1>2, <1>3 DEF JoinWaitlist

(* A context that is in the waitlist is kept now by its thread as well,    *)
(* whether or not it was called meanwhile.                                 *)
LEMMA RegisterKeepsWaitInv ==
  ASSUME TypeOK, WaitInv, NEW c \in Contexts, Register(c)
  PROVE  WaitInv'
<1>1. /\ pc[c] = "register" /\ pc'[c] = "waiting"
      /\ \A d \in Contexts \ {c} : pc'[d] = pc[d]
      /\ waiting' = waiting \cup {c}
      /\ UNCHANGED <<lock, mq, key, prev, notify>>
  BY DEF Register, KeepContext, Goto, TypeOK, local
<1>2. \A d \in Contexts : (Called(d)' <=> Called(d)) /\ (Joined(d)' <=> Joined(d))
  BY <1>1 DEF Called, Joined
<1>3. \A w \in Contexts, j \in Keys : Uncalled(w, j)' <=> Uncalled(w, j)
  BY <1>1, <1>2 DEF Uncalled
<1>4. \A j \in Keys : Notifying(j)' <=> Notifying(j)
  BY <1>1 DEF Notifying
<1>5. ListInv' /\ KeptInv'
  BY <1>1, <1>3, <1>4 DEF WaitInv, ListInv, KeptInv
<1>6. NotifyInv'
  BY <1>1, <1>3 DEF WaitInv, NotifyInv, TypeOK
<1>7. MailInv'
  BY <1>1, <1>2 DEF WaitInv, MailInv
<1> QED
  BY <1>5, <1>6, <1>7 DEF WaitInv

(* The owner that starts to notify is the only one of its lock, so the     *)
(* list it has read still names waiters only.                              *)
LEMMA FreeGetKeepsWaitInv ==
  ASSUME TypeOK, LockInv, WaitInv, NEW c \in Contexts, FreeGet(c)
  PROVE  WaitInv'
<1> DEFINE k == prev[c]
<1>1. pc[c] = "free" /\ ~Joined(c) /\ c \notin waiting /\ k \in Keys
  BY ActorDoesNotWait DEF FreeGet, TypeOK
<1>2. CASE Goto(c, "done") /\ UNCHANGED notify
  BY <1>1, <1>2, QuietWaitMove DEF FreeGet, shared
<1>3. CASE notify' = [notify EXCEPT ![c] = lock[k].waiters] /\ Goto(c, "notify")
  <2>1. /\ notify'[c] = lock[k].waiters /\ pc'[c] = "notify"
        /\ \A d \in Contexts \ {c} : notify'[d] = notify[d] /\ pc'[d] = pc[d]
        /\ UNCHANGED <<lock, mq, waiting, key, prev>>
    BY <1>3 DEF FreeGet, Goto, TypeOK, shared
  <2>2. ~Notifying(k)
    BY <1>1 DEF Notifying, LockInv, MutualExclusion, Owning, LockKeyOf
  <2>3. \A j \in Keys : Notifying(j) => Notifying(j)'
    BY <2>1 DEF Notifying
  <2>4. \A w \in Contexts, j \in Keys : Uncalled(w, j)' <=> Uncalled(w, j)
    BY <1>1, <2>1 DEF Uncalled, Called, Joined
  <2>5. ListInv' /\ KeptInv' /\ MailInv'
    BY <1>1, <2>1, <2>3, <2>4 DEF WaitInv, ListInv, KeptInv, MailInv, Joined
  <2>6. /\ NoDup(lock[k].waiters)
        /\ \A w \in Contexts : In(w, lock[k].waiters) => Uncalled(w, k)
    BY <1>1, <2>2 DEF WaitInv, ListInv
  <2>7. NotifyInv'
    BY <2>1, <2>4, <2>6 DEF WaitInv, NotifyInv, TypeOK
  <2> QED
    BY <2>5, <2>7 DEF WaitInv
<1> QED
  BY <1>2, <1>3 DEF FreeGet

(* The waiter that is notified moves from the owner's list to the queue of *)
(* its thread.                                                             *)
LEMMA NotifyKeepsWaitInv ==
  ASSUME TypeOK, LockInv, WaitInv, NEW c \in Contexts, NotifyOne(c)
  PROVE  WaitInv'
<1> DEFINE x == Head(notify[c])
           m == [kind |-> action[c], ctx |-> x]
           tx == ThreadOf[x]
<1>1. notify[c] \in Seq(Contexts) /\ notify[c] # <<>> /\ pc[c] = "notify"
  BY DEF NotifyOne, TypeOK
<1>2. x \in Contexts /\ m \in Message /\ tx \in Threads
  <2>1. x \in Contexts /\ action[c] \in Actions
    BY <1>1 DEF TypeOK
  <2>2. m \in Message
    BY <2>1 DEF Message
  <2>3. tx \in Threads
    BY <2>1
  <2> QED
    BY <2>1, <2>2, <2>3
<1>3. /\ In(x, notify[c]) /\ ~In(x, Tail(notify[c])) /\ NoDup(Tail(notify[c]))
      /\ \A w : In(w, Tail(notify[c])) => In(w, notify[c])
  BY <1>1, TailSeq DEF WaitInv, NotifyInv
<1>4. Uncalled(x, prev[c])
  BY <1>2, <1>3 DEF WaitInv, NotifyInv
<1>5. /\ mq'[tx] = Append(mq[tx], m)
      /\ \A t \in Threads \ {tx} : mq'[t] = mq[t]
      /\ notify'[c] = Tail(notify[c])
      /\ \A d \in Contexts \ {c} : notify'[d] = notify[d]
      /\ UNCHANGED <<lock, waiting, pc, key, prev>>
  BY <1>2 DEF NotifyOne, TypeOK
<1>6. mq[tx] \in Seq(Message) /\ m.ctx = x
  BY <1>2 DEF TypeOK
<1>7. /\ \A w : InMail(w, mq'[tx]) <=> InMail(w, mq[tx]) \/ w = x
      /\ OneEach(mq[tx]) /\ ~InMail(x, mq[tx]) => OneEach(mq'[tx])
  BY <1>2, <1>5, <1>6, AppendMail
<1>8. \A w \in Contexts : Called(w)' <=> Called(w) \/ w = x
  <2>1. \A w \in Contexts : Called(w)' <=> \E t \in Threads : InMail(w, mq'[t])
    BY DEF Called, InMail
  <2> QED
    BY <1>2, <1>5, <1>7, <2>1, CalledByMail
<1>9. \A w \in Contexts, k \in Keys : Uncalled(w, k) /\ w # x => Uncalled(w, k)'
  BY <1>5, <1>8 DEF Uncalled, Joined
<1>10. MailInv'
  <2> SUFFICES ASSUME NEW t \in Threads
               PROVE  /\ OneEach(mq'[t])
                      /\ \A w \in Contexts :
                           InMail(w, mq'[t]) => Joined(w) /\ ThreadOf[w] = t
    BY <1>5 DEF MailInv, Joined
  <2>1. ~InMail(x, mq[tx])
    BY <1>2, <1>4, CalledByMail DEF Uncalled
  <2>2. /\ OneEach(mq[t])
        /\ \A w \in Contexts : InMail(w, mq[t]) => Joined(w) /\ ThreadOf[w] = t
    BY DEF WaitInv, MailInv
  <2>3. CASE t = tx
    <3>1. Joined(x)
      BY <1>4 DEF Uncalled
    <3> QED
      BY <1>7, <2>1, <2>2, <2>3, <3>1
  <2>4. CASE t # tx
    BY <1>5, <2>2, <2>4
  <2> QED
    BY <2>3, <2>4
<1>11. NotifyInv'
  <2> SUFFICES ASSUME NEW d \in Contexts
               PROVE  /\ pc[d] # "notify" => notify'[d] = <<>>
                      /\ NoDup(notify'[d])
                      /\ \A w \in Contexts :
                           In(w, notify'[d]) => Uncalled(w, prev[d])'
    BY <1>5 DEF NotifyInv
  <2>0. prev[d] \in Keys
    BY DEF TypeOK
  <2>1. CASE d = c
    BY <1>1, <1>3, <1>5, <1>9, <2>0, <2>1 DEF WaitInv, NotifyInv
  <2>2. CASE d # c
    <3>1. ~In(x, notify[d])
      <4> SUFFICES ASSUME In(x, notify[d]) PROVE FALSE
        OBVIOUS
      <4>1. Uncalled(x, prev[d])
        BY <1>2 DEF WaitInv, NotifyInv
      <4>2. pc[d] = "notify"
        BY DEF WaitInv, NotifyInv, In
      <4>3. prev[d] = prev[c]
        BY <4>1, <1>4 DEF Uncalled
      <4> QED
        BY <1>1, <2>2, <4>2, <4>3 DEF LockInv, MutualExclusion, Owning, LockKeyOf
    <3> QED
      BY <1>5, <1>9, <2>0, <2>2, <3>1 DEF WaitInv, NotifyInv
  <2> QED
    BY <2>1, <2>2
<1>12. ListInv'
  <2>1. \A k \in Keys : Notifying(k)' <=> Notifying(k)
    BY <1>5 DEF Notifying
  <2>2. Notifying(prev[c])
    BY <1>1 DEF Notifying
  <2>3. \A k \in Keys : ~Notifying(k) => ~Uncalled(x, k)
    BY <1>4, <2>2 DEF Uncalled
  <2> QED
    BY <1>2, <1>5, <1>9, <2>1, <2>3 DEF WaitInv, ListInv
<1>13. KeptInv'
  BY <1>5 DEF WaitInv, KeptInv
<1> QED
  BY <1>10, <1>11, <1>12, <1>13 DEF WaitInv

(* An owner that has notified everyone erases the entry.                   *)
LEMMA EraseKeepsWaitInv ==
  ASSUME TypeOK, WaitInv, NEW c \in Contexts, EraseLock(c)
  PROVE  WaitInv'
<1> DEFINE k == prev[c]
<1>1. /\ pc[c] = "notify" /\ notify[c] = <<>> /\ k \in Keys
      /\ lock'[k].waiters = <<>> /\ \A j \in Keys \ {k} : lock'[j] = lock[j]
      /\ pc'[c] = "done" /\ \A d \in Contexts \ {c} : pc'[d] = pc[d]
      /\ UNCHANGED <<mq, waiting, key, prev, notify>>
  BY DEF EraseLock, Goto, TypeOK, local
<1>2. \A w \in Contexts, j \in Keys : Uncalled(w, j)' <=> Uncalled(w, j)
  BY <1>1 DEF Uncalled, Called, Joined
<1>3. \A j \in Keys \ {k} : Notifying(j)' <=> Notifying(j)
  BY <1>1 DEF Notifying
<1>4. ListInv'
  <2> SUFFICES ASSUME NEW j \in Keys, ~Notifying(j)'
               PROVE  /\ NoDup(lock'[j].waiters)
                      /\ \A w \in Contexts :
                           In(w, lock'[j].waiters) => Uncalled(w, j)'
    BY DEF ListInv
  <2>1. CASE j = k
    BY <1>1, <2>1 DEF In, NoDup
  <2>2. CASE j # k
    BY <1>1, <1>2, <1>3, <2>2 DEF WaitInv, ListInv
  <2> QED
    BY <2>1, <2>2
<1>5. NotifyInv'
  BY <1>1, <1>2 DEF WaitInv, NotifyInv, TypeOK
<1>6. KeptInv' /\ MailInv'
  BY <1>1, ActorDoesNotWait DEF WaitInv, KeptInv, MailInv, Joined
<1> QED
  BY <1>4, <1>5, <1>6 DEF WaitInv

(* What on_queue_ready does of the context its message names, which waits: *)
(* the context leaves, all other contexts stay as they are.                *)
LEMMA QueueStep ==
  ASSUME TypeOK, WaitInv, NEW t \in Threads, OnQueueReady(t)
  PROVE  LET x == Head(mq[t]).ctx IN
         /\ x \in Contexts /\ x \in waiting /\ ThreadOf[x] = t
         /\ Called(x)
         /\ waiting' = waiting \ {x}
         /\ pc'[x] \in {"done", "gone", "stranded", "trapped"}
         /\ \A d \in Contexts \ {x} : pc'[d] = pc[d] /\ key'[d] = key[d]
         /\ \A d \in Contexts : Called(d)' <=> Called(d) /\ d # x
         /\ OneEach(mq'[t]) /\ \A s \in Threads \ {t} : mq'[s] = mq[s]
         /\ \A w : InMail(w, mq'[t]) => InMail(w, mq[t]) /\ w # x
         /\ UNCHANGED <<lock, prev, notify, action>>
<1> DEFINE x == Head(mq[t]).ctx
<1>1. mq[t] \in Seq(Message) /\ mq[t] # <<>>
  BY DEF OnQueueReady, TypeOK
<1>2. Head(mq[t]) \in Message
  BY <1>1
<1>3. x \in Contexts
  BY <1>2 DEF Message
<1>4. mq'[t] = Tail(mq[t]) /\ \A s \in Threads \ {t} : mq'[s] = mq[s]
  BY DEF OnQueueReady, TypeOK
<1>5. /\ \A w : InMail(w, mq[t]) <=> w = x \/ InMail(w, mq'[t])
      /\ OneEach(mq'[t]) /\ ~InMail(x, mq'[t])
  BY <1>1, <1>4, TailMail DEF WaitInv, MailInv
<1>6. x \in waiting /\ ThreadOf[x] = t /\ Called(x)
  <2>1. Joined(x) /\ ThreadOf[x] = t /\ Called(x)
    BY <1>3, <1>5, CalledByMail DEF WaitInv, MailInv
  <2>2. pc[x] # "register"
    BY <1>3, <2>1 DEF OnQueueReady, Idle, Running
  <2> QED
    BY <2>1, <2>2 DEF Joined
<1>7. \A d \in Contexts : Called(d)' <=> Called(d) /\ d # x
  <2>1. \A d \in Contexts : Called(d)' <=> \E s \in Threads : InMail(d, mq'[s])
    BY DEF Called, InMail
  <2>2. \A s \in Threads \ {t} : ~InMail(x, mq[s])
    BY <1>3, <1>6 DEF WaitInv, MailInv
  <2>3. \A d \in Contexts :
          (\E s \in Threads : InMail(d, mq'[s]))
            <=> InMail(d, mq'[t]) \/ \E s \in Threads \ {t} : InMail(d, mq[s])
    BY <1>4
  <2>4. \A d \in Contexts :
          (\E s \in Threads : InMail(d, mq[s]))
            <=> InMail(d, mq[t]) \/ \E s \in Threads \ {t} : InMail(d, mq[s])
    OBVIOUS
  <2> QED
    BY <1>5, <2>1, <2>2, <2>3, <2>4, CalledByMail
<1>8. /\ pc'[x] \in {"done", "gone", "stranded", "trapped"}
      /\ \A d \in Contexts \ {x} : pc'[d] = pc[d] /\ key'[d] = key[d]
  <2>1. CASE pc[x] = "gone" /\ UNCHANGED <<pc, key>>
    BY <2>1
  <2>2. CASE Settle(x, FailureVerdict) /\ UNCHANGED key
    BY <1>3, <2>2 DEF Settle, Goto, TypeOK
  <2>3. CASE ResumeOnHit(x)
    <3>1. Goto(x, "stranded") \/ Goto(x, "done") \/ Goto(x, "trapped")
      BY <2>3 DEF ResumeOnHit, Hit, Settle
    <3>2. \A d \in Contexts \ {x} : key'[d] = key[d]
      BY <1>3, <2>3 DEF ResumeOnHit, TypeOK
    <3> QED
      BY <1>3, <3>1, <3>2 DEF Goto, TypeOK
  <2> QED
    BY <1>6, <2>1, <2>2, <2>3 DEF OnQueueReady
<1>9. waiting' = waiting \ {x} /\ UNCHANGED <<lock, prev, notify, action>>
  BY DEF OnQueueReady
<1> HIDE DEF x
<1>10. \A w : InMail(w, mq'[t]) => InMail(w, mq[t]) /\ w # x
  BY <1>5
<1> USE DEF x
<1> QED
  BY ONLY <1>3, <1>4, <1>5, <1>6, <1>7, <1>8, <1>9, <1>10

(* A message taken from a queue takes its context out of WAITING_CONTEXTS. *)
LEMMA QueueKeepsWaitInv ==
  ASSUME TypeOK, WaitInv, NEW t \in Threads, OnQueueReady(t)
  PROVE  WaitInv'
<1> DEFINE x == Head(mq[t]).ctx
<1>1. /\ x \in waiting /\ x \in Contexts
      /\ Called(x)
      /\ waiting' = waiting \ {x}
      /\ pc'[x] \in {"done", "gone", "stranded", "trapped"}
      /\ \A d \in Contexts \ {x} : pc'[d] = pc[d] /\ key'[d] = key[d]
      /\ \A d \in Contexts : Called(d)' <=> Called(d) /\ d # x
      /\ OneEach(mq'[t]) /\ \A s \in Threads \ {t} : mq'[s] = mq[s]
      /\ \A w : InMail(w, mq'[t]) => InMail(w, mq[t]) /\ w # x
      /\ UNCHANGED <<lock, prev, notify>>
  BY QueueStep
<1>2. pc[x] \in {"waiting", "gone"}
  BY <1>1 DEF WaitInv, KeptInv
<1>3. KeptInv'
  BY <1>1 DEF WaitInv, KeptInv
<1>a. \A w \in Contexts \ {x} : Joined(w) => Joined(w)'
  BY <1>1 DEF Joined
<1>4. \A w \in Contexts, k \in Keys : Uncalled(w, k) => Uncalled(w, k)'
  BY <1>1, <1>a DEF Uncalled
<1>5. \A d \in Contexts : pc'[d] = "notify" <=> pc[d] = "notify"
  BY <1>1, <1>2
<1>6. ListInv'
  <2>1. \A k \in Keys : Notifying(k)' <=> Notifying(k)
    BY <1>1, <1>5 DEF Notifying
  <2> QED
    BY <1>1, <1>4, <2>1 DEF WaitInv, ListInv
<1>7. NotifyInv'
  <2>1. \A d \in Contexts : prev[d] \in Keys
    BY DEF TypeOK
  <2> QED
    BY <1>1, <1>4, <1>5, <2>1 DEF WaitInv, NotifyInv
<1>8. MailInv'
  <2> SUFFICES ASSUME NEW s \in Threads
               PROVE  /\ OneEach(mq'[s])
                      /\ \A w \in Contexts :
                           InMail(w, mq'[s]) => Joined(w)' /\ ThreadOf[w] = s
    BY DEF MailInv
  <2>0. \A w \in Contexts : InMail(w, mq[s]) => Joined(w) /\ ThreadOf[w] = s
    BY DEF WaitInv, MailInv
  <2>1. CASE s = t
    BY <1>1, <1>a, <2>0, <2>1
  <2>2. CASE s # t
    <3>1. OneEach(mq[s]) /\ mq'[s] = mq[s]
      BY <1>1, <2>2 DEF WaitInv, MailInv
    <3>2. ~InMail(x, mq[s])
      BY <1>1, <2>0, <2>2, QueueStep
    <3> QED
      BY <1>1, <1>a, <2>0, <3>1, <3>2
  <2> QED
    BY <2>1, <2>2
<1> QED
  BY <1>3, <1>6, <1>7, <1>8 DEF WaitInv

(* Every step of the system keeps the invariant.                           *)
LEMMA NextWaitInv == TypeOK /\ LockInv /\ WaitInv /\ [Next]_vars => WaitInv'
<1> SUFFICES ASSUME TypeOK, LockInv, WaitInv, [Next]_vars PROVE WaitInv'
  OBVIOUS
<1>a. ASSUME NEW c \in Contexts, NEW label,
             pc[c] \notin {"register", "waiting", "gone", "notify"},
             label \notin {"notify", "waiting"}, Goto(c, label),
             \A k \in Keys : lock'[k].waiters = lock[k].waiters,
             UNCHANGED <<mq, waiting, notify>>,
             \A d \in Contexts \ {c} : key'[d] = key[d] /\ prev'[d] = prev[d]
      PROVE  WaitInv'
  BY <1>a, ActorDoesNotWait, QuietWaitMove
<1>1. ASSUME NEW c \in Contexts, OnRequest(c) PROVE WaitInv'
  <2>1. \A d \in Contexts \ {c} : key'[d] = key[d]
    BY <1>1 DEF OnRequest, TypeOK
  <2> QED
    BY <1>1, <1>a, <2>1 DEF OnRequest, shared
<1>2. ASSUME NEW c \in Contexts, Lookup(c) PROVE WaitInv'
  <2>1. Goto(c, "done") \/ Goto(c, "trapped") \/ Goto(c, "get")
    BY <1>2 DEF Lookup, Hit, Settle
  <2> QED
    BY <1>2, <1>a, <2>1 DEF Lookup, shared
<1>3. ASSUME NEW c \in Contexts, CameFirst(c) PROVE WaitInv'
  <2>1. Goto(c, "done") \/ Goto(c, "trapped") \/ Goto(c, "lookup")
    BY <1>3 DEF CameFirst, Hit, Settle
  <2>2. \A d \in Contexts \ {c} : key'[d] = key[d]
    BY <1>3 DEF CameFirst, TypeOK
  <2> QED
    BY <1>3, <1>a, <2>1, <2>2 DEF CameFirst, shared
<1>4. ASSUME NEW c \in Contexts, LockGet(c) PROVE WaitInv'
  BY <1>4, <1>a DEF LockGet, shared
<1>5. ASSUME NEW c \in Contexts, Acquire(c) PROVE WaitInv'
  <2>1. CASE Goto(c, "get") /\ UNCHANGED lock
    BY <1>5, <1>a, <2>1 DEF Acquire, local
  <2>2. CASE SetAccepted(c) /\ Goto(c, "dispatch")
    <3> DEFINE k == key[c]
    <3>1. /\ k \in Keys /\ lock'[k].waiters = <<>>
          /\ \A j \in Keys \ {k} : lock'[j] = lock[j]
          /\ pc[c] = "set" /\ pc'[c] = "dispatch"
          /\ \A d \in Contexts \ {c} : pc'[d] = pc[d]
          /\ UNCHANGED <<mq, waiting, key, prev, notify>>
      BY <1>5, <2>2 DEF Acquire, Goto, TypeOK, local
    <3>2. \A w \in Contexts, j \in Keys : Uncalled(w, j)' <=> Uncalled(w, j)
      BY <3>1 DEF Uncalled, Called, Joined
    <3>3. \A j \in Keys : Notifying(j)' <=> Notifying(j)
      BY <3>1 DEF Notifying
    <3>4. ListInv'
      <4> SUFFICES ASSUME NEW j \in Keys, ~Notifying(j)
                   PROVE  /\ NoDup(lock'[j].waiters)
                          /\ \A w \in Contexts :
                               In(w, lock'[j].waiters) => Uncalled(w, j)'
        BY <3>3 DEF ListInv
      <4>1. CASE j = k
        BY <3>1, <4>1 DEF In, NoDup
      <4>2. CASE j # k
        BY <3>1, <3>2, <4>2 DEF WaitInv, ListInv
      <4> QED
        BY <4>1, <4>2
    <3>5. NotifyInv'
      BY <3>1, <3>2 DEF WaitInv, NotifyInv, TypeOK
    <3>6. KeptInv' /\ MailInv'
      BY <3>1 DEF WaitInv, KeptInv, MailInv, Joined
    <3> QED
      BY <3>4, <3>5, <3>6 DEF WaitInv
  <2> QED
    BY <1>5, <2>1, <2>2 DEF Acquire
<1>6. ASSUME NEW c \in Contexts, Dispatch(c) PROVE WaitInv'
  <2>1. Goto(c, "done") \/ Goto(c, "callout")
    BY <1>6 DEF Dispatch, Settle
  <2> QED
    BY <1>6, <1>a, <2>1 DEF Dispatch, shared, local
<1>7. ASSUME NEW c \in Contexts, FreshApp(c) PROVE WaitInv'
  <2>1. Goto(c, "free") \/ Goto(c, "trapped")
    BY <1>7 DEF FreshApp
  <2> QED
    BY <1>7, <1>a, <2>1 DEF FreshApp
<1>8. ASSUME NEW c \in Contexts, ResponseStatus(c) PROVE WaitInv'
  <2>1. \A d \in Contexts \ {c} : key'[d] = key[d] /\ prev'[d] = prev[d]
    BY <1>8 DEF ResponseStatus, SaveKey, TypeOK
  <2> QED
    BY <1>8, <1>a, <2>1 DEF ResponseStatus
<1>9. ASSUME NEW c \in Contexts,
             ResponseRefused(c) \/ ResponseError(c) \/ ResponsePanics(c)
      PROVE  WaitInv'
  <2>1. Goto(c, "free") \/ Goto(c, "done") \/ Goto(c, "trapped")
    BY <1>9 DEF ResponseRefused, ResponseError, ResponsePanics, Settle
  <2>2. /\ UNCHANGED <<lock, mq, waiting, notify, key>> /\ pc[c] = "callout"
        /\ \A d \in Contexts \ {c} : prev'[d] = prev[d]
    BY <1>9 DEF ResponseRefused, ResponseError, ResponsePanics, SaveKey, TypeOK,
                shared
  <2> QED
    BY <1>a, <2>1, <2>2
<1>10. ASSUME NEW c \in Contexts, Disconnect(c) PROVE WaitInv'
  <2>1. /\ pc[c] = "waiting" /\ pc'[c] = "gone"
        /\ \A d \in Contexts \ {c} : pc'[d] = pc[d]
        /\ UNCHANGED <<lock, mq, waiting, notify, key, prev>>
    BY <1>10 DEF Disconnect, Goto, TypeOK, shared, local
  <2>2. \A d \in Contexts : d \in waiting => pc[d] \in {"waiting", "gone"}
    BY DEF WaitInv, KeptInv
  <2> QED
    BY <2>1, <2>2, QuietWait
<1>11. ASSUME UNCHANGED <<lock, mq, waiting, notify, key, prev, pc>> PROVE WaitInv'
  <2>1. \A d \in Contexts : d \in waiting => pc[d] \in {"waiting", "gone"}
    BY DEF WaitInv, KeptInv
  <2> QED
    BY <1>11, <2>1, QuietWait
<1>12. ASSUME NEW a \in AppKeys, SingletonWrites(a) PROVE WaitInv'
  BY <1>12, <1>11 DEF SingletonWrites, local
<1>13. CASE UNCHANGED vars
  BY <1>13, <1>11 DEF vars
<1> QED
  BY <1>1, <1>2, <1>3, <1>4, <1>5, <1>6, <1>7, <1>8, <1>9, <1>10, <1>12, <1>13,
     JoinKeepsWaitInv, RegisterKeepsWaitInv, FreeGetKeepsWaitInv, NotifyKeepsWaitInv,
     EraseKeepsWaitInv, QueueKeepsWaitInv
  DEF Next, CallbackStep, Response

(* Whoever is listed or named by a message waits, in every reachable state.*)
THEOREM WaitInvariance == Spec => []WaitInv
<1>1. TypeOK /\ LockInv /\ WaitInv /\ [Next]_vars
        => (TypeOK /\ LockInv /\ WaitInv)'
  BY NextTypeOK, NextLockInv, NextWaitInv
<1>2. Init => TypeOK /\ LockInv /\ WaitInv
  BY InitTypeOK, InitLockInv, InitWaitInv
<1> QED
  BY <1>1, <1>2, PTL DEF Spec

(* on_queue_ready never finds a message for a context its thread does not  *)
(* keep: the "unrecoverable" error of root.rs:133 is not reached.          *)
THEOREM MessagesFindTheirContext == Spec => []NoUnknownContext
<1>1. TypeOK /\ WaitInv => NoUnknownContext
  <2> SUFFICES ASSUME TypeOK, WaitInv, NEW t \in Threads,
                      NEW i \in 1 .. Len(mq[t])
               PROVE  /\ ThreadOf[mq[t][i].ctx] = t
                      /\ Idle(t) => mq[t][i].ctx \in waiting
    BY DEF NoUnknownContext
  <2>1. mq[t] \in Seq(Message)
    BY DEF TypeOK
  <2>2. mq[t][i] \in Message
    BY <2>1
  <2>3. mq[t][i].ctx \in Contexts /\ InMail(mq[t][i].ctx, mq[t])
    BY <2>2 DEF Message, InMail
  <2> QED
    BY <2>3 DEF WaitInv, MailInv, Joined, Idle, Running
<1> QED
  BY <1>1, Typing, WaitInvariance, PTL
-----------------------------------------------------------------------------
(* What keeps a waiter from being forgotten.  Of the three places that can *)
(* name a context, each step but an erasure keeps every name or moves it.  *)

InLock(c)   == \E k \in Keys : lock[k].held /\ In(c, lock[k].waiters)
InNotify(c) == \E d \in Contexts : In(c, notify[d])

LEMMA ListedCases == \A c \in Contexts : Listed(c) <=> InLock(c) \/ InNotify(c) \/ Called(c)
BY DEF Listed, InLock, InNotify, Called, In

LEMMA ListedCasesNext ==
  \A c \in Contexts : Listed(c)' <=> InLock(c)' \/ InNotify(c)' \/ Called(c)'
BY DEF Listed, InLock, InNotify, Called, In

(* A step keeps the waiters if it keeps what names them and makes none.    *)
Keeps == \A c \in Contexts : Forgotten(c)' =>
           Forgotten(c) \/ \E d \in Contexts : Erases(d, c)

LEMMA ListedKept ==
  ASSUME \A c \in Contexts : pc'[c] \in {"register", "waiting"} =>
           pc[c] \in {"register", "waiting"} /\ (Listed(c) => Listed(c)')
  PROVE  Keeps
BY DEF Keeps, Forgotten

(* Most steps touch nothing that names a context, and move none into the   *)
(* waitlist.                                                               *)
LEMMA QuietKeeps ==
  ASSUME UNCHANGED <<lock, notify, mq>>,
         \A c \in Contexts : pc'[c] \in {"register", "waiting"} =>
           pc[c] \in {"register", "waiting"}
  PROVE  Keeps
BY ListedKept DEF Listed

(* The same of one context that moves elsewhere.                           *)
LEMMA QuietMoveKeeps ==
  ASSUME TypeOK, NEW c \in Contexts, NEW label, Goto(c, label),
         label \notin {"register", "waiting"}, UNCHANGED <<lock, notify, mq>>
  PROVE  Keeps
<1>1. pc'[c] = label /\ \A d \in Contexts \ {c} : pc'[d] = pc[d]
  BY DEF Goto, TypeOK
<1> QED
  BY <1>1, QuietKeeps

(* The lock is taken when it is not held, so its waitlist names nobody.    *)
LEMMA AcquireKeeps ==
  ASSUME TypeOK, LockInv, NEW c \in Contexts, Acquire(c)
  PROVE  Keeps
<1> DEFINE k == key[c]
<1>1. CASE Goto(c, "get") /\ UNCHANGED lock
  BY <1>1, QuietMoveKeeps DEF Acquire, local
<1>2. CASE SetAccepted(c) /\ Goto(c, "dispatch")
  <2>1. /\ pc'[c] = "dispatch" /\ \A d \in Contexts \ {c} : pc'[d] = pc[d]
        /\ \A j \in Keys \ {k} : lock'[j] = lock[j]
        /\ UNCHANGED <<notify, mq>>
    BY <1>2 DEF Acquire, Goto, TypeOK, local
  <2>2. ~lock[k].held
    BY <1>2, AcquiredWasFree DEF Acquire
  <2>3. \A d \in Contexts : InLock(d) => InLock(d)'
    BY <2>1, <2>2 DEF InLock
  <2>4. \A d \in Contexts : /\ InNotify(d)' <=> InNotify(d)
                            /\ Called(d)' <=> Called(d)
    BY <2>1 DEF InNotify, Called
  <2> QED
    BY <2>1, <2>3, <2>4, ListedCases, ListedCasesNext, ListedKept
<1> QED
  BY <1>1, <1>2 DEF Acquire

(* The waitlist is written back with everyone who was in it.               *)
LEMMA JoinKeeps ==
  ASSUME TypeOK, LockInv, NEW c \in Contexts, JoinWaitlist(c)
  PROVE  Keeps
<1> DEFINE k == key[c]
           s == lock[k].waiters
<1>0. pc[c] = "set" /\ seen[c].held /\ k \in Keys /\ s \in Seq(Contexts)
  BY DEF JoinWaitlist, TypeOK, LockEntry
<1>1. CASE Goto(c, "get") /\ UNCHANGED lock
  BY <1>1, QuietMoveKeeps DEF JoinWaitlist
<1>2. CASE SetAccepted(c) /\ PushWaiter(c) /\ Goto(c, "register")
  <2>1. seen[c] = lock[k]
    <3>1. /\ seen[c].cas # NoEntry /\ seen[c].cas # 1
          /\ seen[c].cas <= lock[k].cas
          /\ seen[c].cas \in Nat /\ lock[k].cas \in Nat
      BY <1>0 DEF LockInv, SnapshotNotNewer, TypeOK, LockEntry
    <3>2. seen[c].cas = lock[k].cas
      BY <1>2, <3>1 DEF SetAccepted, Accepts, CasToSend, NoEntry, AnyCas
    <3> QED
      BY <1>0, <3>1, <3>2 DEF LockInv, CasIdentifiesValue
  <2>2. /\ pc'[c] = "register" /\ \A d \in Contexts \ {c} : pc'[d] = pc[d]
        /\ lock'[k].held /\ lock'[k].waiters = Append(s, c)
        /\ \A j \in Keys \ {k} : lock'[j] = lock[j]
        /\ UNCHANGED <<notify, mq>>
    BY <1>0, <1>2, <2>1 DEF PushWaiter, Goto, TypeOK, JoinWaitlist
  <2>3. /\ Len(Append(s, c)) = Len(s) + 1 /\ Append(s, c)[Len(s) + 1] = c
        /\ \A i \in 1 .. Len(s) : Append(s, c)[i] = s[i]
        /\ Len(s) \in Nat
    BY <1>0
  <2>4. \A d : In(d, s) => In(d, Append(s, c))
    BY <2>3 DEF In
  <2>5. In(c, Append(s, c))
    BY <2>3 DEF In
  <2>6. InLock(c)' /\ \A d \in Contexts : InLock(d) => InLock(d)'
    BY <1>0, <2>2, <2>4, <2>5 DEF InLock
  <2>7. \A d \in Contexts : /\ InNotify(d)' <=> InNotify(d)
                            /\ Called(d)' <=> Called(d)
    BY <2>2 DEF InNotify, Called
  <2> QED
    BY <2>2, <2>6, <2>7, ListedCases, ListedCasesNext DEF Keeps, Forgotten
<1> QED
  BY <1>1, <1>2 DEF JoinWaitlist

(* The context that starts to notify had nobody left to notify.            *)
LEMMA FreeGetKeeps ==
  ASSUME TypeOK, WaitInv, NEW c \in Contexts, FreeGet(c)
  PROVE  Keeps
<1>1. CASE Goto(c, "done") /\ UNCHANGED notify
  BY <1>1, QuietMoveKeeps DEF FreeGet, shared
<1>2. CASE Goto(c, "notify") /\ notify' = [notify EXCEPT ![c] = lock[prev[c]].waiters]
  <2>1. /\ pc'[c] = "notify" /\ \A d \in Contexts \ {c} : pc'[d] = pc[d]
        /\ \A d \in Contexts \ {c} : notify'[d] = notify[d]
        /\ UNCHANGED <<lock, mq>>
    BY <1>2 DEF FreeGet, Goto, TypeOK, shared
  <2>2. notify[c] = <<>>
    BY DEF FreeGet, WaitInv, NotifyInv
  <2>3. \A d : ~In(d, <<>>)
    BY DEF In
  <2>4. \A d \in Contexts : InNotify(d) => InNotify(d)'
    BY <2>1, <2>2, <2>3 DEF InNotify
  <2>5. \A d \in Contexts : /\ InLock(d)' <=> InLock(d)
                            /\ Called(d)' <=> Called(d)
    BY <2>1 DEF InLock, Called
  <2> QED
    BY <2>1, <2>4, <2>5, ListedCases, ListedCasesNext, ListedKept
<1> QED
  BY <1>1, <1>2 DEF FreeGet

(* A waiter leaves the owner's list with its message in its queue.         *)
LEMMA NotifyKeeps ==
  ASSUME TypeOK, NEW c \in Contexts, NotifyOne(c)
  PROVE  Keeps
<1> DEFINE s == notify[c]
<1>1. s \in Seq(Contexts) /\ s # <<>>
  BY DEF NotifyOne, TypeOK
<1>2. PICK x \in Contexts : x = Head(s)
  BY <1>1
<1>3. PICK tx \in Threads : tx = ThreadOf[x]
  BY <1>2
<1>4. PICK m : m = [kind |-> action[c], ctx |-> x]
  OBVIOUS
<1>5. m \in Message /\ m.ctx = x
  <2>1. action[c] \in Actions
    BY DEF TypeOK
  <2> QED
    BY <1>4, <2>1 DEF Message
<1>6. /\ mq'[tx] = Append(mq[tx], m)
      /\ \A t \in Threads \ {tx} : mq'[t] = mq[t]
      /\ notify'[c] = Tail(s) /\ \A d \in Contexts \ {c} : notify'[d] = notify[d]
      /\ UNCHANGED <<lock, pc>>
  BY <1>2, <1>3, <1>4 DEF NotifyOne, TypeOK
<1>7. mq[tx] \in Seq(Message)
  BY <1>3 DEF TypeOK
<1>8. \A d : InMail(d, mq'[tx]) <=> InMail(d, mq[tx]) \/ d = x
  BY <1>5, <1>6, <1>7, AppendMail
<1>9. \A d \in Contexts : Called(d)' <=> Called(d) \/ d = x
  <2>1. \A d \in Contexts : Called(d)' <=> \E t \in Threads : InMail(d, mq'[t])
    BY DEF Called, InMail
  <2> QED
    BY <1>3, <1>6, <1>8, <2>1, CalledByMail
<1>10. ASSUME NEW d, In(d, s) PROVE d = x \/ In(d, Tail(s))
  <2>1. /\ Len(Tail(s)) = Len(s) - 1 /\ Head(s) = s[1] /\ Len(s) \in Nat
        /\ \A i \in 1 .. Len(Tail(s)) : Tail(s)[i] = s[i + 1]
    BY <1>1
  <2>2. PICK i \in 1 .. Len(s) : s[i] = d
    BY <1>10 DEF In
  <2>3. CASE i = 1
    BY <1>2, <2>1, <2>2, <2>3
  <2>4. CASE i # 1
    <3>1. i - 1 \in 1 .. Len(Tail(s)) /\ Tail(s)[i - 1] = s[i]
      BY <2>1, <2>4
    <3> QED
      BY <2>2, <3>1 DEF In
  <2> QED
    BY <2>3, <2>4
<1>11. \A d \in Contexts : InNotify(d) => InNotify(d)' \/ d = x
  BY <1>6, <1>10 DEF InNotify
<1>12. \A d \in Contexts : InLock(d)' <=> InLock(d)
  BY <1>6 DEF InLock
<1> QED
  BY <1>6, <1>9, <1>11, <1>12, ListedCases, ListedCasesNext, ListedKept

(* The erasure loses exactly those the erased waitlist names.              *)
LEMMA EraseKeeps ==
  ASSUME TypeOK, NEW c \in Contexts, EraseLock(c)
  PROVE  Keeps
<1> DEFINE k == prev[c]
<1>1. /\ pc[c] = "notify" /\ pc'[c] = "done"
      /\ \A d \in Contexts \ {c} : pc'[d] = pc[d]
      /\ \A j \in Keys \ {k} : lock'[j] = lock[j]
      /\ UNCHANGED <<mq, notify>>
  BY DEF EraseLock, Goto, TypeOK, local
<1>2. \A d \in Contexts : /\ InNotify(d)' <=> InNotify(d)
                          /\ Called(d)' <=> Called(d)
  BY <1>1 DEF InNotify, Called
<1>3. \A d \in Contexts : InLock(d) => InLock(d)' \/ In(d, lock[k].waiters)
  BY <1>1 DEF InLock
<1>4. \A d \in Contexts : In(d, lock[k].waiters) => Erases(c, d)
  BY <1>1 DEF Erases, In
<1> QED
  BY <1>1, <1>2, <1>3, <1>4, ListedCases, ListedCasesNext DEF Keeps, Forgotten

(* The message that is taken names a context that waits no more.           *)
LEMMA QueueKeeps ==
  ASSUME TypeOK, WaitInv, NEW t \in Threads, OnQueueReady(t)
  PROVE  Keeps
<1>1. PICK x \in Contexts :
        /\ pc'[x] \in {"done", "gone", "stranded", "trapped"}
        /\ \A d \in Contexts \ {x} : pc'[d] = pc[d]
        /\ \A d \in Contexts : Called(d)' <=> Called(d) /\ d # x
        /\ UNCHANGED <<lock, notify>>
  BY QueueStep
<1>2. \A d \in Contexts : /\ InNotify(d)' <=> InNotify(d)
                          /\ InLock(d)' <=> InLock(d)
  BY <1>1 DEF InNotify, InLock
<1> QED
  BY <1>1, <1>2, ListedCases, ListedCasesNext, ListedKept

(* Every step keeps the waiters, but for those an erasure loses.           *)
LEMMA NextKeeps == TypeOK /\ LockInv /\ WaitInv /\ [Next]_vars => Keeps
<1> SUFFICES ASSUME TypeOK, LockInv, WaitInv, [Next]_vars PROVE Keeps
  OBVIOUS
<1>1. ASSUME NEW c \in Contexts,
             OnRequest(c) \/ Lookup(c) \/ CameFirst(c) \/ LockGet(c) \/ Dispatch(c)
               \/ FreshApp(c) \/ Response(c) \/ Disconnect(c)
      PROVE  Keeps
  <2>1. UNCHANGED <<lock, notify, mq>>
    BY <1>1 DEF OnRequest, Lookup, CameFirst, LockGet, Dispatch, FreshApp, Response,
       ResponseStatus, ResponseRefused, ResponseError, ResponsePanics, Disconnect,
       shared, local
  <2>2. \E label : Goto(c, label) /\ label \notin {"register", "waiting"}
    <3>1. CASE OnRequest(c) \/ LockGet(c)
      BY <3>1 DEF OnRequest, LockGet
    <3>2. CASE Lookup(c) \/ CameFirst(c)
      BY <3>2 DEF Lookup, CameFirst, Hit, Settle
    <3>3. CASE Dispatch(c) \/ FreshApp(c) \/ Disconnect(c)
      BY <3>3 DEF Dispatch, FreshApp, Disconnect, Settle
    <3>4. CASE Response(c)
      BY <3>4 DEF Response, ResponseStatus, ResponseRefused, ResponseError,
         ResponsePanics, Settle
    <3> QED
      BY <1>1, <3>1, <3>2, <3>3, <3>4
  <2> QED
    BY <2>1, <2>2, QuietMoveKeeps
<1>2. ASSUME NEW c \in Contexts, Register(c) PROVE Keeps
  BY <1>2, QuietKeeps DEF Register, Goto, TypeOK, local
<1>3. ASSUME UNCHANGED <<lock, notify, mq, pc>> PROVE Keeps
  BY <1>3, QuietKeeps
<1>4. ASSUME NEW a \in AppKeys, SingletonWrites(a) PROVE Keeps
  BY <1>3, <1>4 DEF SingletonWrites, local
<1>5. CASE UNCHANGED vars
  BY <1>3, <1>5 DEF vars
<1> QED
  BY <1>1, <1>2, <1>4, <1>5, AcquireKeeps, JoinKeeps, FreeGetKeeps, NotifyKeeps,
     EraseKeeps, QueueKeeps
  DEF Next, CallbackStep

(* Whatever the threads do at once, a waiter is dropped by the erasing     *)
(* write of an owner and by nothing else: the concurrent writes of the     *)
(* waitlist lose nobody, for any number of threads, requests and keys.     *)
THEOREM OnlyErasureForgets == Spec => WaitersAreKept
<1>1. TypeOK /\ LockInv /\ WaitInv /\ [Next]_vars => [Keeps]_vars
  BY NextKeeps
<1> QED
  BY <1>1, Typing, LockInvariance, WaitInvariance, PTL
  DEF Spec, WaitersAreKept, Keeps

-----------------------------------------------------------------------------
(* The refinement.  The view of a context is its phase, key and outcome in *)
(* the abstract lock.                                                      *)

View(c) == <<Phase(c), UnderKey(c), Outcome(c)>>

phases   == [c \in Contexts |-> Phase(c)]
unders   == [c \in Contexts |-> UnderKey(c)]
outcomes == [c \in Contexts |-> Outcome(c)]

(* The phase of a context by where its request is.                         *)
LEMMA PhaseCases ==
  ASSUME NEW c \in Contexts
  PROVE  /\ pc[c] \in {"dispatch", "callout", "fresh"} => Phase(c) = "owner"
         /\ pc[c] \in {"free", "notify"} => Phase(c) = "answered"
         /\ pc[c] = "register" \/ (pc[c] \in {"waiting", "gone"} /\ c \in waiting)
              => Phase(c) = IF Called(c) THEN "called" ELSE "waiting"
         /\ pc[c] \in {"done", "stranded", "trapped"} => Phase(c) = "left"
         /\ pc[c] = "gone" /\ c \notin waiting => Phase(c) = "left"
         /\ pc[c] \in {"new", "lookup", "get", "set", "came_first"}
              => Phase(c) = "out"
BY DEF Phase

(* A context without a part has no key and tells nothing; an owner that    *)
(* has answered tells its action, and a called waiter what its message is. *)
LEMMA ViewCases ==
  ASSUME NEW c \in Contexts
  PROVE  /\ Phase(c) \in {"out", "left"} => UnderKey(c) = "none"
         /\ Phase(c) \notin {"out", "left"} => UnderKey(c) = LockKeyOf(c)
         /\ Phase(c) \notin {"answered", "called"} => Outcome(c) = "none"
         /\ Phase(c) = "answered" => Outcome(c) = action[c]
         /\ Phase(c) = "called" =>
              Outcome(c) = IF ToldHit(c) THEN "HandleCacheHit" ELSE "HandleFailure"
BY DEF UnderKey, Outcome

(* The same of the next state.                                             *)
LEMMA PhaseCasesNext ==
  ASSUME NEW c \in Contexts
  PROVE  /\ pc'[c] \in {"dispatch", "callout", "fresh"} => Phase(c)' = "owner"
         /\ pc'[c] \in {"free", "notify"} => Phase(c)' = "answered"
         /\ pc'[c] = "register" \/ (pc'[c] \in {"waiting", "gone"} /\ c \in waiting')
              => Phase(c)' = IF Called(c)' THEN "called" ELSE "waiting"
         /\ pc'[c] \in {"done", "stranded", "trapped"} => Phase(c)' = "left"
         /\ pc'[c] = "gone" /\ c \notin waiting' => Phase(c)' = "left"
         /\ pc'[c] \in {"new", "lookup", "get", "set", "came_first"}
              => Phase(c)' = "out"
BY DEF Phase

(* The same of the next state.                                             *)
LEMMA ViewCasesNext ==
  ASSUME NEW c \in Contexts
  PROVE  /\ Phase(c)' \in {"out", "left"} => UnderKey(c)' = "none"
         /\ Phase(c)' \notin {"out", "left"} => UnderKey(c)' = LockKeyOf(c)'
         /\ Phase(c)' \notin {"answered", "called"} => Outcome(c)' = "none"
         /\ Phase(c)' = "answered" => Outcome(c)' = action'[c]
         /\ Phase(c)' = "called" =>
              Outcome(c)' = IF ToldHit(c)' THEN "HandleCacheHit" ELSE "HandleFailure"
BY DEF UnderKey, Outcome

(* A context that a step leaves alone keeps its view.                      *)
LEMMA ViewFrame ==
  ASSUME NEW c \in Contexts, pc'[c] = pc[c], key'[c] = key[c],
         prev'[c] = prev[c], action'[c] = action[c],
         c \in waiting' <=> c \in waiting,
         Called(c)' <=> Called(c), ToldHit(c)' <=> ToldHit(c)
  PROVE  View(c)' = View(c)
<1>1. Phase(c)' = Phase(c)
  BY DEF Phase
<1>2. UnderKey(c)' = UnderKey(c) /\ Outcome(c)' = Outcome(c)
  BY <1>1 DEF UnderKey, Outcome, LockKeyOf
<1> QED
  BY <1>1, <1>2 DEF View

(* A step that changes the view of one context changes one entry of each   *)
(* abstract function.                                                      *)
LEMMA OneView ==
  ASSUME NEW c \in Contexts, \A d \in Contexts \ {c} : View(d)' = View(d)
  PROVE  /\ phases' = [phases EXCEPT ![c] = Phase(c)']
         /\ unders' = [unders EXCEPT ![c] = UnderKey(c)']
         /\ outcomes' = [outcomes EXCEPT ![c] = Outcome(c)']
BY DEF phases, unders, outcomes, View

(* A step that keeps every view and every held lock is a stutter.          *)
LEMMA SameViews ==
  ASSUME \A d \in Contexts : View(d)' = View(d), HeldKeys' = HeldKeys
  PROVE  UNCHANGED Lock!vars
BY DEF Lock!vars, View

(* A step of one context that touches no queue and no other context.       *)
LEMMA LocalStep ==
  ASSUME TypeOK, NEW c \in Contexts, NEW label, Goto(c, label),
         UNCHANGED mq,
         \A d \in Contexts \ {c} :
           /\ key'[d] = key[d] /\ prev'[d] = prev[d] /\ action'[d] = action[d]
           /\ d \in waiting' <=> d \in waiting
  PROVE  /\ pc'[c] = label
         /\ \A d \in Contexts \ {c} : View(d)' = View(d)
         /\ Called(c)' <=> Called(c)
<1>1. pc'[c] = label /\ \A d \in Contexts \ {c} : pc'[d] = pc[d]
  BY DEF Goto, TypeOK
<1>2. \A d \in Contexts : /\ Called(d)' <=> Called(d)
                          /\ ToldHit(d)' <=> ToldHit(d)
  BY DEF Called, ToldHit
<1>3. \A d \in Contexts \ {c} : View(d)' = View(d)
  BY <1>1, <1>2, ViewFrame
<1> QED
  BY <1>1, <1>2, <1>3

(* A step of a context outside the lock that stays outside is a stutter;   *)
(* one that ends its request passes.                                       *)
LEMMA OutsideStep ==
  ASSUME TypeOK, WaitInv, NEW c \in Contexts, NEW label, Goto(c, label),
         UNCHANGED <<mq, waiting, prev, action>>, HeldKeys' = HeldKeys,
         \A d \in Contexts \ {c} : key'[d] = key[d],
         pc[c] \in {"new", "lookup", "get", "set", "came_first"},
         label \in {"lookup", "get", "set", "came_first", "done", "trapped"}
  PROVE  [Lock!Next]_Lock!vars
<1>1. pc'[c] = label /\ \A d \in Contexts \ {c} : View(d)' = View(d)
  BY LocalStep
<1>2. Phase(c) = "out" /\ UnderKey(c) = "none" /\ Outcome(c) = "none"
  BY PhaseCases, ViewCases
<1>3. CASE label \in {"lookup", "get", "set", "came_first"}
  <2>1. View(c)' = View(c)
    BY <1>1, <1>2, <1>3, PhaseCasesNext, ViewCasesNext DEF View
  <2> QED
    BY <1>1, <2>1, SameViews
<1>4. CASE label \in {"done", "trapped"}
  <2>1. Phase(c)' = "left" /\ UnderKey(c)' = "none" /\ Outcome(c)' = "none"
    BY <1>1, <1>4, PhaseCasesNext, ViewCasesNext
  <2>2. /\ phases' = [phases EXCEPT ![c] = "left"]
        /\ unders' = [unders EXCEPT ![c] = "none"]
        /\ outcomes' = [outcomes EXCEPT ![c] = "none"]
    BY <1>1, <2>1, OneView
  <2>3. Lock!Pass(c)
    BY <1>2, <2>2 DEF Lock!Pass, Lock!Become, phases, unders, outcomes
  <2> QED
    BY <2>3 DEF Lock!Next
<1> QED
  BY <1>3, <1>4

(* Only writers of the lock change which locks are held.                   *)
LEMMA SameHeld == UNCHANGED lock => HeldKeys' = HeldKeys
BY DEF HeldKeys

(* An accepted write that takes the lock takes a free one.                 *)
LEMMA AcquireRefines ==
  ASSUME TypeOK, LockInv, WaitInv, NEW c \in Contexts, Acquire(c)
  PROVE  [Lock!Next]_Lock!vars
<1> DEFINE k == key[c]
<1>1. pc[c] = "set" /\ k \in Keys /\ UNCHANGED <<mq, waiting, key, prev, action>>
  BY DEF Acquire, TypeOK, local
<1>2. CASE Goto(c, "get") /\ UNCHANGED lock
  BY <1>1, <1>2, OutsideStep, SameHeld
<1>3. CASE SetAccepted(c) /\ Goto(c, "dispatch")
  <2>1. ~lock[k].held
    BY <1>1, <1>3, AcquiredWasFree DEF Acquire
  <2>2. lock'[k].held /\ \A j \in Keys \ {k} : lock'[j] = lock[j]
    BY <1>1, <1>3 DEF Acquire, TypeOK, Goto
  <2>3. HeldKeys' = HeldKeys \cup {k} /\ k \notin HeldKeys
    BY <1>1, <2>1, <2>2 DEF HeldKeys
  <2>4. pc'[c] = "dispatch" /\ \A d \in Contexts \ {c} : View(d)' = View(d)
    BY <1>1, <1>3, LocalStep
  <2>5. Phase(c) = "out" /\ UnderKey(c) = "none" /\ Outcome(c) = "none"
    BY <1>1, PhaseCases, ViewCases
  <2>6. Phase(c)' = "owner" /\ UnderKey(c)' = LockKeyOf(c)' /\ Outcome(c)' = "none"
    BY <2>4, PhaseCasesNext, ViewCasesNext
  <2>7. UnderKey(c)' = k
    BY <1>1, <2>4, <2>6 DEF LockKeyOf
  <2>8. /\ phases' = [phases EXCEPT ![c] = "owner"]
        /\ unders' = [unders EXCEPT ![c] = k]
        /\ outcomes' = [outcomes EXCEPT ![c] = "none"]
    BY <2>4, <2>6, <2>7, OneView
  <2>9. Lock!Acquire(c, k)
    BY <2>3, <2>5, <2>8 DEF Lock!Acquire, Lock!Become, phases, unders, outcomes
  <2> QED
    BY <1>1, <2>9 DEF Lock!Next
<1> QED
  BY <1>2, <1>3 DEF Acquire

(* A context joins a lock that is held when it is written into its list.   *)
LEMMA JoinRefines ==
  ASSUME TypeOK, LockInv, WaitInv, NEW c \in Contexts, JoinWaitlist(c)
  PROVE  [Lock!Next]_Lock!vars
<1> DEFINE k == key[c]
<1>1. /\ pc[c] = "set" /\ k \in Keys /\ seen[c].held
      /\ UNCHANGED <<mq, waiting, key, prev, action>>
  BY DEF JoinWaitlist, TypeOK
<1>2. CASE Goto(c, "get") /\ UNCHANGED lock
  BY <1>1, <1>2, OutsideStep, SameHeld
<1>3. CASE SetAccepted(c) /\ PushWaiter(c) /\ Goto(c, "register")
  <2>1. lock[k].held
    <3>1. /\ seen[c].cas # NoEntry /\ seen[c].cas # 1
          /\ seen[c].cas <= lock[k].cas
          /\ seen[c].cas \in Nat /\ lock[k].cas \in Nat
      BY <1>1 DEF LockInv, SnapshotNotNewer, TypeOK, LockEntry
    <3>2. seen[c].cas = lock[k].cas
      BY <1>3, <3>1 DEF SetAccepted, Accepts, CasToSend, NoEntry, AnyCas
    <3> QED
      BY <1>1, <3>1, <3>2 DEF LockInv, CasIdentifiesValue
  <2>2. lock'[k].held /\ \A j \in Keys \ {k} : lock'[j] = lock[j]
    BY <1>1, <1>3 DEF PushWaiter, TypeOK
  <2>3. HeldKeys' = HeldKeys /\ k \in HeldKeys
    BY <1>1, <2>1, <2>2 DEF HeldKeys
  <2>4. /\ pc'[c] = "register"
        /\ \A d \in Contexts \ {c} : View(d)' = View(d)
        /\ Called(c)' <=> Called(c)
    BY <1>1, <1>3, LocalStep
  <2>5. ~Called(c)
    BY <1>1, ActorDoesNotWait
  <2>6. Phase(c) = "out" /\ UnderKey(c) = "none" /\ Outcome(c) = "none"
    BY <1>1, PhaseCases, ViewCases
  <2>7. Phase(c)' = "waiting" /\ UnderKey(c)' = LockKeyOf(c)' /\ Outcome(c)' = "none"
    BY <2>4, <2>5, PhaseCasesNext, ViewCasesNext
  <2>8. UnderKey(c)' = k
    BY <1>1, <2>4, <2>7 DEF LockKeyOf
  <2>9. /\ phases' = [phases EXCEPT ![c] = "waiting"]
        /\ unders' = [unders EXCEPT ![c] = k]
        /\ outcomes' = [outcomes EXCEPT ![c] = "none"]
    BY <2>4, <2>7, <2>8, OneView
  <2>10. Lock!Join(c, k)
    BY <2>3, <2>6, <2>9 DEF Lock!Join, Lock!Become, phases, unders, outcomes
  <2> QED
    BY <1>1, <2>10 DEF Lock!Next
<1> QED
  BY <1>2, <1>3 DEF JoinWaitlist

(* An owner goes on with its call, answers it, or leaves the lock as it is.*)
LEMMA OwnerStep ==
  ASSUME TypeOK, WaitInv, NEW c \in Contexts, NEW label, Goto(c, label),
         UNCHANGED <<mq, waiting>>, HeldKeys' = HeldKeys,
         \A d \in Contexts \ {c} :
           key'[d] = key[d] /\ prev'[d] = prev[d] /\ action'[d] = action[d],
         action'[c] \in Actions,
         pc[c] \in {"dispatch", "callout", "fresh"},
         label \in {"callout", "fresh", "free", "done", "trapped"},
         label \in {"callout", "fresh", "free"} => LockKeyOf(c)' = LockKeyOf(c)
  PROVE  [Lock!Next]_Lock!vars
<1>1. pc'[c] = label /\ \A d \in Contexts \ {c} : View(d)' = View(d)
  BY LocalStep
<1>2. Phase(c) = "owner" /\ UnderKey(c) = LockKeyOf(c) /\ Outcome(c) = "none"
  BY PhaseCases, ViewCases
<1>3. CASE label \in {"callout", "fresh"}
  <2>1. View(c)' = View(c)
    BY <1>1, <1>2, <1>3, PhaseCasesNext, ViewCasesNext DEF View
  <2> QED
    BY <1>1, <2>1, SameViews
<1>4. CASE label = "free"
  <2>1. Phase(c)' = "answered" /\ UnderKey(c)' = UnderKey(c) /\ Outcome(c)' = action'[c]
    BY <1>1, <1>2, <1>4, PhaseCasesNext, ViewCasesNext
  <2>2. /\ phases' = [phases EXCEPT ![c] = "answered"]
        /\ unders' = [unders EXCEPT ![c] = UnderKey(c)]
        /\ outcomes' = [outcomes EXCEPT ![c] = action'[c]]
    BY <1>1, <2>1, OneView
  <2>3. unders' = unders
    BY <2>2 DEF unders
  <2>4. Lock!Answer(c, action'[c])
    BY <1>2, <2>2, <2>3 DEF Lock!Answer, Lock!Become, phases, unders, outcomes
  <2> QED
    BY <2>4 DEF Lock!Next
<1>5. CASE label \in {"done", "trapped"}
  <2>1. Phase(c)' = "left" /\ UnderKey(c)' = "none" /\ Outcome(c)' = "none"
    BY <1>1, <1>5, PhaseCasesNext, ViewCasesNext
  <2>2. /\ phases' = [phases EXCEPT ![c] = "left"]
        /\ unders' = [unders EXCEPT ![c] = "none"]
        /\ outcomes' = [outcomes EXCEPT ![c] = "none"]
    BY <1>1, <2>1, OneView
  <2>3. Lock!Abandon(c)
    BY <1>2, <2>2 DEF Lock!Abandon, Lock!Leave, Lock!Become, Lock!NoKey,
       Lock!NoOutcome, phases, unders, outcomes
  <2> QED
    BY <2>3 DEF Lock!Next
<1> QED
  BY <1>3, <1>4, <1>5

(* An owner that has answered finds its lock held, and starts to notify.   *)
LEMMA FreeGetRefines ==
  ASSUME TypeOK, LockInv, WaitInv, NEW c \in Contexts, FreeGet(c)
  PROVE  [Lock!Next]_Lock!vars
<1>1. pc[c] = "free" /\ UNCHANGED <<lock, mq, waiting, key, prev, action>>
  BY DEF FreeGet, shared
<1>2. lock[prev[c]].held
  BY <1>1 DEF LockInv, OwnerHoldsLock, Owning, LockKeyOf
<1>3. Goto(c, "notify")
  BY <1>2 DEF FreeGet
<1>4. pc'[c] = "notify" /\ \A d \in Contexts \ {c} : View(d)' = View(d)
  BY <1>1, <1>3, LocalStep
<1>5. Phase(c) = "answered" /\ Phase(c)' = "answered"
  BY <1>1, <1>4, PhaseCases, PhaseCasesNext
<1>6. View(c)' = View(c)
  BY <1>1, <1>4, <1>5, ViewCases, ViewCasesNext DEF View, LockKeyOf
<1> QED
  BY <1>1, <1>4, <1>6, SameHeld, SameViews

(* A notification calls a waiter of the owner's key, and tells it the      *)
(* owner's outcome.                                                        *)
LEMMA NotifyRefines ==
  ASSUME TypeOK, LockInv, WaitInv, NEW c \in Contexts, NotifyOne(c)
  PROVE  [Lock!Next]_Lock!vars
<1>1. notify[c] \in Seq(Contexts) /\ notify[c] # <<>> /\ pc[c] = "notify"
  BY DEF NotifyOne, TypeOK
<1>2. PICK x \in Contexts : x = Head(notify[c])
  BY <1>1
<1>3. PICK tx \in Threads : tx = ThreadOf[x]
  BY <1>2
<1>20. PICK m : m = [kind |-> action[c], ctx |-> x]
  OBVIOUS
<1>21. action[c] \in Actions /\ m \in Message /\ m.ctx = x /\ m.kind = action[c]
  <2>1. action[c] \in Actions
    BY DEF TypeOK
  <2> QED
    BY <1>20, <2>1 DEF Message
<1>4. In(x, notify[c])
  BY <1>1, <1>2, TailSeq
<1>5. Uncalled(x, prev[c])
  BY <1>2, <1>4 DEF WaitInv, NotifyInv
<1>6. /\ mq'[tx] = Append(mq[tx], m)
      /\ \A t \in Threads \ {tx} : mq'[t] = mq[t]
      /\ UNCHANGED <<lock, waiting, pc, key, prev, action>>
  BY <1>2, <1>3, <1>20 DEF NotifyOne, TypeOK
<1>7. mq[tx] \in Seq(Message)
  BY <1>3 DEF TypeOK
<1>8. /\ Len(mq'[tx]) = Len(mq[tx]) + 1 /\ mq'[tx][Len(mq[tx]) + 1] = m
      /\ \A i \in 1 .. Len(mq[tx]) : mq'[tx][i] = mq[tx][i]
      /\ Len(mq[tx]) \in Nat
  BY <1>6, <1>7, <1>21
<1>9. \A d \in Contexts \ {x} : /\ Called(d)' <=> Called(d)
                                /\ ToldHit(d)' <=> ToldHit(d)
  <2>2. \A d \in Contexts \ {x} :
          m.ctx # d /\ m # [kind |-> "HandleCacheHit", ctx |-> d]
    BY <1>20, <1>21
  <2>3. ASSUME NEW d \in Contexts \ {x} PROVE Called(d)' <=> Called(d)
    <3>1. ASSUME NEW t \in Threads
          PROVE  (\E i \in 1 .. Len(mq'[t]) : mq'[t][i].ctx = d)
                   <=> (\E i \in 1 .. Len(mq[t]) : mq[t][i].ctx = d)
      <4>1. CASE t = tx
        BY <1>8, <2>2, <4>1
      <4>2. CASE t # tx
        BY <1>6, <4>2
      <4> QED
        BY <4>1, <4>2
    <3> QED
      BY <3>1 DEF Called
  <2>4. ASSUME NEW d \in Contexts \ {x} PROVE ToldHit(d)' <=> ToldHit(d)
    <3>1. ASSUME NEW t \in Threads
          PROVE  (\E i \in 1 .. Len(mq'[t]) :
                    mq'[t][i] = [kind |-> "HandleCacheHit", ctx |-> d])
                   <=> (\E i \in 1 .. Len(mq[t]) :
                          mq[t][i] = [kind |-> "HandleCacheHit", ctx |-> d])
      <4>1. CASE t = tx
        <5>1. PICK v : v = [kind |-> "HandleCacheHit", ctx |-> d]
          OBVIOUS
        <5>2. m # v
          BY <2>2, <5>1
        <5>3. ASSUME NEW i \in 1 .. Len(mq'[tx]), mq'[tx][i] = v
              PROVE  i \in 1 .. Len(mq[tx]) /\ mq[tx][i] = v
          BY <1>8, <5>2, <5>3
        <5>4. ASSUME NEW i \in 1 .. Len(mq[tx]), mq[tx][i] = v
              PROVE  i \in 1 .. Len(mq'[tx]) /\ mq'[tx][i] = v
          BY <1>8, <5>4
        <5>5. (\E i \in 1 .. Len(mq'[tx]) : mq'[tx][i] = v)
                <=> (\E i \in 1 .. Len(mq[tx]) : mq[tx][i] = v)
          BY <5>3, <5>4
        <5> QED
          BY <4>1, <5>1, <5>5
      <4>2. CASE t # tx
        BY <1>6, <4>2
      <4> QED
        BY <4>1, <4>2
    <3> QED
      BY <3>1 DEF ToldHit
  <2> QED
    BY <2>3, <2>4
<1>10. Called(x)' /\ (ToldHit(x)' <=> action[c] = "HandleCacheHit")
  <2>1. Called(x)'
    BY <1>3, <1>8, <1>21 DEF Called
  <2>2. \A t \in Threads : \A i \in 1 .. Len(mq[t]) : mq[t][i].ctx # x
    BY <1>5 DEF Uncalled, Called
  <2>3. ASSUME action[c] = "HandleCacheHit" PROVE ToldHit(x)'
    BY <1>3, <1>8, <1>20, <2>3 DEF ToldHit
  <2>4. ASSUME ToldHit(x)' PROVE action[c] = "HandleCacheHit"
    <3>1. PICK t \in Threads : \E i \in 1 .. Len(mq'[t]) :
                 mq'[t][i] = [kind |-> "HandleCacheHit", ctx |-> x]
      BY <2>4 DEF ToldHit
    <3>2. PICK i \in 1 .. Len(mq'[t]) :
                 mq'[t][i] = [kind |-> "HandleCacheHit", ctx |-> x]
      BY <3>1
    <3>3. t = tx /\ i = Len(mq[tx]) + 1
      <4>1. mq'[t][i].ctx = x
        BY <3>2
      <4>2. t = tx
        BY <1>6, <2>2, <3>2, <4>1
      <4> QED
        BY <1>8, <2>2, <3>2, <4>1, <4>2
    <3>4. m = [kind |-> "HandleCacheHit", ctx |-> x]
      BY <1>8, <3>2, <3>3
    <3> QED
      BY <1>21, <3>4
  <2> QED
    BY <2>1, <2>3, <2>4
<1>11. \A d \in Contexts \ {x} : View(d)' = View(d)
  BY <1>6, <1>9, ViewFrame
<1>12. /\ pc[x] = "register" \/ (pc[x] \in {"waiting", "gone"} /\ x \in waiting)
       /\ ~Called(x) /\ key[x] = prev[c]
  BY <1>2, <1>5 DEF Uncalled, Joined, WaitInv, KeptInv
<1>13. Phase(x) = "waiting" /\ Phase(x)' = "called"
  BY <1>2, <1>6, <1>10, <1>12, PhaseCases, PhaseCasesNext
<1>14. Phase(c) = "answered" /\ Outcome(c) = action[c] /\ UnderKey(c) = prev[c]
  BY <1>1, PhaseCases, ViewCases DEF LockKeyOf
<1>15. UnderKey(x) = prev[c] /\ UnderKey(x)' = prev[c]
  BY <1>2, <1>6, <1>12, <1>13, ViewCases, ViewCasesNext DEF LockKeyOf
<1>16. Outcome(x)' = action[c]
  BY <1>10, <1>13, <1>21, ViewCasesNext DEF Actions
<1>17. /\ phases' = [phases EXCEPT ![x] = "called"]
       /\ unders' = [unders EXCEPT ![x] = UnderKey(x)]
       /\ outcomes' = [outcomes EXCEPT ![x] = Outcome(c)]
  BY <1>2, <1>11, <1>13, <1>14, <1>15, <1>16, OneView
<1>18. unders' = unders
  BY <1>17 DEF unders
<1>19. Lock!CallWaiter(c, x)
  BY <1>2, <1>6, <1>13, <1>14, <1>15, <1>17, <1>18, SameHeld
  DEF Lock!CallWaiter, Lock!Become, phases, unders, outcomes
<1> QED
  BY <1>2, <1>19 DEF Lock!Next

(* The erasure of an owner that has answered releases its lock.            *)
LEMMA EraseRefines ==
  ASSUME TypeOK, WaitInv, NEW c \in Contexts, EraseLock(c)
  PROVE  [Lock!Next]_Lock!vars
<1> DEFINE k == prev[c]
<1>1. /\ pc[c] = "notify" /\ k \in Keys /\ Goto(c, "done")
      /\ ~lock'[k].held /\ \A j \in Keys \ {k} : lock'[j] = lock[j]
      /\ UNCHANGED <<mq, waiting, key, prev, action>>
  BY DEF EraseLock, TypeOK, local
<1>2. HeldKeys' = HeldKeys \ {k}
  BY <1>1 DEF HeldKeys
<1>3. pc'[c] = "done" /\ \A d \in Contexts \ {c} : View(d)' = View(d)
  BY <1>1, LocalStep
<1>4. Phase(c) = "answered" /\ UnderKey(c) = k
  BY <1>1, PhaseCases, ViewCases DEF LockKeyOf
<1>5. Phase(c)' = "left" /\ UnderKey(c)' = "none" /\ Outcome(c)' = "none"
  BY <1>3, PhaseCasesNext, ViewCasesNext
<1>6. /\ phases' = [phases EXCEPT ![c] = "left"]
      /\ unders' = [unders EXCEPT ![c] = "none"]
      /\ outcomes' = [outcomes EXCEPT ![c] = "none"]
  BY <1>3, <1>5, OneView
<1>7. Lock!Release(c)
  BY <1>2, <1>4, <1>6 DEF Lock!Release, Lock!Leave, Lock!Become, Lock!NoKey,
     Lock!NoOutcome, phases, unders, outcomes
<1> QED
  BY <1>7 DEF Lock!Next

(* The message that comes resumes the waiter that was called with it.      *)
LEMMA QueueRefines ==
  ASSUME TypeOK, WaitInv, NEW t \in Threads, OnQueueReady(t)
  PROVE  [Lock!Next]_Lock!vars
<1>1. PICK x \in Contexts :
        /\ x = Head(mq[t]).ctx /\ x \in waiting /\ ThreadOf[x] = t
        /\ Called(x)
        /\ waiting' = waiting \ {x}
        /\ pc'[x] \in {"done", "gone", "stranded", "trapped"}
        /\ \A d \in Contexts \ {x} : pc'[d] = pc[d] /\ key'[d] = key[d]
        /\ \A d \in Contexts : Called(d)' <=> Called(d) /\ d # x
        /\ \A s \in Threads \ {t} : mq'[s] = mq[s]
        /\ UNCHANGED <<lock, prev, action>>
  BY QueueStep
<1>2. /\ mq'[t] = Tail(mq[t]) /\ mq[t] \in Seq(Message) /\ mq[t] # <<>>
  BY DEF OnQueueReady, TypeOK
<1>3. /\ Len(mq'[t]) = Len(mq[t]) - 1 /\ Len(mq[t]) \in Nat /\ Len(mq[t]) > 0
      /\ mq[t][1].ctx = x
      /\ \A i \in 1 .. Len(mq'[t]) : mq'[t][i] = mq[t][i + 1]
  BY <1>1, <1>2
<1>4. ASSUME NEW d \in Contexts \ {x} PROVE ToldHit(d)' <=> ToldHit(d)
  <2> DEFINE r == [kind |-> "HandleCacheHit", ctx |-> d]
  <2>1. \A i \in 1 .. Len(mq[t]) : mq[t][i] = r =>
           i - 1 \in 1 .. Len(mq'[t]) /\ mq'[t][i - 1] = r
    <3> SUFFICES ASSUME NEW i \in 1 .. Len(mq[t]), mq[t][i] = r
                 PROVE  i - 1 \in 1 .. Len(mq'[t]) /\ mq'[t][i - 1] = r
      OBVIOUS
    <3>1. mq[t][i].ctx = d
      OBVIOUS
    <3>2. i # 1
      BY <1>3, <3>1
    <3> QED
      BY <1>3, <3>2
  <2>2. \A i \in 1 .. Len(mq'[t]) : mq'[t][i] = r =>
           i + 1 \in 1 .. Len(mq[t]) /\ mq[t][i + 1] = r
    BY <1>3
  <2> HIDE DEF r
  <2>3. \A s \in Threads :
          (\E i \in 1 .. Len(mq'[s]) : mq'[s][i] = r)
            <=> \E i \in 1 .. Len(mq[s]) : mq[s][i] = r
    BY <1>1, <2>1, <2>2
  <2> QED
    BY <2>3 DEF ToldHit, r
<1>5. \A d \in Contexts \ {x} : View(d)' = View(d)
  BY <1>1, <1>4, ViewFrame
<1>6. pc[x] \in {"waiting", "gone"}
  BY <1>1 DEF WaitInv, KeptInv
<1>7. Phase(x) = "called" /\ Phase(x)' = "left"
  BY <1>1, <1>6, PhaseCases, PhaseCasesNext
<1>8. UnderKey(x)' = "none" /\ Outcome(x)' = "none"
  BY <1>7, ViewCasesNext
<1>9. /\ phases' = [phases EXCEPT ![x] = "left"]
      /\ unders' = [unders EXCEPT ![x] = "none"]
      /\ outcomes' = [outcomes EXCEPT ![x] = "none"]
  BY <1>5, <1>7, <1>8, OneView
<1>10. Lock!Resume(x)
  BY <1>1, <1>7, <1>9, SameHeld DEF Lock!Resume, Lock!Leave, Lock!Become,
     Lock!NoKey, Lock!NoOutcome, phases, unders, outcomes
<1> QED
  BY <1>10 DEF Lock!Next

(* A context that is kept by its own thread too waits as before.           *)
LEMMA RegisterRefines ==
  ASSUME TypeOK, WaitInv, NEW c \in Contexts, Register(c)
  PROVE  [Lock!Next]_Lock!vars
<1>1. /\ pc[c] = "register" /\ Goto(c, "waiting") /\ waiting' = waiting \cup {c}
      /\ UNCHANGED <<lock, mq, key, prev, action>>
  BY DEF Register, KeepContext, local
<1>2. /\ pc'[c] = "waiting"
      /\ Called(c)' <=> Called(c)
      /\ \A d \in Contexts \ {c} : View(d)' = View(d)
  BY <1>1, LocalStep
<1>3. Phase(c)' = Phase(c)
  BY <1>1, <1>2, PhaseCases, PhaseCasesNext
<1>4. ToldHit(c)' <=> ToldHit(c)
  BY <1>1 DEF ToldHit
<1>5. View(c)' = View(c)
  BY <1>1, <1>2, <1>3, <1>4 DEF View, UnderKey, Outcome, LockKeyOf
<1> QED
  BY <1>1, <1>2, <1>5, SameHeld, SameViews

(* A client that goes away while its request waits is not seen by the lock.*)
LEMMA DisconnectRefines ==
  ASSUME TypeOK, WaitInv, NEW c \in Contexts, Disconnect(c)
  PROVE  [Lock!Next]_Lock!vars
<1>1. /\ pc[c] = "waiting" /\ Goto(c, "gone")
      /\ UNCHANGED <<lock, mq, waiting, key, prev, action>>
  BY DEF Disconnect, shared, local
<1>2. c \in waiting
  BY <1>1 DEF WaitInv, KeptInv
<1>3. /\ pc'[c] = "gone"
      /\ Called(c)' <=> Called(c)
      /\ \A d \in Contexts \ {c} : View(d)' = View(d)
  BY <1>1, LocalStep
<1>4. Phase(c)' = Phase(c)
  BY <1>1, <1>2, <1>3, PhaseCases, PhaseCasesNext
<1>5. ToldHit(c)' <=> ToldHit(c)
  BY <1>1 DEF ToldHit
<1>6. View(c)' = View(c)
  BY <1>1, <1>3, <1>4, <1>5 DEF View, UnderKey, Outcome, LockKeyOf
<1> QED
  BY <1>1, <1>3, <1>6, SameHeld, SameViews

(* Every step of the filters is a step of the abstract lock or none.       *)
LEMMA StepRefines ==
  TypeOK /\ TypeOK' /\ LockInv /\ WaitInv /\ [Next]_vars => [Lock!Next]_Lock!vars
<1> SUFFICES ASSUME TypeOK, TypeOK', LockInv, WaitInv, [Next]_vars
             PROVE  [Lock!Next]_Lock!vars
  OBVIOUS
<1>a. \A c \in Contexts : action'[c] \in Actions
  BY DEF TypeOK
<1>1. ASSUME NEW c \in Contexts, OnRequest(c) PROVE [Lock!Next]_Lock!vars
  <2>1. \A d \in Contexts \ {c} : key'[d] = key[d]
    BY <1>1 DEF OnRequest, TypeOK
  <2>2. Goto(c, "get") \/ Goto(c, "lookup")
    BY <1>1 DEF OnRequest
  <2> QED
    BY <1>1, <2>1, <2>2, OutsideStep, SameHeld DEF OnRequest, shared
<1>2. ASSUME NEW c \in Contexts, Lookup(c) PROVE [Lock!Next]_Lock!vars
  <2>1. Goto(c, "done") \/ Goto(c, "trapped") \/ Goto(c, "get")
    BY <1>2 DEF Lookup, Hit, Settle
  <2> QED
    BY <1>2, <2>1, OutsideStep, SameHeld DEF Lookup, shared
<1>3. ASSUME NEW c \in Contexts, CameFirst(c) PROVE [Lock!Next]_Lock!vars
  <2>1. Goto(c, "done") \/ Goto(c, "trapped") \/ Goto(c, "lookup")
    BY <1>3 DEF CameFirst, Hit, Settle
  <2>2. \A d \in Contexts \ {c} : key'[d] = key[d]
    BY <1>3 DEF CameFirst, TypeOK
  <2> QED
    BY <1>3, <2>1, <2>2, OutsideStep, SameHeld DEF CameFirst, shared
<1>4. ASSUME NEW c \in Contexts, LockGet(c) PROVE [Lock!Next]_Lock!vars
  <2>1. Goto(c, "came_first") \/ Goto(c, "set")
    BY <1>4 DEF LockGet
  <2> QED
    BY <1>4, <2>1, OutsideStep, SameHeld DEF LockGet, shared
<1>5. ASSUME NEW c \in Contexts, Dispatch(c) PROVE [Lock!Next]_Lock!vars
  <2>1. Goto(c, "callout") \/ Goto(c, "done")
    BY <1>5 DEF Dispatch, Settle
  <2>2. pc[c] = "dispatch" /\ UNCHANGED <<lock, mq, waiting, key, prev, action>>
    BY <1>5 DEF Dispatch, shared, local
  <2>3. Goto(c, "callout") => LockKeyOf(c)' = LockKeyOf(c)
    BY <2>2 DEF LockKeyOf, Goto, TypeOK
  <2> QED
    BY <1>a, <2>1, <2>2, <2>3, OwnerStep, SameHeld
<1>6. ASSUME NEW c \in Contexts, FreshApp(c) PROVE [Lock!Next]_Lock!vars
  <2>1. Goto(c, "free") \/ Goto(c, "trapped")
    BY <1>6 DEF FreshApp
  <2>2. /\ pc[c] = "fresh" /\ UNCHANGED <<lock, mq, waiting, key, prev>>
        /\ \A d \in Contexts \ {c} : action'[d] = action[d]
    BY <1>6 DEF FreshApp, TypeOK
  <2>3. Goto(c, "free") => LockKeyOf(c)' = LockKeyOf(c)
    BY <2>2 DEF LockKeyOf, Goto, TypeOK
  <2> QED
    BY <1>a, <2>1, <2>2, <2>3, OwnerStep, SameHeld
<1>7. ASSUME NEW c \in Contexts, ResponseStatus(c) PROVE [Lock!Next]_Lock!vars
  <2>1. /\ pc[c] = "callout" /\ Goto(c, "fresh") /\ prev'[c] = key[c]
        /\ \A d \in Contexts \ {c} : key'[d] = key[d] /\ prev'[d] = prev[d]
        /\ UNCHANGED <<lock, mq, waiting, action>>
    BY <1>7 DEF ResponseStatus, SaveKey, TypeOK
  <2>2. LockKeyOf(c)' = LockKeyOf(c)
    BY <2>1 DEF LockKeyOf, Goto, TypeOK
  <2> QED
    BY <1>a, <2>1, <2>2, OwnerStep, SameHeld
<1>8. ASSUME NEW c \in Contexts,
             ResponseRefused(c) \/ ResponseError(c) \/ ResponsePanics(c)
      PROVE  [Lock!Next]_Lock!vars
  <2>1. /\ Goto(c, "free") \/ Goto(c, "done") \/ Goto(c, "trapped")
        /\ pc[c] = "callout" /\ prev'[c] = key[c]
        /\ \A d \in Contexts \ {c} : prev'[d] = prev[d]
        /\ UNCHANGED <<lock, mq, waiting, key, action>>
    BY <1>8 DEF ResponseRefused, ResponseError, ResponsePanics, SaveKey, TypeOK,
                shared, Settle
  <2>2. Goto(c, "free") => LockKeyOf(c)' = LockKeyOf(c)
    BY <2>1 DEF LockKeyOf, Goto, TypeOK
  <2> QED
    BY <1>a, <2>1, <2>2, OwnerStep, SameHeld
<1>9. ASSUME UNCHANGED <<lock, mq, waiting, pc, key, prev, action>>
      PROVE  [Lock!Next]_Lock!vars
  <2>1. \A d \in Contexts : (Called(d)' <=> Called(d)) /\ (ToldHit(d)' <=> ToldHit(d))
    BY <1>9 DEF Called, ToldHit
  <2>2. \A d \in Contexts : View(d)' = View(d)
    BY <1>9, <2>1, ViewFrame
  <2> QED
    BY <1>9, <2>2, SameHeld, SameViews
<1>10. ASSUME NEW a \in AppKeys, SingletonWrites(a) PROVE [Lock!Next]_Lock!vars
  BY <1>9, <1>10 DEF SingletonWrites, local
<1>11. CASE UNCHANGED vars
  BY <1>9, <1>11 DEF vars
<1> QED
  BY <1>1, <1>2, <1>3, <1>4, <1>5, <1>6, <1>7, <1>8, <1>10, <1>11,
     AcquireRefines, JoinRefines, RegisterRefines, FreeGetRefines, NotifyRefines, EraseRefines,
     QueueRefines, DisconnectRefines
  DEF Next, CallbackStep, Response

(* Nobody has a part in the lock at first.                                 *)
LEMMA InitRefines == Init => Lock!Init
<1> SUFFICES ASSUME Init PROVE Lock!Init
  OBVIOUS
<1>1. HeldKeys = {}
  BY DEF Init, HeldKeys, NoLock
<1>2. \A c \in Contexts : Phase(c) = "out"
  BY PhaseCases DEF Init
<1>3. \A c \in Contexts : UnderKey(c) = "none" /\ Outcome(c) = "none"
  BY <1>2, ViewCases
<1> QED
  BY <1>1, <1>2, <1>3 DEF Lock!Init, Lock!NoKey, Lock!NoOutcome

(* The filters, their shared entries, CAS loop and queues implement the    *)
(* abstract lock: who takes it, who waits for it, who is called and told   *)
(* what, for any number of threads, requests and keys.                     *)
THEOREM FiltersImplementLock == Spec => ImplementsLock
<1>1. Init => Lock!Init
  BY InitRefines
<1>2. TypeOK /\ TypeOK' /\ LockInv /\ WaitInv /\ [Next]_vars => [Lock!Next]_Lock!vars
  BY StepRefines
<1> QED
  BY <1>1, <1>2, Typing, LockInvariance, WaitInvariance, PTL
  DEF Spec, ImplementsLock, Lock!Spec
=============================================================================
