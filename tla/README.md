# TLA+ models of the 3scale cache filter and singleton service

This directory specifies the two Envoy WASM extensions of this repository: the
**cache filter**, which authorizes requests from a cache in the proxy, and the
**singleton service**, which batches usage reports to 3scale and refreshes the
cache. TLC checks the modules on small instances; TLAPS proves the most
important properties for all values of the constants.

Run everything from this directory:

    tlc -config UniqueCallout.cfg UniqueCalloutMC.tla
    tlapm UniqueCalloutProofs.tla

`PROJECT.json` lists the runs, the mutants (a plausible bug for every checked
property, which TLC must then find), the source lines of each definition, the
findings, the hazards and the theorems.

## The system

One Envoy process runs one VM of the filter per worker thread and one VM of the
singleton in the main thread. A VM is single-threaded: a callback runs to its
end. VMs share two things, both kept by the host: a key-value store with a CAS
number per key (`get_shared_data`, `set_shared_data`), and message queues
(`enqueue_shared_queue`, `dequeue_shared_queue`). A callback of one VM
interleaves with those of others at each of these calls.

| Part | State | Operations | Talks to |
| --- | --- | --- | --- |
| cache filter, one context per request (`filter/http.rs`) | request data, cache key, rate-limit info, `update_cache_from_singleton` | `on_http_request_headers`, `on_http_call_response`, `handle_cache_hit`, `handle_auth_response`, `report_to_singleton` | shared store, 3scale (authorize), singleton's queue |
| filter root (`filter/root.rs`) | thread id, configuration, `WAITING_CONTEXTS` | `on_configure`, `on_queue_ready` | its own queue, waiting contexts |
| unique callout (`unique_callout.rs`, a cargo feature; `unique_callout_dummy.rs` without it) | shared: one lock entry per cache key with owner and waitlist | `set_callout_lock`, `free_callout_lock_and_notify_waiters` | shared store, queues of the threads |
| application cache (`threescale/src/proxy.rs`) | shared: application per cache key, app_id per user_key, memory counter | get, set with CAS, remove | shared store |
| limit check (`threescale/src/utils.rs`) | none: works on a copy of the application | `add_hierarchy_to_metrics`, `limit_check_and_update_application` | application cache |
| singleton service (`service/proxy.rs`) | `cache_keys`, `report_requests`, `auth_requests` | `on_queue_ready`, `on_tick`, `on_http_call_response`, `flush_local_cache`, `update_local_cache` | message queue, 3scale (report, authorize), shared store |
| delta store (`service/deltas.rs`) | `deltas`, `memory_allocated` | `update_delta_store`, `flush_delta_store` | singleton |

What makes each part correct, and what is hard about it:

* **Unique callout.** One request per cache key calls 3scale; everyone else is
  woken exactly once, on the thread that keeps it, after the outcome is known.
  Hard: a lock-free protocol on CAS writes with a list inside the value, an
  owner whose key changes under it, failures between acquiring and freeing,
  and messages that race with the registration of the waiter.
* **Cache hit.** Racing requests do not lose or double a deduction, and each
  charge is reported once. Hard: retries on stale copies, overwrites by the
  singleton, the way out when all retries fail, and a memory counter that is
  updated after the record, with three tries of its own.
* **Limit check.** The verdict, the charge and the headers do not depend on the
  hash map's order; a renewed period contains the present. Hard: boundaries,
  missed periods, underflow.
* **Singleton and delta store.** No usage is forgotten or reported twice, the
  memory estimate that triggers flushes agrees with the store, each call is
  known until it is answered, and usage does not stay for ever. Hard: answers
  in any order, failing dispatches, several flushes in flight.
* **The whole.** A unit of usage that was let through is in one place on its way
  to 3scale's counter, and the cache, refreshed by calls that race with the
  reports, comes to agree with that counter. Hard: two ends of a network, calls
  served late, answers that overtake each other, revoked tokens.

See "Not modelled" for what is left out.

## The modules

### SharedData

The host's store, which is not in this repository, from the way the code uses
it: `Accepts` is the condition of `set_shared_data`, `NextCas` the number a
write stores. Numbers grow per key; the host's one counter would tell no more
apart, since callers compare a number only with the one now stored under the
same key. The wrap after 2^32 writes is outside the model.

### UniqueCallout

The filter with the feature `unique_callout`. `pc[c]` says where the request
`c` is in its callback, and each action is the code between two accesses of
shared state:

| Action | Code |
| --- | --- |
| `OnRequest`, `Lookup`, `CameFirst` | `on_http_request_headers` |
| `LockGet`, `Acquire`, `JoinWaitlist`, `Register` | the loop of `set_callout_lock` |
| `Dispatch` | `do_auth_call` |
| `ResponseStatus`, `FreshApp`, `ResponseRefused`, `ResponseError` | `on_http_call_response`, `handle_auth_response` |
| `ResponsePanics` | an answer without headers: the unwrap of `:status` |
| `FreeGet`, `NotifyOne`, `EraseLock` | `free_callout_lock_and_notify_waiters` |
| `OnQueueReady` | `CacheFilterRoot::on_queue_ready` |
| `Disconnect`, `SingletonWrites` | the client and the singleton |

`Idle(t)` keeps a thread from starting a callback while another runs, and from
running any after its VM was trapped. Inside `handle_cache_hit` nothing touches
the lock, so it is reduced to its verdicts here and is the subject of
`AppCache`; with it goes the moment at which a waiter woken by `HandleCacheHit`
writes the application. A waiter is in the shared waitlist (`JoinWaitlist`) before
its thread knows it (`Register`), and in between the owner may already send it a
message; `NoUnknownContext` says that the message is not looked at until the
thread knows. Left out: failures of (de)serialisation and host errors other than
a CAS mismatch.

Properties: `MutualExclusion`, `OwnerHoldsLock`, `NoUnknownContext`;
`WaitersAreKept`, by which no step loses a waiter from waitlists, notifications
and queues but the erasure of the waitlist it is on (a finding); the refinement
`ImplementsLock` (next section); and the liveness property
`EveryRequestSettles`, which says that a request settles unless one of exactly
four things happened: its lock was left held, its entry in the waitlist was
erased, it was woken for an application that is not cached, or its own VM is
trapped. The first three are findings. The trap of another VM reaches a request
only by a lock that VM held.

### CalloutLock

What the lock promises, without entries, CAS numbers and queues: per key one
owner; the others wait; a waiter is called at most once, only by the owner of
the key it waits for, after that owner has handled its answer, and is told that
owner's outcome. It has the actions `Pass`, `Acquire`, `Join`, `Answer`,
`CallWaiter`, `Release`, `Abandon` and `Resume`.

`UniqueCallout` instantiates it as `Lock` with the mapping at the end of that
module: `taken` is the set of held entries, `phase` follows `pc`, the tables of
waiters and the queues, `under` is the key a lock was taken with, also after the
cache key has changed. Taking the notification out of an owner's list and
putting it in a queue is one abstract step, `CallWaiter`. `Abandon` (an owner
that leaves a lock held) and a `Release` that forgets its waiters are part of
the abstract lock because the code does both; they are findings, not promises.

### AppCache

The default build for one application whose limit is a counter. `TryCheck`,
`TrySet`, `Refetch` and `GiveUp` are the loop of `handle_cache_hit`;
`ReportUsage` is `report_to_singleton` and its call, which ignores that the
message may not be enqueued: such a request passes, charged and `"unreported"`.
`FreshResponse` stores with CAS 0 what
a callout brought. The singleton overwrites or removes the record at any time
after it was told of it. The ghosts `base` and `charged` remember what the
record was last overwritten with and who was charged since, for
`QuotaConserved`.

Whoever stores a record measures the old one before the write and adds the
difference to the shared memory counter after it: `CountGet`, `CountInit` and
`CountSet` are `set_application_to_cache` and `update_shared_memory_size`, with
three tries and the clamp at the initial size. `RegisterQueue` and `InitCounter`
are the start of the singleton, which may happen at any time. `MemoryFollows`
says that the counter is the initial size plus the stored size plus the changes
being counted, unless the ghost `skewed` says that one of its five known
inaccuracies has happened. One of these is the clamp of `proxy.rs:169`, which
the comment there takes for impossible: with two unguarded writers that have
measured the same record, it is reached.

### AtomicHit

What a hit promises, without copies, CAS numbers and retries: the hits left are
a counter, and `Charge` finds enough of them and takes its own in one step. Only
a request that found no record and asked 3scale (`Miss`, `Fetch`) may put a new
record in its place (`Renew`); the singleton may at any time (`Replace`); who is
charged is reported (`Report`) unless the queue does not take its message, and a
request that ends otherwise (`End`: refused,
failed, given up) is neither.

`AppCache` instantiates it as `Atomic`. The record is the stored one without its
size and CAS, and `Phase` follows `pc`; a request at its check without a CAS has
brought its copy from 3scale. The accepted write is the charge, and the lookups,
the checks, the retries and the accounting of memory are stutters. The property
is `ImplementsAtomicHit`: a deduction is made from what is stored at that moment,
by a request that what is stored then suffices for, however old the copy it was
computed from.

### LimitCheck

The check of one request against several limits. A step of the loop takes any
metric not yet visited. `ToReport` is the conversion of what 3scale reports,
modulo `Word`; `Renewed` moves an expired period; `Exceeds`, `Charge` and
`Tighter` are the comparison, the subtraction and the choice of the header. The
phase `panic` stands for each unwrap, overflow check and borrow that can fail.

### Singleton

The singleton service with its delta store. Each callback is one action, since
it runs to its end and nobody else reads its tables. A flush is part of the
callback that triggers it: `FlushLocalCache` empties the store and makes one
report call per delta key and one authorize call per cache key, any of which
may fail to dispatch. A call's token is the number of its flush, its kind and
its key, which is unique. The answers are the branches of
`on_http_call_response`: no headers (the unwrap of `:status` traps the VM), 504,
no body, a body that is accepted, refused or unreadable; the code tells report
and authorize answers apart by the presence of a body, and so does the model,
entries left behind in the tables included. The ghosts `received`, `answered`
and `lost` count usage for `UsageConserved`. A name is the sequence of its
parts between underscores, since `report()` splits the delta key at underscores.

The branch of `on_queue_ready` for `update_cache_from_singleton` is left out:
no filter ever sends a message with the flag (finding below).

### Sums

`Total(f, S)`, the sum of `f[x]` over a set. The properties about usage, memory
and quota are stated with it, so that the facts about sums are proved once.

### System

Filter, singleton, network and the counters of 3scale in one module. A cache hit
is one step here, and so is a callback of the singleton; both are taken apart
in the modules above. New is the other end: a call is sent, served later and in
any order, and answered, lost or answered too late some time after that.

| Action | Code |
| --- | --- |
| `Hit`, `GiveUp` | `handle_cache_hit` and `report_to_singleton` |
| `Miss`, `Fetched` | `do_auth_call`, `handle_auth_response` |
| `OnQueueReady`, `OnTick`, `Flush` | the singleton's callbacks of these names, `flush_local_cache`, `update_local_cache` |
| `PassAndReport` | `report_to_singleton`, which may fail to enqueue the message |
| `Refreshed`, `Removed`, `Ignored`, `Timeout`, `NoHeaders` | `on_http_call_response`, `handle_auth_response`, `handle_auth_failure`, `handle_report_response` of the singleton |
| `Count`, `Accept`, `Refuse`, `Revoke`, `Vanish` | 3scale and the network (external) |

An answer has the raw difference between limit and counter. The subtraction in
`u64` is made where the code makes it (`LeftHits`): when 3scale has counted more
than the limit, a build with overflow checks panics there, and one without wraps.
`Builds` says which of the two there are; with both, each overflow may do either,
which covers every behaviour of each build. A panic in the filter ends its
request. A panic in the singleton, or an answer without headers (`NoHeaders`),
sets `crashed`: from then on no callback of the singleton runs, while requests
are still served from the cache and 3scale still serves what was sent.

`LedgerBalances`: what was let through is in a message, the delta store, a
report not yet served, the counter, or among what is known to be lost (a give-up,
a message that is not enqueued, a failed dispatch, a vanished or refused report),
once. A report that times out and is served late is not counted twice, since the
singleton never sends it again. `QuotaNotLost`: whatever overwrites and overtaking
answers happen, the cache never withholds quota. It may hand some out twice: a
refresh that 3scale served before the report of the same flush does not contain
that usage. `CacheConverges`: once the traffic ends, every report is served or
known to be lost; and unless the singleton has trapped, nothing waits to be
reported, and the cache agrees with the counter.

The agreement is about the applications that the singleton has a cache key for
and that are within their limit. Without the first restriction TLC refutes it:
when an older acceptance arrives after a refusal, the application is stored again
without a cache key, and nothing refreshes it until a filter reports on it. Beyond
the limit there is nothing to agree on: a wrapped difference is a huge quota, not
what 3scale has (finding `exhausted_limited`).

Assumed: one service, one metric with an endless period, `failure_mode_deny`,
the flush mode `Default`, and a 3scale that refuses only revoked tokens. The
answers that a status or a missing body makes unusable, and the panics of a filter
on an answer without headers, end a call as a timeout does (`Timeout`).

## The runs

| Run | Instance | Shows |
| --- | --- | --- |
| `callout` | 3 requests on 2 threads, one user_key and one app_id of one application, every choice of keys | all properties of `UniqueCallout`, with liveness, and that it implements `CalloutLock` |
| `limit_check` | 2 metrics, all requests of 0 to 2 hits, full, long, short and endless periods, 6 times, release build | all properties of `LimitCheck` |
| `app_cache` | 2 requests of 1 and 2 hits on 2 threads, quota up to 3, 2 tries, 2 writes of the singleton, records of 2 sizes | all properties of `AppCache`, and that it implements `AtomicHit` |
| `singleton` | 2 messages out of 4 (2 applications, 2 tokens, 2 metrics), 1 idle tick, all 3 flush modes | all properties of `Singleton`, with liveness |
| `system` | 3 requests for one application over 2 tokens, limit 1, 3 calls at a time, 1 fault or revocation, overflows that panic and that wrap | all properties of `System`, with liveness |

Why the bounds are enough. In `callout`, two requests on one thread and one on
another give every pair of a same-thread and a cross-thread race, an owner with
two waiters, and two locks (user_key and app_id) for one application. In
`app_cache` a request meets another request and two writes of the singleton, so
it can lose its CAS twice, which is what the give-up path needs with two tries;
requests of different hits tell who was charged, records of two sizes tell whose
change was counted, and three writers suffice to lose the counter three times.
In `limit_check` the times reach beyond two missed periods. In `singleton` two
messages reach each case of the delta store (new service, application, metric;
known metric), a flush exactly at the capacity, and up to three flushes in
flight together. In `system` two requests that miss the cache together exceed
the limit of one, so that a third is refused for want of quota, or meets a
counter beyond the limit and overflows; the third slot lets answers of two
flushes overtake each other, and holds the two reports and the authorize call of
one flush. Bounds named in the modules (`Quota`, `Sizes`, `MaxWrites`,
`MaxMessages`, `MaxTicks`, `MaxRequests`, `MaxFaults`, `Slots`) only limit how
often the environment acts, and how many calls are under way.

`CHECK_DEADLOCK FALSE` is set where a system stops when its last request has
settled and the bounded environment has nothing left to do. `System` stops only
when its singleton has trapped; until then it ticks for ever.

### Fairness

`UniqueCallout`: a started callback runs on (weak fairness of its steps). The
host answers every call, if only with the 504 of its timeout, and delivers
`on_queue_ready` for every message; both wait for their thread to be between
two callbacks, which it is again and again, and Envoy's event loop starves
none of them, so these are strongly fair. Arriving requests, disconnecting
clients and the singleton are under no obligation.

`Singleton`: until its VM traps, queued messages are delivered and ticks go on for
ever; calls are answered or time out. `System`: the same, with each call making
progress on its own, which is served or lost, and answered or timed out (weak
fairness per slot). A trapped VM is not restarted, so both models have `~crashed`
in the guards of its callbacks, and promise nothing of them after a trap. Requests,
faults, revocations and traps need never happen.

### Findings

Seven runs show a disagreement between the code and what the repository says
of it; each checks one property and TLC prints the steps.

| Run | What happens |
| --- | --- |
| `lock_leak` | `Authorization::Error` returns before the lock is freed (`http.rs:543`); the lock of that key is held from then on |
| `lost_waiter` | a waiter that joins between the owner's read of the waitlist and its erasure is forgotten (`unique_callout.rs:276-324`) |
| `stranded_waiter` | a waiter woken for an application that is not cached is neither resumed nor answered (`root.rs:195`) |
| `window_adjusted` | a period shorter than its nominal length is still over after its renewal, and the unwrap of the reset time panics (`utils.rs:39-76`) |
| `parents_counted` | a metric with a parent panics in `add_hierarchy_to_metrics` (`utils.rs:96`) |
| `exhausted_limited` | a usage above its limit underflows and opens the limit (`http.rs:403`) |
| `update_delegated` | a request that gives up never asks the singleton (`http.rs:345`) |

A lock is also left held when the callout cannot be dispatched
(`cache-filter/src/utils.rs:99`); `EveryRequestSettles` counts both under
`Orphaned`.

## The proofs

`UniqueCalloutProofs` proves `TypeOK`, `MutualExclusion` and `OwnerHoldsLock` for
any threads, requests and keys. Neither of the last two is inductive alone.
`LockInv` adds:

* `CasIdentifiesValue`: a CAS number that was read and is still stored stands for
  the value that was read. It follows from the host's numbering, given the shape
  below, and is what a write with CAS relies on.
* `CasShape`: CAS 1 is never stored, and a key never written is not held. Hence
  a write with CAS 1 succeeds only as the first.
* `SnapshotNotNewer`: what a context about to write has read is not newer than
  what is stored, and itself has that shape.

The step that matters is `Acquire`: the write was accepted, so what the context
read (not held) is what it replaces, so by `OwnerHoldsLock` nobody owned the
lock. Every other write of an entry raises its CAS above all earlier reads
(`WriteKeepsSnapshots`), and all other steps are covered by two lemmas on steps
that write no lock. Assumptions: user keys and app keys are disjoint, and each
request has a thread and each user_key an application.

`CalloutLockProofs` builds on it. `WaitInv` says where a waiter is: in the
waitlist of one held lock, in the notifications of one owner, or in one message
of its own thread's queue, in one of these and there once; and that whoever is
listed is waiting. It is inductive only together with `LockInv`: a write that
appends a waiter or changes an owner must not have been computed from an older
waitlist. From it follow `NoUnknownContext` (`MessagesFindTheirContext`),
`WaitersAreKept` (`OnlyErasureForgets`), for which each accepted write of an
entry is compared with the entry it replaces, and the refinement
`ImplementsLock` (`FiltersImplementLock`): each step of the filters is mapped to
the one abstract step it takes, or to a stutter.

`LimitCheckProofs` proves all properties of the run `limit_check` for all
metrics, limits, times and word sizes: `TypeOK`, `VerdictOrderFree`,
`ChargedExactly`, `WindowCoversNow`, `HeaderIsTightest` and `PanicsExplained`. The
invariant `Progress` separates the metrics the loop has visited (charged once,
in a renewed period, having had their hits left) from the rest (as they were
read); `HeaderOfSeen` says that the header so far is that of a visited metric
with the smallest limit. The arithmetic of renewal is in `RoundDown`,
`RenewedPeriod` and `OverAfterRenewal`. Assumptions: a period does not end
before it starts, numbers are naturals, `Word` is positive.

`AppCacheProofs` proves `TypeOK` and `ChargedIsReported` for any requests, hits,
tries and writes, from `CacheInv`: who writes has the hits and a try to spare
(`MayWrite`, by which no record goes below zero); a copy whose CAS is the
record's is the record (`CopyIsCurrent`); a message is the last thing its request
does (`ReportsAreFinal`); a charge is on its way to a message, or the queue has not
taken it (`ChargesAreUnderWay`). What the sums below rest on is `GuardedWritesDeduct`: a
write with a CAS that the host accepts takes its request's hits from exactly the
record it replaces, and counts the change of size it makes. `HitsAreAtomic` is
the refinement `ImplementsAtomicHit`, one lemma per group of steps. It needs
`AtomicInv`, by which a record that is present never has CAS 0: otherwise a
request that has read it could not be told from one that asked 3scale, and would
overwrite it. Assumptions, here and for the sums: the singleton is not a request,
each request has a thread, numbers and hits are naturals.

`SumTheorems` proves about `Total` that it is 0 for the empty set and grows by the
summand of a new element, what a change of one summand does, that a bijection
preserves it and that it is additive. A fold is a recursive function, which the
logic takes to be a `CHOOSE` of one that satisfies the equation, so its existence
comes first: `AdditiveExists` builds a function that adds up in any order, one
element at a time. The theorems on induction of the library take an operator and
cannot be used; `SetInduction` speaks of a set of sets instead, and follows from
strict inclusion being well-founded on the subsets of a finite set.

`AppCacheSumProofs` proves `QuotaConserved` and `MemoryFollows`. `SumInv` adds to
`CacheInv` the two sums, that they are over finite sets (the requests may be
infinitely many, those charged so far are not), and `ReadIsCurrent`: a reading of
the memory counter whose CAS is still the counter's is the counter. The step that
matters is an accepted write: it moves its hits from the record into `charged`,
or its change of size from the record into what is pending, in one; the update of
the counter takes it from there.

`SingletonProofs` proves all safety properties of the run `singleton`, for any
messages, sizes, number of flushes under way and order of answers:

* `CallsTracked` from `TablesInv`: entries are of their own kind and of earlier
  flushes, so that a flush disturbs none of them and an answer removes at most
  its own.
* `TypeOK` from `TypeInv`: the store and the reports under way are finite maps of
  usage of known applications under known keys.
* `MemoryMatches` from `IncreaseIsExact`: what `delta_increase` returns is the
  growth of the store in each of its cases (new service, application, metric, or
  none of them).
* `UsageConserved`, unit by unit of service, token, application and metric: a
  message adds what it carries (`UpdateAddsTold`), a flush moves the store into
  reports or, where a dispatch fails, into what is lost (`FlushConserves`), an
  answer takes one report out (`AnswerConserves`).

`UsageConserved` has the hypothesis `OnePart`: service ids and tokens have no
underscore. It is needed, since the delta key joins the two with an underscore
and `report()` splits it there: the usage of `a_b` under `c` and that of `a` under
`b_c` would be reported as one (hazard at `report.rs:45`). The inputs of the run
satisfy it. The other assumptions: sizes are naturals, and a message has finitely
many metrics.

`SystemProofs` proves the safety properties of `System`, `TypeOK`,
`LedgerBalances` and `QuotaNotLost`, for any tokens, applications, limits and
slots, and for either build. `SystemInv` adds `CallIsConsistent`: only reports carry
usage or are abandoned, and the answer to another call has at least what was not
yet passed, and no more than the limit. This is why a refresh withholds no quota,
however late it arrives: the ledger balances, so 3scale had counted no more than
had been passed when it served the call, and what is passed only grows. For the
ledger, each step moves usage from one summand to another; a message that is not
enqueued is `UsageReportedOrLost`. The limit is below the word size, and by
`WhatRemains` the difference taken in `u64` is then never less than the true one
(it is more where 3scale has counted above the limit). Assumptions: tokens and slots
are finite, there is an application and a token, numbers are naturals.

Only model-checked are `EveryRequestSettles`, `UsageIsFlushed` and
`CacheConverges`, liveness under fairness, which the prover does not treat, and
the seven runs that find a violation. All other checked properties are theorems.

## Not modelled

* Statistics, logging: written and never read back.
* Pseudo random numbers: draw one thread id at start-up. Thread ids are taken
  to be distinct; that equal ones share a queue is listed as a hazard.
* Parsing of headers and formatting of requests: without state. The split of a
  delta key at underscores, which decides where usage goes, is in `Singleton`.
* Configuration and start-up of the filter root, before any request.
* The wrap of the host's CAS counter, and its errors other than a CAS mismatch and a
  message that is not enqueued.
* The eviction of cached applications at `max_shared_memory_bytes`, which
  `docs/CACHE.md` describes: there is no such code. The memory counter is kept
  (`AppCache`) and decides nothing.
* The key of the user_key mapping, which lacks the service: that two services
  share it is visible in the key itself, and listed as a hazard.
* The `threescale-wasm-auth` submodule (empty here), the integration tests,
  deployments and benchmarks (read as documentation).

## Plan

Done, in this order: `UniqueCallout`, `LimitCheck`, `AppCache`, `Singleton`
with their properties, mutants and first proofs; the trap of a VM; `CalloutLock`
and the refinement with its proof; the shared memory counter; `System`; the
proofs about `AppCache`, `Singleton` and the rest of `LimitCheck`; `Sums` and the
proofs of all properties that are sums; `AtomicHit` and the refinement with its
proof.

Left:

1. Two services in `UniqueCallout`, which would show the shared user_key mapping.
2. `Hit` of `System` charges in one step, as `AtomicHit` does; that the two agree
   is seen by comparing them, since `System` has applications and tokens besides.
   A refinement of `AtomicHit` by `System`, for each application, would state it.
