---------------------------- MODULE LlmScheduler ----------------------------
(***************************************************************************)
(* Admission to the pool of "LLM cores" (crates/kernel/src/llm_sched.rs).  *)
(*                                                                         *)
(* Every request runs acquire_inner as a task of its own.  The scheduler's *)
(* state is protected by a mutex that is taken and dropped several times   *)
(* during one acquisition, so one action below is one critical section or  *)
(* one suspension point:                                                   *)
(*                                                                         *)
(*   idle --Register--> loop --Look--> recheck --Admit--> running          *)
(*                        ^  \            |                  |             *)
(*                        |   v           v               Release          *)
(*                        +-- wait <------+                  v             *)
(*                              \--Cancel--> notify <--------+             *)
(*                                             \--Notify--> idle           *)
(*                                                                         *)
(* The order of `waiters' is the order of the sequence numbers (the code   *)
(* pushes at the back under the lock and removes in place), so the         *)
(* sequence number of a waiter is its position.  `age' counts the whole    *)
(* seconds since registration, saturating where the code saturates.        *)
(***************************************************************************)
EXTENDS Integers, FiniteSets, Sequences, SequencesExt

CONSTANTS
  Requests,     \* the concurrent callers of acquire_cancellable
  Nice,         \* Nice[r]: the nice value the caller passes
  Cores,        \* SchedInner.cores
  MaxWaiters,   \* SchedInner.max_waiters
  MinNice,      \* the floor of the aged priority (-20)
  MaxAge        \* the seconds of aging that count (39)

ASSUME LlmConstants ==
  /\ Cores \in Nat \ {0}
  /\ MaxWaiters \in Nat \ {0}
  /\ MinNice \in Int
  /\ MaxAge \in Nat
  /\ Nice \in [Requests -> Int]

\* Nice values span at most MaxAge steps above the floor: 19 - 39 = -20.
\* Only the liveness property needs it.
ASSUME AgingReachesFloor ==
  \A r \in Requests : MinNice <= Nice[r] /\ Nice[r] - MaxAge <= MinNice

VARIABLES
  inFlight,   \* SchedInner.in_flight
  waiters,    \* SchedInner.waiters, in the order of Waiter.seq
  age,        \* whole seconds since Waiter.enqueued_at
  pc          \* where each caller is in acquire_inner or in its slot

vars == <<inFlight, waiters, age, pc>>

States == {"idle", "loop", "recheck", "wait", "running", "notify"}

Waiting == Range(waiters)

Position(r) == CHOOSE i \in DOMAIN waiters : waiters[i] = r

Init ==
  /\ inFlight = 0
  /\ waiters = <<>>
  /\ age = [r \in Requests |-> 0]
  /\ pc = [r \in Requests |-> "idle"]

-----------------------------------------------------------------------------

\* Mutant: no aging.
EffectiveNiceUnaged(r) == Nice[r]

\* The aged priority of a waiter: one better for every second it waited.
EffectiveNice(r) ==
  IF Nice[r] - age[r] < MinNice THEN MinNice ELSE Nice[r] - age[r]

\* Mutant: among equals the latest arrival is preferred.
PreferredLifo(r) ==
  /\ r \in Waiting
  /\ \A q \in Waiting \ {r} :
       \/ EffectiveNice(r) < EffectiveNice(q)
       \/ EffectiveNice(r) = EffectiveNice(q) /\ Position(r) > Position(q)

\* LlmScheduler::preferred: least effective nice, then least sequence number.
Preferred(r) ==
  /\ r \in Waiting
  /\ \A q \in Waiting \ {r} :
       \/ EffectiveNice(r) < EffectiveNice(q)
       \/ EffectiveNice(r) = EffectiveNice(q) /\ Position(r) < Position(q)

\* The first critical section of acquire_inner; a full queue is an error
\* returned to the caller, which leaves the state as it was.
Register(r) ==
  /\ pc[r] = "idle"
  /\ Len(waiters) < MaxWaiters
  /\ waiters' = Append(waiters, r)
  /\ age' = [age EXCEPT ![r] = 0]
  /\ pc' = [pc EXCEPT ![r] = "loop"]
  /\ UNCHANGED inFlight

\* The snapshot at the head of the loop: the caller goes on to the re-check
\* when a core is free and it is the preferred waiter, and to the wait
\* otherwise.  The lock is dropped in between.
Look(r) ==
  /\ pc[r] = "loop"
  /\ pc' = [pc EXCEPT ![r] =
              IF inFlight < Cores /\ Preferred(r) THEN "recheck" ELSE "wait"]
  /\ UNCHANGED <<inFlight, waiters, age>>

\* Mutant: the second critical section trusts the snapshot.
RecheckTrusting(r) ==
  /\ pc[r] = "recheck"
  /\ waiters' = RemoveAt(waiters, Position(r))
  /\ inFlight' = inFlight + 1
  /\ pc' = [pc EXCEPT ![r] = "running"]
  /\ UNCHANGED age

\* The second critical section: only the free core and the registration are
\* checked again, not the preference.
Recheck(r) ==
  /\ pc[r] = "recheck"
  /\ IF inFlight < Cores /\ r \in Waiting
       THEN /\ waiters' = RemoveAt(waiters, Position(r))
            /\ inFlight' = inFlight + 1
            /\ pc' = [pc EXCEPT ![r] = "running"]
       ELSE /\ pc' = [pc EXCEPT ![r] = "wait"]
            /\ UNCHANGED <<inFlight, waiters>>
  /\ UNCHANGED age

\* The 25 ms sleep of the select, or of the timeout, elapses.
Timeout(r) ==
  /\ pc[r] = "wait"
  /\ pc' = [pc EXCEPT ![r] = "loop"]
  /\ UNCHANGED <<inFlight, waiters, age>>

\* Mutant: a cancelled waiter stays registered.
CancelLeaky(r) ==
  /\ pc[r] = "wait"
  /\ pc' = [pc EXCEPT ![r] = "notify"]
  /\ UNCHANGED <<inFlight, waiters, age>>

\* The cancellation token fires, or the future is dropped at its only await:
\* LlmWaitRegistration::drop removes the waiter, then notifies.
Cancel(r) ==
  /\ pc[r] = "wait"
  /\ waiters' = RemoveAt(waiters, Position(r))
  /\ pc' = [pc EXCEPT ![r] = "notify"]
  /\ UNCHANGED <<inFlight, age>>

\* LlmCoreSlot::drop, its critical section; the notification comes after it.
Release(r) ==
  /\ pc[r] = "running"
  /\ inFlight' = IF inFlight = 0 THEN 0 ELSE inFlight - 1
  /\ pc' = [pc EXCEPT ![r] = "notify"]
  /\ UNCHANGED <<waiters, age>>

\* Notify::notify_waiters wakes the callers that are suspended now and stores
\* no permit: a caller between Look and its wait misses it.
NotifyWaiters(r) ==
  /\ pc[r] = "notify"
  /\ pc' = [q \in Requests |->
              IF q = r THEN "idle"
              ELSE IF pc[q] = "wait" THEN "loop" ELSE pc[q]]
  /\ UNCHANGED <<inFlight, waiters, age>>

\* A second passes for every registered waiter.
Tick ==
  /\ \E r \in Waiting : age[r] < MaxAge
  /\ age' = [r \in Requests |->
               IF r \in Waiting /\ age[r] < MaxAge THEN age[r] + 1 ELSE age[r]]
  /\ UNCHANGED <<inFlight, waiters, pc>>

Next ==
  \/ \E r \in Requests :
       \/ Register(r) \/ Look(r) \/ Recheck(r) \/ Timeout(r)
       \/ Cancel(r) \/ Release(r) \/ NotifyWaiters(r)
  \/ Tick

\* Tasks are polled, sleeps elapse, time passes, and an admitted request ends
\* (the executor bounds a provider call with a timeout and drops its slot).
\* Nothing forces a caller to register or a token to be cancelled.
Fairness ==
  /\ \A r \in Requests :
       /\ WF_vars(Look(r)) /\ WF_vars(Recheck(r)) /\ WF_vars(Timeout(r))
       /\ WF_vars(Release(r)) /\ WF_vars(NotifyWaiters(r))
  /\ WF_vars(Tick)

Spec == Init /\ [][Next]_vars
FairSpec == Spec /\ Fairness

-----------------------------------------------------------------------------

TypeOK ==
  /\ inFlight \in Nat
  /\ waiters \in Seq(Requests)
  /\ age \in [Requests -> 0..MaxAge]
  /\ pc \in [Requests -> States]

Running == {r \in Requests : pc[r] = "running"}

\* The counter and the slots handed out agree, and never exceed the pool: no
\* core is leaked by a cancellation that races an admission, and none is
\* freed twice (llm_sched.rs, the re-check and the two Drop handlers).
CoreAccounting == inFlight = Cardinality(Running) /\ inFlight <= Cores

\* A caller is in the queue exactly while it is inside the loop, and once:
\* an admitted, cancelled or refused request leaves no registration behind.
RegisteredOnce ==
  /\ \A i, j \in DOMAIN waiters : waiters[i] = waiters[j] => i = j
  /\ \A r \in Requests : r \in Waiting <=> pc[r] \in {"loop", "recheck", "wait"}

\* The queue never outgrows its limit.
QueueBounded == Len(waiters) <= MaxWaiters

\* An earlier waiter is at least as old as a later one.
AgesOrdered ==
  \A j \in DOMAIN waiters : \A i \in 1..(j - 1) : age[waiters[i]] >= age[waiters[j]]

\* However stale the snapshot of a caller on its way to the re-check, every
\* request queued before it has a worse nice value: what the snapshot shows
\* can only be undone by requests that arrive later.
StaleSnapshotSound ==
  \A j \in DOMAIN waiters : pc[waiters[j]] = "recheck" =>
    \A i \in 1..(j - 1) : Nice[waiters[i]] > Nice[waiters[j]]

\* The inductive invariant behind CoreAccounting and NoOvertaking.
IInv ==
  /\ TypeOK /\ RegisteredOnce /\ QueueBounded
  /\ IsFiniteSet(Running) /\ CoreAccounting
  /\ AgesOrdered /\ StaleSnapshotSound

\* A waiter is never overtaken by a later one of the same or a worse nice
\* value, although the re-check does not look at the preference again and
\* the snapshot it acts on may be stale.
NoOvertaking ==
  [][\A r \in Requests :
       pc[r] # "running" /\ pc'[r] = "running" =>
         \A i \in 1..(Position(r) - 1) : Nice[waiters[i]] > Nice[r]]_vars

\* Aging: a registered request is admitted in the end (or withdrawn by its
\* own cancellation), whatever better requests keep arriving.
EventuallyAdmitted ==
  \A r \in Requests :
    pc[r] = "loop" ~> pc[r] \in {"running", "notify"}

=============================================================================
