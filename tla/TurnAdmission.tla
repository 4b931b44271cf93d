---------------------------- MODULE TurnAdmission ----------------------------
(***************************************************************************)
(* Admission of whole agent turns (crates/kernel/src/cfs.rs) and the way   *)
(* the kernel uses it: a turn registers as a contender, waits until a slot *)
(* is free and it is the preferred waiter, runs, is charged for its tokens *)
(* and gives the slot back (lib.rs, send_message_inner and                 *)
(* resume_agent_from_checkpoint_inner).                                    *)
(*                                                                         *)
(* One action is one critical section or one suspension point.  Two locks  *)
(* are involved and never held together: the state of TurnAdmission, and   *)
(* the CfsScheduler that ranks contenders.  So a turn ranks a snapshot of  *)
(* the waiters, and enters later, under the first lock again.              *)
(*                                                                         *)
(* An agent has one turn at a time (the executor mutex), so a turn is      *)
(* named by its agent, and agents by their pid, which breaks ties.  The    *)
(* kernel enqueues every agent in class Normal with nice 0; the other      *)
(* classes are unreachable and left out, and so are the counters.  The     *)
(* order of `waiters' is the order of the sequence numbers.                *)
(***************************************************************************)
EXTENDS Integers, FiniteSets, Sequences, SequencesExt, FiniteSetsExt

CONSTANTS
  Agents,         \* pids
  MaxConcurrent,  \* AdmissionInner.max_concurrent
  MaxWaiters,     \* AdmissionInner.max_waiters
  Threshold,      \* starvation_threshold, in ticks
  Nices,          \* nice values that set_nice may ask for
  Tokens,         \* tokens that a turn may use
  MaxVruntime,    \* bound on virtual runtimes
  Resumers        \* pids whose turns may be resumed from a checkpoint

ASSUME TurnConstants ==
  /\ Agents \subseteq Nat
  /\ MaxConcurrent \in Nat \ {0} /\ MaxWaiters \in Nat \ {0} /\ Threshold \in Nat \ {0}
  /\ Nices \subseteq -20..19 /\ 0 \in Nices
  /\ Tokens \subseteq Nat /\ MaxVruntime \in Nat /\ Resumers \subseteq Agents

VARIABLES
  runnable,      \* pids in CfsScheduler.runqueue
  stopped,       \* pids that were dequeued; a pid is not used again
  vruntime,      \* CfsEntry.vruntime
  nice,          \* CfsEntry.nice
  min_vruntime,  \* CfsScheduler.min_vruntime
  running,       \* AdmissionInner.running
  waiters,       \* AdmissionInner.waiters
  age,           \* of a waiter: time since enqueued_at, up to the threshold
  pc,            \* where each turn is
  snapshot,      \* the waiters that the turn saw
  owed           \* tokens of a resumed turn that are not charged yet

cfs       == <<runnable, stopped, vruntime, nice, min_vruntime>>
admission == <<running, waiters, age>>
vars      == <<runnable, stopped, vruntime, nice, min_vruntime, running, waiters, age,
               pc, snapshot, owed>>

Waiting == Range(waiters)
Position(a) == CHOOSE i \in DOMAIN waiters : waiters[i] = a

Init ==
  /\ runnable = {} /\ stopped = {}
  /\ vruntime = [a \in Agents |-> 0]
  /\ nice = [a \in Agents |-> 0]
  /\ min_vruntime = 0
  /\ running = 0 /\ waiters = <<>>
  /\ age = [a \in Agents |-> 0]
  /\ pc = [a \in Agents |-> "idle"]
  /\ snapshot = [a \in Agents |-> <<>>]
  /\ owed = [a \in Agents |-> 0]

-----------------------------------------------------------------------------
(* CfsScheduler.                                                           *)

\* Linux's sched_prio_to_weight, from nice -20 to nice 19.
Weights == <<88761, 71755, 56483, 46273, 36291, 29154, 23254, 18705, 14949, 11916,
             9548, 7620, 6100, 4904, 3906, 3121, 2501, 1991, 1586, 1277,
             1024, 820, 655, 526, 423, 335, 272, 215, 172, 137,
             110, 87, 70, 56, 45, 36, 29, 23, 18, 15>>

NiceToWeight(n) == Weights[n + 21]

\* A new agent starts at the floor.
Enqueue(a) ==
  /\ a \notin runnable \cup stopped
  /\ runnable' = runnable \cup {a}
  /\ vruntime' = [vruntime EXCEPT ![a] = min_vruntime]
  /\ UNCHANGED <<stopped, nice, min_vruntime, admission, pc, snapshot, owed>>

\* The agent is stopped or killed, whatever its turn is doing.
Dequeue(a) ==
  /\ a \in runnable
  /\ runnable' = runnable \ {a} /\ stopped' = stopped \cup {a}
  /\ vruntime' = [vruntime EXCEPT ![a] = 0] /\ nice' = [nice EXCEPT ![a] = 0]
  /\ UNCHANGED <<min_vruntime, admission, pc, snapshot, owed>>

\* Mutant: a new priority is a new entry.
UpdateNiceAfresh(a) ==
  /\ a \in runnable
  /\ \E n \in Nices : n # nice[a] /\ nice' = [nice EXCEPT ![a] = n]
  /\ vruntime' = [vruntime EXCEPT ![a] = min_vruntime]
  /\ UNCHANGED <<runnable, stopped, min_vruntime, admission, pc, snapshot, owed>>

\* set_nice keeps the virtual runtime.
UpdateNice(a) ==
  /\ a \in runnable
  /\ \E n \in Nices : n # nice[a] /\ nice' = [nice EXCEPT ![a] = n]
  /\ UNCHANGED <<runnable, stopped, vruntime, min_vruntime, admission, pc, snapshot, owed>>

\* account_tokens.  The new floor is the least virtual runtime of the others.
AccountTokens(a, tokens) ==
  LET v == vruntime[a] + (tokens * 1024) \div NiceToWeight(nice[a])
      others == {vruntime[b] : b \in runnable \ {a}}
  IN IF a \in runnable
       THEN /\ v <= MaxVruntime
            /\ vruntime' = [vruntime EXCEPT ![a] = v]
            /\ min_vruntime' = IF v <= min_vruntime THEN min_vruntime
                               ELSE IF others = {} THEN v ELSE Min(others)
       ELSE UNCHANGED <<vruntime, min_vruntime>>

\* Mutant: the contender with the highest virtual runtime.
PickAmongHighest(candidates) ==
  CHOOSE a \in candidates : \A b \in candidates \ {a} :
    vruntime[a] > vruntime[b] \/ (vruntime[a] = vruntime[b] /\ a < b)

\* pick_among: the order of the run queue.
PickAmong(candidates) ==
  CHOOSE a \in candidates : \A b \in candidates \ {a} :
    vruntime[a] < vruntime[b] \/ (vruntime[a] = vruntime[b] /\ a < b)

-----------------------------------------------------------------------------
(* TurnAdmission::acquire_inner.                                           *)

\* The turn registers; a full queue is an error that changes nothing.
Register(a) ==
  /\ pc[a] = "idle" /\ a \in runnable
  /\ Len(waiters) < MaxWaiters
  /\ waiters' = Append(waiters, a)
  /\ pc' = [pc EXCEPT ![a] = "loop"]
  /\ UNCHANGED <<cfs, running, age, snapshot, owed>>

\* Mutant: no starvation escape.
OverdueNever == {}

\* The positions of waiters that reached the threshold.
Overdue == {i \in DOMAIN waiters : age[waiters[i]] >= Threshold}

\* The turn looks at the waiters if a slot is free.  The oldest overdue one
\* is preferred; without any, the snapshot must be ranked.
Look(a) ==
  /\ pc[a] = "loop"
  /\ \/ /\ running = MaxConcurrent
        /\ pc' = [pc EXCEPT ![a] = "wait"]
        /\ UNCHANGED snapshot
     \/ /\ running < MaxConcurrent /\ Overdue # {}
        /\ pc' = [pc EXCEPT ![a] = IF waiters[Min(Overdue)] = a THEN "recheck" ELSE "wait"]
        /\ UNCHANGED snapshot
     \/ /\ running < MaxConcurrent /\ Overdue = {}
        /\ pc' = [pc EXCEPT ![a] = "rank"]
        /\ snapshot' = [snapshot EXCEPT ![a] = waiters]
  /\ UNCHANGED <<cfs, admission, owed>>

\* The scheduler's lock is acquired and the snapshot is ranked; if no agent
\* of it is runnable, the first one is preferred.
Rank(a) ==
  LET known == Range(snapshot[a]) \cap runnable
      chosen == IF known = {} THEN Head(snapshot[a]) ELSE PickAmong(known)
  IN
  /\ pc[a] = "rank"
  /\ pc' = [pc EXCEPT ![a] = IF chosen = a THEN "recheck" ELSE "wait"]
  /\ snapshot' = [snapshot EXCEPT ![a] = <<>>]
  /\ UNCHANGED <<cfs, admission, owed>>

\* Mutant: the second critical section does not look for a free slot.
RecheckTrusting(a) ==
  /\ pc[a] = "recheck"
  /\ waiters' = RemoveAt(waiters, Position(a))
  /\ running' = running + 1
  /\ pc' = [pc EXCEPT ![a] = "running"]
  /\ UNCHANGED <<cfs, age, snapshot, owed>>

\* The slot is taken if one is still free; the rank is not looked at again.
Recheck(a) ==
  /\ pc[a] = "recheck"
  /\ IF running < MaxConcurrent
       THEN /\ waiters' = RemoveAt(waiters, Position(a))
            /\ age' = [age EXCEPT ![a] = 0]
            /\ running' = running + 1
            /\ pc' = [pc EXCEPT ![a] = "running"]
       ELSE /\ pc' = [pc EXCEPT ![a] = "wait"]
            /\ UNCHANGED admission
  /\ UNCHANGED <<cfs, snapshot, owed>>

\* The 25 ms of a wait elapse.
Timeout(a) ==
  /\ pc[a] = "wait"
  /\ pc' = [pc EXCEPT ![a] = "loop"]
  /\ UNCHANGED <<cfs, admission, snapshot, owed>>

\* Mutant: a turn that is cancelled while it ranks stays registered.
CancelLeaky(a) ==
  /\ pc[a] \in {"wait", "rank"}
  /\ waiters' = IF pc[a] = "wait" THEN RemoveAt(waiters, Position(a)) ELSE waiters
  /\ snapshot' = [snapshot EXCEPT ![a] = <<>>]
  /\ pc' = [pc EXCEPT ![a] = "notify"]
  /\ UNCHANGED <<cfs, running, age, owed>>

\* The token fires, or the caller is dropped at an await: the registration
\* goes, then the others are notified.
Cancel(a) ==
  /\ pc[a] \in {"wait", "rank"}
  /\ waiters' = RemoveAt(waiters, Position(a))
  /\ age' = [age EXCEPT ![a] = 0]
  /\ snapshot' = [snapshot EXCEPT ![a] = <<>>]
  /\ pc' = [pc EXCEPT ![a] = "notify"]
  /\ UNCHANGED <<cfs, running, owed>>

\* Notify::notify_waiters wakes those that wait now and stores no permit.
NotifyWaiters(a) ==
  /\ pc[a] = "notify"
  /\ pc' = [b \in Agents |-> IF b = a THEN "idle"
                             ELSE IF pc[b] = "wait" THEN "loop" ELSE pc[b]]
  /\ UNCHANGED <<cfs, admission, snapshot, owed>>

-----------------------------------------------------------------------------
(* The turn.                                                               *)

\* send_message_inner charges a completed or paused turn under its slot.
Charge(a) ==
  /\ pc[a] = "running"
  /\ \E t \in Tokens : AccountTokens(a, t)
  /\ pc' = [pc EXCEPT ![a] = "charged"]
  /\ UNCHANGED <<runnable, stopped, nice, admission, snapshot, owed>>

\* TurnSlot::drop, its critical section, when the turn is charged or failed.
Release(a) ==
  /\ pc[a] \in {"running", "charged"}
  /\ running' = IF running = 0 THEN 0 ELSE running - 1
  /\ pc' = [pc EXCEPT ![a] = "notify"]
  /\ UNCHANGED <<cfs, waiters, age, snapshot, owed>>

\* A resumed turn gives back slot and executor first and is charged later.
ReleaseResumed(a) ==
  /\ a \in Resumers /\ pc[a] = "running" /\ owed[a] = 0
  /\ \E t \in Tokens : owed' = [owed EXCEPT ![a] = t]
  /\ running' = IF running = 0 THEN 0 ELSE running - 1
  /\ pc' = [pc EXCEPT ![a] = "notify"]
  /\ UNCHANGED <<cfs, waiters, age, snapshot>>

ChargeResumed(a) ==
  /\ owed[a] > 0
  /\ AccountTokens(a, owed[a])
  /\ owed' = [owed EXCEPT ![a] = 0]
  /\ UNCHANGED <<runnable, stopped, nice, admission, pc, snapshot>>

Tick ==
  /\ \E a \in Waiting : age[a] < Threshold
  /\ age' = [a \in Agents |-> IF a \in Waiting /\ age[a] < Threshold THEN age[a] + 1 ELSE age[a]]
  /\ UNCHANGED <<cfs, running, waiters, pc, snapshot, owed>>

-----------------------------------------------------------------------------

Next ==
  \/ Tick
  \/ \E a \in Agents :
       \/ Enqueue(a) \/ Dequeue(a) \/ UpdateNice(a)
       \/ Register(a) \/ Look(a) \/ Rank(a) \/ Recheck(a) \/ Timeout(a) \/ Cancel(a)
       \/ NotifyWaiters(a) \/ Charge(a) \/ Release(a)
       \/ ReleaseResumed(a) \/ ChargeResumed(a)

Spec == Init /\ [][Next]_vars

\* What a turn does by itself; one of these at a time is enabled.
Proceed(a) ==
  Look(a) \/ Rank(a) \/ Recheck(a) \/ Timeout(a) \/ NotifyWaiters(a) \/ Release(a)

\* Tasks are polled, sleeps elapse, time passes and a running turn ends.
FairSpec == Spec /\ WF_vars(Tick) /\ \A a \in Agents : WF_vars(Proceed(a))

-----------------------------------------------------------------------------
(* Properties.                                                             *)

TypeOK ==
  /\ runnable \subseteq Agents /\ stopped \subseteq Agents
  /\ vruntime \in [Agents -> Nat] /\ nice \in [Agents -> Nices] /\ min_vruntime \in Nat
  /\ running \in Nat /\ waiters \in Seq(Agents) /\ age \in [Agents -> 0..Threshold]
  /\ pc \in [Agents -> {"idle", "loop", "rank", "recheck", "wait", "notify", "running", "charged"}]
  /\ snapshot \in [Agents -> Seq(Agents)] /\ owed \in [Agents -> Nat]

Holding == {a \in Agents : pc[a] \in {"running", "charged"}}

\* "configured concurrency is never exceeded or leaked" (docs/SCHEDULER.md):
\* the counter is the number of turns that hold a slot, over the unlocked gap
\* between ranking and entering, cancellations and failed turns.
SlotAccounting == running = Cardinality(Holding) /\ running <= MaxConcurrent

\* "preventing ghost waiters" (docs/SCHEDULER.md): a turn is registered
\* exactly while it is inside the loop, and once.
NoGhostWaiters ==
  /\ \A i, j \in DOMAIN waiters : waiters[i] = waiters[j] => i = j
  /\ \A a \in Agents : a \in Waiting <=> pc[a] \in {"loop", "rank", "recheck", "wait"}
  /\ Len(waiters) <= MaxWaiters

\* "Changing priority cannot erase scheduling debt" (docs/SCHEDULER.md): no
\* step takes back virtual runtime from an agent.
DebtIsKept ==
  [][\A a \in runnable \cap runnable' : vruntime'[a] >= vruntime[a]]_vars

\* "the next freed slot goes to the lowest-vruntime / highest-priority waiter"
\* (lib.rs): a turn never enters before one that registered earlier and has
\* less virtual runtime, although it enters on a rank that may be outdated.
\* Only an agent that is charged while it waits, for a turn it resumed, may.
LowestFirst ==
  [][\A a \in Agents \ Resumers : pc[a] = "recheck" /\ pc'[a] = "running" =>
       \A i \in 1..(Position(a) - 1) :
         waiters[i] \in runnable => vruntime[a] <= vruntime[waiters[i]]]_vars

\* The starvation escape: a registered turn gets its slot, or is cancelled,
\* although others keep coming back, even for free because their turns fail.
EventuallyAdmitted ==
  \A a \in Agents : pc[a] = "loop" ~> pc[a] \in {"running", "notify"}
-----------------------------------------------------------------------------
(* The inductive invariant behind the safety properties.                   *)

\* Waiters are in the order in which they came; nobody brings an age along.
AgesOrdered ==
  /\ \A j \in DOMAIN waiters : \A i \in 1..(j - 1) : age[waiters[i]] >= age[waiters[j]]
  /\ \A a \in Agents \ Waiting : age[a] = 0

\* A snapshot still holds everybody who is queued before its turn.
SnapshotsCover ==
  \A j \in DOMAIN waiters : pc[waiters[j]] = "rank" =>
    \A i \in 1..(j - 1) : waiters[i] \in Range(snapshot[waiters[j]])

\* What makes an outdated rank sound: a pid that waits is never enqueued
\* afresh, and only a resumed turn is charged while its agent waits again.
LateChargesOnly ==
  /\ Waiting \subseteq runnable \cup stopped
  /\ \A a \in Agents : owed[a] > 0 => a \in Resumers

\* A turn that is about to enter is not above any runnable waiter before it.
StaleRankSound ==
  \A j \in DOMAIN waiters :
    waiters[j] \notin Resumers /\ pc[waiters[j]] = "recheck" =>
      \A i \in 1..(j - 1) :
        waiters[i] \in runnable => vruntime[waiters[j]] <= vruntime[waiters[i]]

IInv ==
  /\ TypeOK /\ IsFiniteSet(Holding) /\ SlotAccounting /\ NoGhostWaiters
  /\ AgesOrdered /\ SnapshotsCover /\ LateChargesOnly /\ StaleRankSound
=============================================================================
