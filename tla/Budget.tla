------------------------------- MODULE Budget -------------------------------
(***************************************************************************)
(* Cumulative spending ceilings (budget.rs), the way a turn uses them      *)
(* (execution.rs), and the usage rows they are rebuilt from (context.rs).  *)
(*                                                                         *)
(* A provider call takes the call lock of every scope with a ceiling,      *)
(* global before tenant, looks at the counters, calls, charges what the    *)
(* response cost and lets the locks go.  The charges of a turn reach the   *)
(* database when the turn ends.  Agents are unregistered while their turns *)
(* may still be running, and the process may crash at any time.            *)
(*                                                                         *)
(* All agents belong to one tenant.  The turns of an agent are serialised  *)
(* by its executor, so the call lock of the agent scope is never contended *)
(* and is left out.  A ceiling of zero means that the scope has none.      *)
(***************************************************************************)
EXTENDS Naturals, FiniteSetsExt, AgentNames

CONSTANTS
  GlobalCeilings, TenantCeilings, AgentCeilings,  \* configurations to look at
  Charges,     \* what a response may cost
  MaxRounds,   \* bound on provider calls of a turn
  MaxTurns,    \* bound on turns
  MaxRestarts  \* bound on crashes

\* There is a largest cost of one response.
ASSUME BudgetConstants ==
  /\ GlobalCeilings \subseteq Nat /\ TenantCeilings \subseteq Nat
  /\ AgentCeilings \subseteq Nat /\ Charges \subseteq Nat
  /\ \E m \in Charges : \A c \in Charges : c <= m
  /\ MaxRounds \in Nat /\ MaxTurns \in Nat /\ MaxRestarts \in Nat

VARIABLES
  ceiling,        \* max_micros, per_tenant_max_micros, per_agent_max_micros
  status,         \* of each agent: "new", "live" or "killed"
  \* the enforcer
  spent, tenantSpent, agentSpent,
  mapped,         \* agent_tenants: the agents that are known to their tenant
  tenantLock,     \* tenant_call_locks: the current lock object, 0 when absent
  lastLock,       \* lock objects made so far
  held,           \* lock objects that are held: 0 stands for the global one
  \* the turns
  place,          \* of each agent: where its turn is
  turn,           \* of each agent: rounds so far, micros charged, tenant lock
  dropping,       \* agents whose tenant lock is about to be dropped
  \* the database
  usage,          \* usage_log: micros persisted for each agent
  \* bounds
  turns, restarts

enforcer == <<spent, tenantSpent, agentSpent>>
locks == <<tenantLock, lastLock, held>>
turnBounds == <<turns, restarts>>
budgetVars == <<ceiling, status, enforcer, mapped, locks, place, turn, dropping, usage, turnBounds>>

GlobalLock == 0
NoTurn == [rounds |-> 0, charged |-> 0, lock |-> 0]
SumOver(f) == MapThenSumSet(LAMBDA a : f[a], Agents)

BudgetInit ==
  /\ ceiling \in [global : GlobalCeilings, tenant : TenantCeilings, agent : AgentCeilings]
  /\ status \in [Agents -> {"new", "live"}]
  /\ spent = 0 /\ tenantSpent = 0 /\ agentSpent = [a \in Agents |-> 0]
  /\ mapped = {a \in Agents : status[a] = "live"}
  /\ tenantLock = 0 /\ lastLock = 0 /\ held = {}
  /\ place = [a \in Agents |-> "idle"] /\ turn = [a \in Agents |-> NoTurn]
  /\ dropping = {}
  /\ usage = [a \in Agents |-> 0]
  /\ turns = 0 /\ restarts = 0

Enter(a, state) == place' = [place EXCEPT ![a] = state]

(***************************************************************************)
(* A turn                                                                  *)
(***************************************************************************)

BeginTurn(a) ==
  /\ place[a] = "idle" /\ status[a] = "live" /\ turns < MaxTurns
  /\ turns' = turns + 1
  /\ turn' = [turn EXCEPT ![a] = NoTurn]
  /\ Enter(a, "global")
  /\ UNCHANGED <<ceiling, status, enforcer, mapped, locks, dropping, usage, restarts>>

\* begin_call: the global lock first, then the lock object that the tenant has
\* at this moment, made when there is none.
LockGlobal(a) ==
  /\ place[a] = "global"
  /\ \/ ceiling.global = 0 /\ UNCHANGED held
     \/ ceiling.global > 0 /\ GlobalLock \notin held /\ held' = held \union {GlobalLock}
  /\ Enter(a, "lookup")
  /\ UNCHANGED <<ceiling, status, enforcer, mapped, tenantLock, lastLock, turn, dropping,
                 usage, turnBounds>>

LookupTenant(a) ==
  /\ place[a] = "lookup"
  /\ \/ /\ ceiling.tenant = 0 \/ a \notin mapped
        /\ turn' = [turn EXCEPT ![a].lock = 0]
        /\ UNCHANGED <<tenantLock, lastLock>>
     \/ /\ ceiling.tenant > 0 /\ a \in mapped /\ tenantLock > 0
        /\ turn' = [turn EXCEPT ![a].lock = tenantLock]
        /\ UNCHANGED <<tenantLock, lastLock>>
     \/ /\ ceiling.tenant > 0 /\ a \in mapped /\ tenantLock = 0
        /\ turn' = [turn EXCEPT ![a].lock = lastLock + 1]
        /\ tenantLock' = lastLock + 1 /\ lastLock' = lastLock + 1
  /\ Enter(a, "tenant")
  /\ UNCHANGED <<ceiling, status, enforcer, mapped, held, dropping, usage, turnBounds>>

LockTenant(a) ==
  /\ place[a] = "tenant"
  /\ \/ turn[a].lock = 0 /\ UNCHANGED held
     \/ turn[a].lock > 0 /\ turn[a].lock \notin held /\ held' = held \union {turn[a].lock}
  /\ Enter(a, "check")
  /\ UNCHANGED <<ceiling, status, enforcer, mapped, tenantLock, lastLock, turn, dropping,
                 usage, turnBounds>>

\* The guard lets every lock of the call go.
HeldBy(a) == {l \in {turn[a].lock} : l > 0} \union (IF ceiling.global > 0 THEN {GlobalLock} ELSE {})
Release(a) == held' = held \ HeldBy(a)

\* A ceiling that has been reached, or passed, admits nothing.
WithinCeilings(a) ==
  /\ ceiling.global = 0 \/ spent < ceiling.global
  /\ ceiling.agent = 0 \/ agentSpent[a] < ceiling.agent
  /\ ceiling.tenant = 0 \/ a \notin mapped \/ tenantSpent < ceiling.tenant

\* Mutant of Admit: the guard is dropped as soon as the check has passed.
AdmitAndRelease(a) ==
  /\ place[a] = "check" /\ WithinCeilings(a)
  /\ \/ status[a] = "live" /\ Enter(a, "call")
     \/ status[a] = "killed" /\ Enter(a, "idle")
  /\ Release(a)
  /\ UNCHANGED <<ceiling, status, enforcer, mapped, tenantLock, lastLock, turn, dropping,
                 usage, turnBounds>>

\* The provider is called with the locks held, unless the turn was cancelled by
\* a kill while it waited for them.
Admit(a) ==
  /\ place[a] = "check" /\ WithinCeilings(a)
  /\ \/ status[a] = "live" /\ Enter(a, "call") /\ UNCHANGED held
     \/ status[a] = "killed" /\ Enter(a, "idle") /\ Release(a)
  /\ UNCHANGED <<ceiling, status, enforcer, mapped, tenantLock, lastLock, turn, dropping,
                 usage, turnBounds>>

\* Mutant of Stop: the locks of a refused call are leaked.
StopAndLeak(a) ==
  /\ place[a] = "check" /\ ~ WithinCeilings(a)
  /\ UNCHANGED held
  /\ Enter(a, "record")
  /\ UNCHANGED <<ceiling, status, enforcer, mapped, tenantLock, lastLock, turn, dropping,
                 usage, turnBounds>>

\* A refused call completes its turn.
Stop(a) ==
  /\ place[a] = "check" /\ ~ WithinCeilings(a)
  /\ Release(a)
  /\ Enter(a, "record")
  /\ UNCHANGED <<ceiling, status, enforcer, mapped, tenantLock, lastLock, turn, dropping,
                 usage, turnBounds>>

\* The response is charged to every counter, then the locks go.  An agent that
\* was unregistered meanwhile has no tenant to charge.  The response may ask for
\* tools and so for another call, or complete the turn.
Respond(a, c) ==
  /\ place[a] = "call"
  /\ spent' = spent + c
  /\ agentSpent' = [agentSpent EXCEPT ![a] = @ + c]
  /\ tenantSpent' = IF a \in mapped THEN tenantSpent + c ELSE tenantSpent
  /\ turn' = [turn EXCEPT ![a].rounds = @ + 1, ![a].charged = @ + c]
  /\ Release(a)
  /\ \/ Enter(a, "record")
     \/ turn[a].rounds + 1 < MaxRounds /\ Enter(a, "top")
  /\ UNCHANGED <<ceiling, status, mapped, tenantLock, lastLock, dropping, usage, turnBounds>>

\* The provider fails, and with it the turn, whose charges are not recorded; or
\* the turn is cancelled, by a pause, which records them, or by a kill, which
\* does not.
CallFails(a) ==
  /\ place[a] = "call"
  /\ Release(a)
  /\ \/ Enter(a, "idle")
     \/ status[a] = "live" /\ Enter(a, "record")
  /\ UNCHANGED <<ceiling, status, enforcer, mapped, tenantLock, lastLock, turn, dropping,
                 usage, turnBounds>>

\* Between two calls the turn looks at its token: a kill or a pause ends it here.
NextRound(a) ==
  /\ place[a] = "top"
  /\ \/ status[a] = "live" /\ (Enter(a, "global") \/ Enter(a, "record"))
     \/ status[a] = "killed" /\ Enter(a, "idle")
  /\ UNCHANGED <<ceiling, status, enforcer, mapped, locks, turn, dropping, usage, turnBounds>>

\* record_output_since: one row holds what the whole turn was charged.
Record(a) ==
  /\ place[a] = "record"
  /\ usage' = [usage EXCEPT ![a] = @ + turn[a].charged]
  /\ Enter(a, "idle")
  /\ UNCHANGED <<ceiling, status, enforcer, mapped, locks, turn, dropping, turnBounds>>

(***************************************************************************)
(* Agents come and go                                                      *)
(***************************************************************************)

Create(a) ==
  /\ status[a] = "new"
  /\ status' = [status EXCEPT ![a] = "live"]
  /\ mapped' = mapped \union {a}
  /\ UNCHANGED <<ceiling, enforcer, locks, place, turn, dropping, usage, turnBounds>>

\* Mutant of Kill: the spend of the agent goes with it.
KillAndForget(a) ==
  /\ status[a] = "live"
  /\ status' = [status EXCEPT ![a] = "killed"]
  /\ mapped' = mapped \ {a}
  /\ agentSpent' = [agentSpent EXCEPT ![a] = 0]
  /\ dropping' = IF mapped \ {a} = {} THEN dropping \union {a} ELSE dropping
  /\ UNCHANGED <<ceiling, spent, tenantSpent, locks, place, turn, usage, turnBounds>>

\* unregister_agent removes the association and looks whether the tenant has
\* another agent; if it saw none, it drops the lock object in a second step.
Kill(a) ==
  /\ status[a] = "live"
  /\ status' = [status EXCEPT ![a] = "killed"]
  /\ mapped' = mapped \ {a}
  /\ dropping' = IF mapped \ {a} = {} THEN dropping \union {a} ELSE dropping
  /\ UNCHANGED <<ceiling, enforcer, locks, place, turn, usage, turnBounds>>

DropTenantLock(a) ==
  /\ a \in dropping
  /\ tenantLock' = 0 /\ dropping' = dropping \ {a}
  /\ UNCHANGED <<ceiling, status, enforcer, mapped, lastLock, held, place, turn, usage, turnBounds>>

\* The kernel starts again: the counters are what the rows add up to, and every
\* agent of the database is known to its tenant, stopped ones too.
Restart ==
  /\ restarts < MaxRestarts /\ restarts' = restarts + 1
  /\ spent' = SumOver(usage) /\ tenantSpent' = SumOver(usage) /\ agentSpent' = usage
  /\ mapped' = {a \in Agents : status[a] # "new"}
  /\ tenantLock' = 0 /\ lastLock' = 0 /\ held' = {} /\ dropping' = {}
  /\ place' = [a \in Agents |-> "idle"] /\ turn' = [a \in Agents |-> NoTurn]
  /\ UNCHANGED <<ceiling, status, usage, turns>>

CallStep(a) ==
  \/ LockGlobal(a) \/ LookupTenant(a) \/ LockTenant(a) \/ Admit(a) \/ Stop(a)
  \/ \E c \in Charges : Respond(a, c)
  \/ CallFails(a) \/ NextRound(a) \/ Record(a)

BudgetNext ==
  \/ \E a \in Agents :
       CallStep(a) \/ BeginTurn(a) \/ Create(a) \/ Kill(a) \/ DropTenantLock(a)
  \/ Restart

BudgetSpec == BudgetInit /\ [][BudgetNext]_budgetVars

\* A turn that can take its next step takes it: the locks are fair, and provider
\* calls end because they have a deadline.
FairBudgetSpec == BudgetSpec /\ \A a \in Agents : WF_budgetVars(CallStep(a))

(***************************************************************************)
(* Properties                                                              *)
(***************************************************************************)

\* The response that reaches a ceiling is the last one: whatever turns run at
\* once, and across restarts, the global total passes its ceiling by less than
\* one response, and so do the responses of one tenant's agents as long as none
\* of the agents was killed.
OneResponseOverCeiling ==
  /\ ceiling.global > 0 => spent < ceiling.global + Max(Charges)
  /\ (ceiling.tenant > 0 /\ \A a \in Agents : status[a] # "killed") =>
       SumOver(agentSpent) < ceiling.tenant + Max(Charges)

\* What the database knows of is enforced: no counter of the running enforcer is
\* behind the rows, also while agents are unregistered and after restarts.
RecordedSpendIsEnforced ==
  SumOver(usage) <= spent /\ \A a \in Agents : usage[a] <= agentSpent[a]

\* A call that asks for admission is decided, also when the lock it waits for is
\* taken out of the table or its agent is unregistered.
CallsAreDecided ==
  \A a \in Agents : (place[a] = "global") ~> (place[a] \in {"call", "record", "idle"})
(***************************************************************************)
(* The inductive invariant behind the first two                            *)
(***************************************************************************)

TurnPlaces == {"idle", "global", "lookup", "tenant", "check", "call", "top", "record"}

BudgetTypeOK ==
  /\ ceiling \in [global : Nat, tenant : Nat, agent : Nat]
  /\ status \in [Agents -> {"new", "live", "killed"}]
  /\ spent \in Nat /\ tenantSpent \in Nat /\ agentSpent \in [Agents -> Nat]
  /\ mapped \in SUBSET Agents
  /\ tenantLock \in Nat /\ lastLock \in Nat /\ held \in SUBSET Nat
  /\ place \in [Agents -> TurnPlaces]
  /\ turn \in [Agents -> [rounds : Nat, charged : Nat, lock : Nat]]
  /\ dropping \in SUBSET Agents
  /\ usage \in [Agents -> Nat]
  /\ turns \in Nat /\ restarts \in Nat

\* The total is what the agents spent; a turn has been charged what it will
\* record, or more.
Accounts ==
  /\ spent = SumOver(agentSpent)
  /\ \A a \in Agents :
       usage[a] + (IF place[a] = "idle" THEN 0 ELSE turn[a].charged) <= agentSpent[a]

\* One call at a time has the global lock, from before it looks at the counters
\* until it has been charged.
GlobalExclusive ==
  ceiling.global > 0 =>
    \A a \in Agents : place[a] \in {"lookup", "tenant", "check", "call"} =>
      /\ GlobalLock \in held
      /\ \A b \in Agents : place[b] \in {"lookup", "tenant", "check", "call"} => b = a
      /\ place[a] = "call" => spent < ceiling.global

\* The same of the tenant while none of its agents was killed: all its calls
\* then use one lock object and one counter.
NoneKilled == \A a \in Agents : status[a] # "killed"
TenantKnown ==
  NoneKilled =>
    /\ mapped = {a \in Agents : status[a] = "live"} /\ dropping = {}
    /\ tenantSpent = spent
    /\ \A a \in Agents : place[a] # "idle" => status[a] = "live"
TenantExclusive ==
  (NoneKilled /\ ceiling.tenant > 0) =>
    \A a \in Agents :
      /\ place[a] \in {"tenant", "check", "call"} => turn[a].lock = tenantLock /\ tenantLock > 0
      /\ place[a] \in {"check", "call"} =>
           /\ tenantLock \in held
           /\ \A b \in Agents : place[b] \in {"check", "call"} => b = a
      /\ place[a] = "call" => tenantSpent < ceiling.tenant

BudgetInv ==
  /\ BudgetTypeOK /\ Accounts /\ GlobalExclusive /\ TenantKnown /\ TenantExclusive
  /\ OneResponseOverCeiling
=============================================================================
