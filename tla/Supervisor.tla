----------------------------- MODULE Supervisor -----------------------------
(***************************************************************************)
(* Supervision of services (init_system.rs, and lib.rs, start_service to   *)
(* service_supervisor_sweep): each service is run by an agent, its owner,  *)
(* which the kernel starts after the services it requires, watches, and    *)
(* starts again within limits.  The state of every service is kept in      *)
(* memory and, transition by transition, in a table; at boot it is rebound *)
(* to the agents that were rehydrated.                                     *)
(*                                                                         *)
(* One lock serializes the operations and the sweep of the supervisor, so  *)
(* that an operation is a list of calls that are made one after the other. *)
(* One action is one change of memory with the row that records it, or one *)
(* change of an agent; between any two of them the process may die, and    *)
(* owners may be paused, resumed and killed by others.  Errors of the      *)
(* database, an owner that cannot even be killed, and services that a      *)
(* reload adds or removes are left out.                                    *)
(***************************************************************************)
EXTENDS Naturals, Sequences, SequencesExt

CONSTANTS
  Order,        \* boot_order, a sequence of names
  Requires,     \* of a service: the names of DependencyConfig.requires
  Policy,       \* of a service: its RestartPolicy
  MaxRestarts,  \* max_restarts
  Ids,          \* names of agents; they are used again
  MaxEvents     \* bound on requests, edits, failures, crashes and what others do to owners

Services == Range(Order)
None == 0

ASSUME SupervisorConstants ==
  /\ Order \in Seq(Services) /\ Order # <<>>
  /\ Ids \subseteq Nat \ {None} /\ MaxRestarts \in Nat
  /\ Requires \in [Services -> SUBSET Services]
  /\ Policy \in [Services -> {"Always", "OnFailure", "Never"}]
  /\ \A i \in DOMAIN Order : \A r \in Requires[Order[i]] : \E j \in 1..(i - 1) : Order[j] = r

VARIABLES
  svc,      \* ServiceState of each service
  row,      \* its row of service_runtime
  files,    \* the revision of each definition in the service directory
  agent,    \* the state of each agent
  made,     \* the service each agent was made for
  op,       \* the operation that holds the lock
  orphans,  \* agents that run for a service without being recorded anywhere
  tries,    \* restarts by the supervisor in the current restart window
  events    \* how many of the events that MaxEvents bounds have happened

vars == <<svc, row, files, agent, made, op, orphans, tries, events>>

-----------------------------------------------------------------------------
(* InitSystem.  `next' is next_restart_at, `window' restart_window_started_at. *)

\* load_service; also a row that does not exist (revision 0).
Fresh(revision) ==
  [status |-> "Inactive", owner |-> None, count |-> 0, exit |-> "none", desired |-> FALSE,
   ready |-> FALSE, healthy |-> FALSE, exhausted |-> FALSE, next |-> "none", window |-> "none",
   revision |-> revision]

MarkStarting(r) ==
  [r EXCEPT !.status = "Starting", !.desired = TRUE, !.ready = FALSE, !.healthy = FALSE,
            !.exhausted = FALSE]
MarkStarted(r, i) ==
  [r EXCEPT !.status = "Running", !.owner = i, !.desired = TRUE, !.ready = FALSE,
            !.healthy = TRUE, !.exhausted = FALSE, !.next = "none", !.exit = "none"]
MarkReady(r) ==
  IF r.status = "Running" THEN [r EXCEPT !.ready = TRUE, !.healthy = TRUE] ELSE r
MarkFailed(r) ==
  [r EXCEPT !.status = "Failed", !.exit = "error", !.ready = FALSE, !.healthy = FALSE]
MarkStopping(r) == [r EXCEPT !.status = "Stopping", !.ready = FALSE]
MarkStopped(r, keep) ==
  [r EXCEPT !.status = "Inactive", !.owner = None, !.exit = "ok", !.desired = keep,
            !.ready = FALSE, !.healthy = FALSE, !.next = "none", !.exhausted = FALSE]
RecordRestart(r) ==
  [r EXCEPT !.count = @ + 1, !.status = "Restarting", !.ready = FALSE, !.healthy = FALSE,
            !.next = "none"]
ResetBudget(r) ==
  [r EXCEPT !.count = 0, !.exhausted = FALSE, !.next = "none", !.window = "none", !.exit = "none"]
ClearInstance(r) == [r EXCEPT !.owner = None, !.ready = FALSE, !.healthy = FALSE]
ClearForRestart(r) == [ClearInstance(r) EXCEPT !.status = "Restarting"]
DeferRestart(r) == [r EXCEPT !.status = "Restarting", !.next = "later"]
Blocked(r) == [r EXCEPT !.ready = FALSE, !.healthy = FALSE]

\* schedule_restart: policy, window and limit.  Mutant: a window is opened once.
Restartable(s, r) ==
  r.desired /\ (Policy[s] = "Always" \/ (Policy[s] = "OnFailure" /\ r.exit = "error"))

ScheduleRestartOnce(s, r) ==
  IF ~Restartable(s, r) THEN r
  ELSE IF r.count >= MaxRestarts THEN [r EXCEPT !.exhausted = TRUE, !.next = "none", !.window = "open"]
  ELSE DeferRestart([r EXCEPT !.window = "open"])

ScheduleRestart(s, r) ==
  LET w == IF r.window = "open" THEN r
           ELSE [r EXCEPT !.window = "open", !.count = 0, !.exhausted = FALSE]
  IN IF ~Restartable(s, r) THEN r
     ELSE IF w.count >= MaxRestarts THEN [w EXCEPT !.exhausted = TRUE, !.next = "none"]
     ELSE DeferRestart(w)

\* A service with everything that requires it, also indirectly.
DependentsOf(s) ==
  {d \in Services : \A closed \in SUBSET Services :
     (s \in closed /\ \A x \in Services : Requires[x] \cap closed # {} => x \in closed)
       => d \in closed}

Available(s) == svc[s].status = "Running" /\ svc[s].ready /\ svc[s].healthy
RequiredReady(s) == \A r \in Requires[s] : Available(r)

-----------------------------------------------------------------------------
(* Operations.  `todo' holds the calls that are left, `at' is the place in *)
(* the first of them, `new' the agent it created, `done' the services that *)
(* this part of the operation has finished, `old' what a reload replaces.  *)

Task(fn, s, keep) == [fn |-> fn, s |-> s, keep |-> keep]
Stops(names, kept) == [i \in DOMAIN names |-> Task("stop", names[i], names[i] \in kept)]
Starts(names) == [i \in DOMAIN names |-> Task("start", names[i], FALSE)]
Calls(fn, names) == [i \in DOMAIN names |-> Task(fn, names[i], FALSE)]

\* The kinds of operation that remember what they replace.
Reloading == {"reload", "rollout", "undo"}

Operation(kind, todo) ==
  [kind |-> kind, todo |-> todo, at |-> "begin", new |-> None, done |-> <<>>, old |-> <<>>]
Idle == Operation("idle", <<>>)
Exit == Operation("exit", <<>>)

\* The rest of the operation; after the last call, the lock is released or
\* the process ends.
Continue(o, todo) ==
  IF todo # <<>> THEN [o EXCEPT !.todo = todo, !.at = "begin", !.new = None]
  ELSE IF o.kind \in {"rollback", "shutdown"} THEN Exit ELSE Idle

This == Head(op.todo).s
At(fn, place) == op.todo # <<>> /\ Head(op.todo).fn = fn /\ op.at = place
Goto(place) == op' = [op EXCEPT !.at = place]

\* The call returns Ok.
Ok == op' = Continue([op EXCEPT !.done = IF op.kind \in {"boot", "reload", "rollout"}
                                           THEN Append(@, This) ELSE @], Tail(op.todo))
Skip == op' = Continue(op, Tail(op.todo))
Instead(todo) == op' = Continue(op, todo \o Tail(op.todo))

\* The names of a list that are in a set.
Among(list, names) ==
  LET picked[i \in 0..Len(list)] ==
        IF i = 0 THEN <<>>
        ELSE IF list[i] \in names THEN Append(picked[i - 1], list[i]) ELSE picked[i - 1]
  IN picked[Len(list)]

\* What the services were that ran before the reload, in boot order.
OldActive(among) == Among(Order, {s \in among : op.old[s].status = "Running"})

\* The call returns Err: the boot and a reload are undone, a shutdown and
\* what undoes go on, a restart by the supervisor is counted as failed, and
\* every other operation ends.
Err ==
  LET undo == Stops(Reverse(op.done), {}) IN
  op' = CASE op.kind = "boot" -> Continue([op EXCEPT !.kind = "rollback"], undo)
             [] op.kind = "reload" ->
                  Continue([op EXCEPT !.kind = "undo"], Starts(OldActive(Range(op.done))))
             [] op.kind = "rollout" ->
                  Continue([op EXCEPT !.kind = "undo"],
                           undo \o <<Task("republish", This, FALSE)>> \o Starts(OldActive(Services)))
             [] op.kind \in {"rollback", "shutdown", "undo"} -> Continue(op, Tail(op.todo))
             [] op.kind = "sweep" /\ Head(op.todo).fn = "start" ->
                  Continue(op, <<Task("retry", This, FALSE)>> \o Tail(op.todo))
             [] OTHER -> Idle

\* A transition in memory, alone or with persist_service_transition.
Mark(s, r) == svc' = [svc EXCEPT ![s] = r] /\ UNCHANGED row
Save(s, r) == svc' = [svc EXCEPT ![s] = r] /\ row' = [row EXCEPT ![s] = r]

Event == events < MaxEvents /\ events' = events + 1

SetAgent(i, state) == agent' = [agent EXCEPT ![i] = state]

\* stop_agent: an unknown agent is an error, and a turn or a tool that does
\* not end is another.
StopSucceeds(i) == agent[i] # "Missing" /\ SetAgent(i, "Stopped") /\ UNCHANGED events
StopFails(i) ==
  /\ \/ agent[i] = "Missing" /\ UNCHANGED events
     \/ agent[i] \in {"Running", "Paused"} /\ Event
  /\ UNCHANGED agent

-----------------------------------------------------------------------------
(* start_service_inner.                                                    *)

\* A service that is not blocked and not up yet gives up its old owner first.
Examine ==
  LET r == svc[This]
      up == Available(This) /\ r.owner # None /\ agent[r.owner] = "Running"
  IN
  /\ At("start", "begin")
  /\ \/ ~RequiredReady(This) /\ Save(This, Blocked(r)) /\ Err
     \/ RequiredReady(This) /\ up /\ Ok /\ UNCHANGED <<svc, row>>
     \/ RequiredReady(This) /\ ~up /\ Goto(IF r.owner = None THEN "mark" ELSE "clean")
        /\ UNCHANGED <<svc, row>>
  /\ UNCHANGED <<agent, made, orphans, events, files>>

CleanOwner ==
  /\ At("start", "clean")
  /\ \/ StopSucceeds(svc[This].owner) /\ Goto("cleaned")
     \/ StopFails(svc[This].owner) /\ Err
  /\ UNCHANGED <<svc, row, made, orphans, files>>

OwnerCleaned ==
  /\ At("start", "cleaned")
  /\ Save(This, ClearForRestart(svc[This])) /\ Goto("mark")
  /\ UNCHANGED <<agent, made, orphans, events, files>>

Starting ==
  /\ At("start", "mark")
  /\ Save(This, MarkStarting(svc[This])) /\ Goto("create")
  /\ UNCHANGED <<agent, made, orphans, events, files>>

\* A name for a new agent.
Unused(i) ==
  /\ agent[i] \in {"none", "Stopped"}
  /\ \A s \in Services : i # svc[s].owner /\ i # row[s].owner
                         /\ (op.kind \in Reloading => i # op.old[s].owner)
NewAgent == CHOOSE i \in Ids : Unused(i) /\ \A j \in Ids : Unused(j) => i <= j

\* create_agent_grouped: the agent is on disk when it returns.  It may fail,
\* and when the deadline drops it half way it may leave an agent behind that
\* is registered in memory only.
Create ==
  /\ At("start", "create")
  /\ \/ /\ \E i \in Ids : Unused(i)
        /\ SetAgent(NewAgent, "Running") /\ made' = [made EXCEPT ![NewAgent] = This]
        /\ op' = [op EXCEPT !.at = "created", !.new = NewAgent]
        /\ UNCHANGED <<svc, row, events>>
     \/ /\ Event /\ Save(This, MarkFailed(svc[This])) /\ Err
        /\ \/ UNCHANGED agent
           \/ \E i \in Ids : Unused(i) /\ SetAgent(NewAgent, "Loose")
        /\ UNCHANGED made
  /\ UNCHANGED <<orphans, files>>

\* The limits and the nice value are applied, which may fail.
Started ==
  /\ At("start", "created")
  /\ \/ Save(This, MarkStarted(svc[This], op.new)) /\ Goto("ready") /\ UNCHANGED events
     \/ Event /\ Goto("kill") /\ UNCHANGED <<svc, row>>
  /\ UNCHANGED <<agent, made, orphans, files>>

\* Readiness: the owner runs after the delay, before the deadline.
Ready ==
  /\ At("start", "ready")
  /\ \/ agent[op.new] = "Running" /\ Save(This, MarkReady(svc[This])) /\ Ok /\ UNCHANGED events
     \/ agent[op.new] # "Running" /\ Goto("kill") /\ UNCHANGED <<svc, row, events>>
     \/ agent[op.new] = "Running" /\ Event /\ Goto("kill") /\ UNCHANGED <<svc, row>>
  /\ UNCHANGED <<agent, made, orphans, files>>

\* fail_service_start: the agent is killed, then the failure is recorded.
KillNew ==
  /\ At("start", "kill")
  /\ SetAgent(op.new, "Stopped") /\ Goto("killed")
  /\ UNCHANGED <<svc, row, made, orphans, events, files>>

FailStart ==
  /\ At("start", "killed")
  /\ Save(This, ClearInstance(MarkFailed(svc[This]))) /\ Err
  /\ UNCHANGED <<agent, made, orphans, events, files>>

StartStep ==
  \/ Examine \/ CleanOwner \/ OwnerCleaned \/ Starting \/ Create \/ Started \/ Ready
  \/ KillNew \/ FailStart

-----------------------------------------------------------------------------
(* stop_service_inner.                                                     *)

Stopping ==
  LET r == svc[This] IN
  /\ At("stop", "begin")
  /\ \/ r.status = "Inactive" /\ Save(This, MarkStopped(r, Head(op.todo).keep)) /\ Ok
     \/ r.status # "Inactive" /\ Save(This, MarkStopping(r))
        /\ Goto(IF r.owner = None THEN "halted" ELSE "halt")
  /\ UNCHANGED <<agent, made, orphans, events, files>>

\* An owner that does not stop within the deadline is killed; any other
\* failure ends the call.
Halt ==
  /\ At("stop", "halt")
  /\ \/ StopSucceeds(svc[This].owner) /\ Goto("halted") /\ UNCHANGED <<svc, row>>
     \/ StopFails(svc[This].owner) /\ Save(This, MarkFailed(svc[This])) /\ Err
  /\ UNCHANGED <<made, orphans, files>>

Halted ==
  /\ At("stop", "halted")
  /\ Save(This, MarkStopped(svc[This], Head(op.todo).keep)) /\ Ok
  /\ UNCHANGED <<agent, made, orphans, events, files>>

StopStep == Stopping \/ Halt \/ Halted

-----------------------------------------------------------------------------
(* service_supervisor_sweep: dependents of what failed, then every service. *)

Sweep ==
  /\ op.kind = "idle"
  /\ op' = Operation("sweep", Calls("depend", Reverse(Order)) \o Calls("check", Order))
  /\ UNCHANGED <<svc, row, agent, made, orphans, events, files>>

\* Mutant: dependents follow only what has used up its restarts.
DependOnExhausted ==
  /\ At("depend", "begin")
  /\ IF svc[This].desired /\ svc[This].status = "Running"
          /\ \E r \in Requires[This] : svc[r].exhausted
       THEN Instead(<<Task("stop", This, TRUE), Task("block", This, TRUE)>>)
       ELSE Skip
  /\ UNCHANGED <<svc, row, agent, made, orphans, events, files>>

Depend ==
  /\ At("depend", "begin")
  /\ IF svc[This].desired /\ svc[This].status = "Running" /\ ~RequiredReady(This)
       THEN Instead(<<Task("stop", This, TRUE), Task("block", This, TRUE)>>)
       ELSE Skip
  /\ UNCHANGED <<svc, row, agent, made, orphans, events, files>>

Block ==
  /\ At("block", "begin")
  /\ Save(This, ScheduleRestart(This, Blocked(MarkFailed(svc[This])))) /\ Skip
  /\ UNCHANGED <<agent, made, orphans, events, files>>

OwnerState(r) == IF r.owner = None THEN "Missing" ELSE agent[r.owner]

\* Liveness of the owner.  A check before its interval does nothing.
Check ==
  LET r == svc[This]
      failed == ScheduleRestart(This, MarkFailed(r))
      scheduled == ScheduleRestart(This, r)
  IN
  /\ At("check", "begin")
  /\ \/ ~r.desired /\ Skip /\ UNCHANGED <<svc, row>>
     \/ /\ r.desired /\ r.status = "Running"
        /\ \/ OwnerState(r) = "Running" /\ r.ready /\ r.healthy /\ Skip /\ UNCHANGED <<svc, row>>
           \/ OwnerState(r) = "Running" /\ ~(r.ready /\ r.healthy) /\ Save(This, MarkReady(r)) /\ Skip
           \/ OwnerState(r) \in {"Paused", "Stopped"} /\ Mark(This, failed) /\ Goto("reap")
           \/ OwnerState(r) = "Missing" /\ Save(This, failed) /\ Goto("due")
     \/ /\ r.desired /\ r.status = "Failed" /\ r.next = "none"
        /\ IF scheduled.next = "later" THEN Save(This, scheduled) ELSE Mark(This, scheduled)
        /\ Goto("due")
     \/ /\ r.desired /\ r.status # "Running" /\ ~(r.status = "Failed" /\ r.next = "none")
        /\ Goto("due") /\ UNCHANGED <<svc, row>>
  /\ UNCHANGED <<agent, made, orphans, events, files>>

\* The failed owner is stopped; an error ends the sweep.  Mutant: it is ignored.
ReapIgnoring ==
  /\ At("check", "reap")
  /\ StopSucceeds(svc[This].owner) \/ StopFails(svc[This].owner)
  /\ Goto("reaped")
  /\ UNCHANGED <<svc, row, made, orphans, files>>

Reap ==
  /\ At("check", "reap")
  /\ \/ StopSucceeds(svc[This].owner) /\ Goto("reaped")
     \/ StopFails(svc[This].owner) /\ Err
  /\ UNCHANGED <<svc, row, made, orphans, files>>

Reaped ==
  /\ At("check", "reaped")
  /\ Save(This, ClearInstance(svc[This])) /\ Goto("due")
  /\ UNCHANGED <<agent, made, orphans, events, files>>

\* A restart that is due waits for the services it requires.
Due ==
  LET r == svc[This] IN
  /\ At("check", "due")
  /\ \/ r.next # "due" /\ Skip /\ UNCHANGED <<svc, row>>
     \/ r.next = "due" /\ ~RequiredReady(This) /\ Save(This, DeferRestart(r)) /\ Skip
     \/ r.next = "due" /\ RequiredReady(This) /\ UNCHANGED <<svc, row>>
        /\ Goto(IF r.owner = None THEN "attempt" ELSE "evict")
  /\ UNCHANGED <<agent, made, orphans, events, files>>

Evict ==
  /\ At("check", "evict")
  /\ \/ StopSucceeds(svc[This].owner) /\ Goto("attempt") /\ UNCHANGED <<svc, row>>
     \/ StopFails(svc[This].owner) /\ Save(This, DeferRestart(svc[This])) /\ Skip
  /\ UNCHANGED <<made, orphans, files>>

\* The attempt is counted and recorded before it is made.
Attempt ==
  /\ At("check", "attempt")
  /\ Save(This, RecordRestart(ClearForRestart(svc[This])))
  /\ Instead(Starts(<<This>>))
  /\ UNCHANGED <<agent, made, orphans, events, files>>

Retry ==
  /\ At("retry", "begin")
  /\ Save(This, ScheduleRestart(This, MarkFailed(svc[This]))) /\ Skip
  /\ UNCHANGED <<agent, made, orphans, events, files>>

SweepStep == Depend \/ Block \/ Check \/ Reap \/ Reaped \/ Due \/ Evict \/ Attempt \/ Retry

-----------------------------------------------------------------------------
(* Requests of the operator.                                               *)

Request(o) == op.kind = "idle" /\ Event /\ op' = o

\* Services of a set, in reverse boot order.
Backwards(names) == Among(Reverse(Order), names)
Forwards(names) == Among(Order, names)

\* start_service forgets the restarts of a service that failed.
StartService(s) ==
  /\ Request(Operation("start", Starts(<<s>>)))
  /\ svc' = IF svc[s].status = "Failed" \/ svc[s].exhausted
              THEN [svc EXCEPT ![s] = ResetBudget(@)] ELSE svc
  /\ UNCHANGED <<row, files, agent, made, orphans>>

StopService(s) ==
  /\ Request(Operation("stop", Stops(Backwards(DependentsOf(s)), {})))
  /\ UNCHANGED <<svc, row, files, agent, made, orphans>>

\* restart_service: everything that requires the service stops first and is
\* started again afterwards if it was wanted.
RestartService(s) ==
  LET wanted == {d \in DependentsOf(s) : d = s \/ svc[d].desired} IN
  /\ Request(Operation("restart", Stops(Backwards(DependentsOf(s)), wanted)
                                    \o Calls("again", Backwards(wanted))
                                    \o Starts(Forwards(wanted))))
  /\ UNCHANGED <<svc, row, files, agent, made, orphans>>

Again ==
  /\ At("again", "begin")
  /\ Save(This, RecordRestart(ResetBudget(svc[This]))) /\ Skip
  /\ UNCHANGED <<agent, made, orphans, events, files>>

\* The operator changes a definition in the service directory.
Edit(s) ==
  /\ op.kind \in {"idle", "exit"} /\ Event
  /\ files' = [files EXCEPT ![s] = 3 - @]
  /\ UNCHANGED <<svc, row, agent, made, op, orphans>>

\* reload_service_directory: what changed, and what requires it, is stopped,
\* the new definitions are published, and what was wanted is started.
Reload ==
  LET changed == {s \in Services : svc[s].revision # files[s]}
      affected == UNION {DependentsOf(s) : s \in changed}
  IN
  /\ Request([Operation("reload", Stops(Backwards(affected), {})
                                    \o <<Task("publish", Order[1], FALSE)>>)
              EXCEPT !.old = svc])
  /\ UNCHANGED <<svc, row, files, agent, made, orphans>>

Publish ==
  LET rolled == {s \in Range(op.done) : op.old[s].desired} IN
  /\ At("publish", "begin")
  /\ svc' = [s \in Services |-> [svc[s] EXCEPT !.revision = files[s]]]
  /\ op' = [op EXCEPT !.kind = "rollout", !.done = <<>>,
                      !.todo = Starts(Forwards(rolled)) \o <<Task("record", Order[1], FALSE)>>]
  /\ UNCHANGED <<row, agent, made, orphans, events, files>>

\* Every row is written.
Record ==
  /\ At("record", "begin")
  /\ row' = svc /\ Skip
  /\ UNCHANGED <<svc, agent, made, orphans, events, files>>

Live(i) == agent[i] \in {"Running", "Paused"}

\* A rollout that failed puts back definitions and runtime state as they
\* were, in memory.  What could not be stopped is forgotten.
Republish ==
  /\ At("republish", "begin")
  /\ svc' = op.old /\ Skip
  /\ orphans' = orphans \cup {i \in Ids : Live(i) /\ \E s \in Services :
                                svc[s].owner = i /\ op.old[s].owner # i}
  /\ UNCHANGED <<row, agent, made, events, files>>

\* shutdown: the services, then every agent that is left.
Shutdown ==
  /\ Request(Operation("shutdown", Stops(Reverse(Order), {})
                                     \o <<Task("agents", Order[1], FALSE)>>))
  /\ UNCHANGED <<svc, row, files, agent, made, orphans>>

StopAgents ==
  /\ At("agents", "begin")
  /\ agent' = [i \in Ids |-> IF Live(i) \/ agent[i] = "Loose" THEN "Stopped" ELSE agent[i]]
  /\ Skip
  /\ UNCHANGED <<svc, row, made, orphans, events, files>>

RequestStep == Again \/ Publish \/ Record \/ Republish \/ StopAgents

-----------------------------------------------------------------------------
(* The process.                                                            *)

\* An agent that was created and is in no row yet is lost to its service.
Crash ==
  /\ op.kind # "exit" /\ Event
  /\ op' = Exit
  /\ orphans' = orphans \cup {i \in Ids \cap {op.new} : Live(i) /\ \A s \in Services : row[s].owner # i}
  /\ UNCHANGED <<svc, row, files, agent, made>>

\* restore_service_runtime_from_store: the row of a service against the agent
\* it names, then against the definition.
Rebound(r, state) ==
  IF r.owner = None
    THEN IF r.desired THEN [Blocked(r) EXCEPT !.status = "Failed"] ELSE r
    ELSE CASE state = "Running" -> [r EXCEPT !.status = "Running", !.healthy = TRUE]
           [] state = "Paused"  -> [Blocked(r) EXCEPT !.status = "Running"]
           [] OTHER             -> [Blocked(r) EXCEPT !.status = "Failed"]

\* Mutant: the number of restarts is not restored.
RestoreRuntimeForgetful(r, revision) ==
  IF r.revision \notin {0, revision}
    THEN [Fresh(revision) EXCEPT !.status = "Failed", !.owner = r.owner, !.desired = r.desired]
    ELSE [r EXCEPT !.revision = revision, !.count = 0]

RestoreRuntime(r, revision) ==
  IF r.revision \notin {0, revision}
    THEN [Fresh(revision) EXCEPT !.status = "Failed", !.owner = r.owner, !.desired = r.desired,
                                 !.count = r.count]
    ELSE [r EXCEPT !.revision = revision]

\* The agents are rehydrated, one of which may be left out because its
\* sandbox cannot be made; the services are rebound and then booted.
Restart ==
  LET back == [i \in Ids |-> CASE agent[i] = "Missing" -> "Running"
                               [] agent[i] = "Loose" -> "none"
                               [] OTHER -> agent[i]]
      restored == [s \in Services |->
                     LET r == row[s] IN
                     RestoreRuntime(Rebound(r, IF r.owner = None THEN "none" ELSE agent'[r.owner]),
                                    files[s])]
  IN
  /\ op.kind = "exit"
  /\ \/ agent' = back /\ UNCHANGED events
     \/ \E i \in Ids : back[i] = "Running" /\ Event /\ agent' = [back EXCEPT ![i] = "Missing"]
  /\ svc' = restored
  /\ row' = [s \in Services |-> IF row[s].revision = 0 THEN row[s] ELSE restored[s]]
  /\ op' = Operation("boot", Calls("boot", Order))
  /\ UNCHANGED <<made, orphans, files>>

\* boot_services starts what is not wanted yet; the rest is left to the
\* supervisor, which begins when the boot has succeeded.
Boot ==
  /\ At("boot", "begin")
  /\ IF svc[This].desired THEN Skip ELSE Instead(Starts(<<This>>))
  /\ UNCHANGED <<svc, row, agent, made, orphans, events, files>>

-----------------------------------------------------------------------------
(* The surroundings.                                                       *)

\* Agents are paused, resumed and killed by their users.
Disturb(i) ==
  /\ op.kind # "exit"
  /\ \/ agent[i] = "Running" /\ SetAgent(i, "Paused") /\ Event
     \/ agent[i] = "Paused" /\ SetAgent(i, "Running") /\ UNCHANGED events
     \/ Live(i) /\ SetAgent(i, "Stopped") /\ Event
  /\ UNCHANGED <<svc, row, made, op, orphans, files>>

\* A delay or a window ends.  A sweep looks at the clock when it begins.
DelayEnds(s) ==
  /\ op.kind = "idle" /\ svc[s].next = "later"
  /\ svc' = [svc EXCEPT ![s].next = "due"]
  /\ row' = [row EXCEPT ![s].next = IF @ = "later" THEN "due" ELSE @]
  /\ UNCHANGED <<agent, made, op, orphans, events, files>>

WindowEnds(s) ==
  /\ op.kind = "idle" /\ svc[s].window = "open"
  /\ svc' = [svc EXCEPT ![s].window = "over"]
  /\ row' = [row EXCEPT ![s].window = IF @ = "open" THEN "over" ELSE @]
  /\ UNCHANGED <<agent, made, op, orphans, events, files>>

Init ==
  /\ svc = [s \in Services |-> Fresh(1)] /\ row = [s \in Services |-> Fresh(0)]
  /\ files = [s \in Services |-> 1]
  /\ agent = [i \in Ids |-> "none"] /\ made = [i \in Ids |-> Order[1]]
  /\ op = Operation("boot", Calls("boot", Order))
  /\ orphans = {} /\ tries = [s \in Services |-> 0]
  /\ events = 0

\* A restart by the supervisor, in the window that is open.
Remember ==
  tries' = [s \in Services |->
              IF svc'[s].window # "open" THEN 0
              ELSE IF op.kind = "sweep" /\ At("start", "create") /\ This = s /\ op' # op
                     THEN tries[s] + 1 ELSE tries[s]]

Step == StartStep \/ StopStep \/ SweepStep \/ RequestStep \/ Boot

Action ==
  \/ Step \/ Sweep \/ Reload \/ Shutdown \/ Crash \/ Restart
  \/ \E s \in Services : StartService(s) \/ StopService(s) \/ RestartService(s) \/ Edit(s)
                         \/ DelayEnds(s) \/ WindowEnds(s)
  \/ \E i \in Ids : Disturb(i)

Next == Action /\ Remember

Spec == Init /\ [][Next]_vars

\* The task that holds the lock is polled and the supervisor's loop ticks.
\* Time passes however often the supervisor sweeps, hence the strong fairness
\* of the two clocks.
FairSpec ==
  /\ Spec
  /\ WF_vars(Step /\ Remember) /\ WF_vars(Sweep /\ Remember)
  /\ \A s \in Services : SF_vars(DelayEnds(s) /\ Remember) /\ SF_vars(WindowEnds(s) /\ Remember)

-----------------------------------------------------------------------------
(* Properties.                                                             *)

\* An agent that runs for a service is the owner that the supervisor knows, in
\* memory while the process lives and in its row when it does not, or the one
\* that is being started: every operation stops an owner before it forgets it,
\* whatever fails and wherever the process dies.  The exceptions are counted
\* in `orphans': a crash between create_agent_grouped and the row that says
\* started, and the undoing of a rollout that ignores a failed stop.
OwnersTracked ==
  \A i \in Ids : Live(i) =>
    \/ i \in orphans \/ i = op.new
    \/ IF op.kind = "exit" THEN row[made[i]].owner = i ELSE svc[made[i]].owner = i

\* In one restart window the supervisor makes at most max_restarts attempts to
\* start a service again, also when the process dies and comes back in it.
AttemptsBounded == \A s \in Services : tries[s] <= MaxRestarts

\* A service does not keep running without what it requires: it is stopped, or
\* what it requires is back, whatever happens between the sweeps.
DependentsFollow ==
  \A s \in {d \in Services : Requires[d] # {}} :
    op.kind = "idle" /\ svc[s].status = "Running" /\ svc[s].desired /\ ~RequiredReady(s)
      ~> svc[s].status # "Running" \/ RequiredReady(s) \/ op.kind = "exit"

\* A failed service that is wanted and restarts always is up again in the end,
\* through failed attempts, exhausted windows, and operations that fail half
\* way, unless what it requires is down, the process ends, or its owner could
\* not be rehydrated (an agent that is not there cannot be stopped, and the
\* restart is deferred for ever).
FailedIsRetried ==
  \A s \in Services : Policy[s] = "Always" =>
    (svc[s].status = "Failed" /\ svc[s].desired
       ~> \/ Available(s) \/ ~svc[s].desired \/ ~RequiredReady(s)
          \/ svc[s].owner # None /\ OwnerState(svc[s]) = "Missing"
          \/ op.kind \in {"rollback", "exit"})
=============================================================================
