---------------------------- MODULE TurnLifecycle ----------------------------
(***************************************************************************)
(* Turns, lifecycle operations and durable checkpoints of agents (lib.rs,  *)
(* context.rs, execution.rs).                                              *)
(*                                                                         *)
(* A request sends a message, resumes a checkpoint, pauses, stops or kills *)
(* an agent.  Three locks order them: the operator-state barrier, one for  *)
(* the kernel, taken by every lifecycle operation; the lifecycle lock of   *)
(* the agent; and the mutex of the agent's executor, held during a turn.   *)
(* A turn performs tool calls one after the other; a pause cancels it at a *)
(* boundary between them and its progress becomes a row of the checkpoint  *)
(* table.  Requests may be dropped by the wire server's timeout, and the   *)
(* process may crash; agent states and rows are durable.                   *)
(*                                                                         *)
(* Messages, tenants, provider choice and usage are left out, and so are   *)
(* failing database writes.  A turn is named by the request that sent it.  *)
(***************************************************************************)
EXTENDS Naturals, Sequences, FiniteSets

CONSTANTS
  Agents,
  Requests,    \* numbered as they arrive
  MaxSteps,    \* bound on the tool calls of a turn
  Cap,         \* MAX_GENERATION_CHECKPOINTS_PER_AGENT
  MaxCrashes,  \* bound on crashes
  None,
  Past         \* the turn that an earlier process paused

ASSUME LifecycleConstants ==
  /\ MaxSteps \in Nat /\ Cap \in Nat \ {0} /\ MaxCrashes \in Nat
  /\ None \notin Agents \cup Requests \cup {Past} /\ Past \notin Requests

VARIABLES
  state,       \* AgentState in memory
  disk,        \* AgentState in the database
  barrier,     \* holder of the operator-state barrier
  lifecycle,   \* holder of each agent's lifecycle lock
  executor,    \* holder of each agent's executor
  registered,  \* active_cancellations: the turn whose token is registered
  rows,        \* generation_checkpoints, in the order of created_at
  request,     \* the requests
  ran,         \* history: tool calls performed in each turn
  replayed,    \* history: turns that performed a tool call twice
  excused,     \* history: turns whose progress an error or a crash discarded
  crashes      \* number of crashes so far

locks   == <<barrier, lifecycle, executor>>
history == <<ran, replayed, excused>>
vars    == <<state, disk, barrier, lifecycle, executor, registered, rows, request,
             ran, replayed, excused, crashes>>

Terminal == {"Stopping", "Stopped"}

NewRequest == [kind |-> "none", agent |-> None, pc |-> "new", turn |-> None, steps |-> 0,
               row |-> 0, cancelled |-> "no", result |-> "none"]

Agent(r) == request[r].agent
At(r, kinds, pc) == request[r].kind \in kinds /\ request[r].pc = pc
Arriving(r) == request[r].pc = "new" /\ \A q \in Requests : q < r => request[q].pc # "new"

Turns == Requests \cup {Past}

\* The kernel has rehydrated its agents, one of which may have a checkpoint
\* of a turn that was paused before the restart and its first tool call.
Init ==
  /\ state \in [Agents -> {"Running", "Paused"}]
  /\ disk = state
  /\ barrier = None
  /\ lifecycle = [a \in Agents |-> None]
  /\ executor = [a \in Agents |-> None]
  /\ registered = [a \in Agents |-> None]
  /\ \/ rows = <<>>
     \/ \E a \in Agents :
          rows = <<[agent |-> a, turn |-> Past, steps |-> 0, status |-> "active"]>>
  /\ request = [r \in Requests |-> NewRequest]
  /\ ran = [t \in Turns |-> 0]
  /\ replayed = {} /\ excused = {}
  /\ crashes = 0

-----------------------------------------------------------------------------
(* The pieces operations are made of.                                      *)

Go(r, pc) == request' = [request EXCEPT ![r].pc = pc]

\* The reply is sent; only the success of a pause is remembered.
Reply(r) == request' = [request EXCEPT ![r] = [NewRequest EXCEPT !.pc = "done"]]

Drop(lock, r) == [a \in Agents |-> IF lock[a] = r THEN None ELSE lock[a]]

\* Every guard that the request holds goes out of scope.
ReleaseLocks(r) ==
  /\ barrier' = IF barrier = r THEN None ELSE barrier
  /\ lifecycle' = Drop(lifecycle, r)
  /\ executor' = Drop(executor, r)

\* The state in memory and in the database, which is written next.
SetState(a, s) == state' = [state EXCEPT ![a] = s] /\ disk' = [disk EXCEPT ![a] = s]

\* active_cancellations.get(..).cancel(), by a pause or a stop.
Cancelled(a, by) ==
  [r \in Requests |-> IF r = registered[a] /\ request[r].cancelled = "no"
                        THEN [request[r] EXCEPT !.cancelled = by] ELSE request[r]]

\* The active rows of an agent, and the newest of them (list_generation_checkpoints).
Active(a) == {i \in 1..Len(rows) : rows[i].agent = a /\ rows[i].status = "active"}
Newest(a) == IF Active(a) = {} THEN 0
             ELSE CHOOSE i \in Active(a) : \A j \in Active(a) : j <= i

\* Mutant: any row may be claimed.
ClaimableAny(i, a) == i \in 1..Len(rows) /\ rows[i].agent = a

\* A row that was consumed, deleted or pruned is gone: nothing tells these apart.
\* claim_generation_checkpoint: what it does not refuse.
Claimable(i, a) == i \in Active(a)

Marked(table, i, from, to) ==
  [j \in 1..Len(table) |-> IF j = i /\ table[j].status = from
                             THEN [table[j] EXCEPT !.status = to] ELSE table[j]]

\* save_generation_checkpoint: the new row, and at most Cap active ones.
Saved(table, r) ==
  LET all  == Append(table, [agent |-> Agent(r), turn |-> request[r].turn,
                             steps |-> request[r].steps, status |-> "active"])
      mine == {i \in 1..Len(all) : all[i].agent = Agent(r) /\ all[i].status = "active"}
  IN [i \in 1..Len(all) |->
        IF i \in mine /\ Cardinality({j \in mine : j > i}) >= Cap
          THEN [all[i] EXCEPT !.status = "gone"] ELSE all[i]]

-----------------------------------------------------------------------------
(* SendMessage.                                                            *)

\* The agent must be runnable; its executor is created under the lifecycle
\* lock, for which a provider session is opened.
StartSend(r, a) ==
  /\ Arriving(r) /\ lifecycle[a] = None /\ state[a] = "Running"
  /\ request' = [request EXCEPT ![r] = [NewRequest EXCEPT !.kind = "send", !.agent = a,
                                                          !.pc = "connect", !.turn = r]]
  /\ lifecycle' = [lifecycle EXCEPT ![a] = r]
  /\ UNCHANGED <<state, disk, barrier, executor, registered, rows, history, crashes>>

Connect(r) ==
  /\ At(r, {"send"}, "connect")
  /\ Go(r, "acquire") \/ Reply(r)
  /\ lifecycle' = Drop(lifecycle, r)
  /\ UNCHANGED <<state, disk, barrier, executor, registered, rows, history, crashes>>

\* State and executor are taken together, under the lifecycle lock, which is
\* never awaited with the executor in hand.
Acquire(r) ==
  LET a == Agent(r) IN
  /\ At(r, {"send"}, "acquire") /\ lifecycle[a] = None
  /\ IF state[a] # "Running"
       THEN /\ Reply(r)
            /\ UNCHANGED <<executor, registered>>
       ELSE /\ executor[a] = None
            /\ executor' = [executor EXCEPT ![a] = r]
            /\ registered' = [registered EXCEPT ![a] = r]
            /\ Go(r, "admit")
  /\ UNCHANGED <<state, disk, barrier, lifecycle, rows, history, crashes>>

-----------------------------------------------------------------------------
(* A turn, of SendMessage or of a resumed checkpoint.                      *)

\* A slot is granted, or the wait for one is cancelled.
Admitted(r) ==
  /\ request[r].pc = "admit"
  /\ Go(r, "running")
  /\ UNCHANGED <<state, disk, locks, registered, rows, history, crashes>>

\* The admission queue is full, or the wait timed out.  A resumed checkpoint
\* stays claimed and its agent runnable.
Refused(r) ==
  /\ request[r].pc = "admit"
  /\ Reply(r) /\ ReleaseLocks(r)
  /\ registered' = [registered EXCEPT ![Agent(r)] = None]
  /\ UNCHANGED <<state, disk, rows, history, crashes>>

\* The next tool call, whose result joins the messages of the turn.
CallTool(r) ==
  LET t == request[r].turn
      n == request[r].steps + 1
  IN
  /\ request[r].pc = "running" /\ request[r].cancelled = "no" /\ n <= MaxSteps
  /\ request' = [request EXCEPT ![r].steps = n]
  /\ ran' = [ran EXCEPT ![t] = IF n > @ THEN n ELSE @]
  /\ replayed' = IF n <= ran[t] THEN replayed \cup {t} ELSE replayed
  /\ UNCHANGED <<state, disk, locks, registered, rows, excused, crashes>>

\* Mutant: a turn gives its executor back before its checkpoint is saved.
RunEndsEarly(r) ==
  /\ request[r].pc = "running"
  /\ \E result \in {"completed", "failed", "paused"} :
       /\ result = "paused" => request[r].cancelled # "no"
       /\ request' = [request EXCEPT ![r].pc = "settle", ![r].result = result]
  /\ registered' = [registered EXCEPT ![Agent(r)] = None]
  /\ executor' = Drop(executor, r)
  /\ UNCHANGED <<state, disk, barrier, lifecycle, rows, history, crashes>>

\* The loop ends with an answer, an error or, if it was cancelled, a pause.
\* The token goes; a resumed turn also gives the executor back here.
RunEnds(r) ==
  /\ request[r].pc = "running"
  /\ \E result \in {"completed", "failed", "paused"} :
       /\ result = "paused" => request[r].cancelled # "no"
       /\ request' = [request EXCEPT ![r].pc = "settle", ![r].result = result]
  /\ registered' = [registered EXCEPT ![Agent(r)] = None]
  /\ executor' = IF request[r].kind = "resume" THEN Drop(executor, r) ELSE executor
  /\ UNCHANGED <<state, disk, barrier, lifecycle, rows, history, crashes>>

\* Mutant: the lifecycle lock is awaited with the executor in hand.
SettleSendLocked(r) ==
  /\ At(r, {"send"}, "settle") /\ lifecycle[Agent(r)] = None
  /\ rows' = IF request[r].result = "paused" /\ state[Agent(r)] = "Paused"
               THEN Saved(rows, r) ELSE rows
  /\ Reply(r) /\ ReleaseLocks(r)
  /\ UNCHANGED <<state, disk, registered, history, crashes>>

\* A paused turn is saved if the agent is paused, else dropped.
SettleSend(r) ==
  /\ At(r, {"send"}, "settle")
  /\ rows' = IF request[r].result = "paused" /\ state[Agent(r)] = "Paused"
               THEN Saved(rows, r) ELSE rows
  /\ Reply(r) /\ ReleaseLocks(r)
  /\ UNCHANGED <<state, disk, registered, history, crashes>>

-----------------------------------------------------------------------------
(* ResumeAgent and ResumeGenerationCheckpoint.                             *)

\* Any lifecycle operation; a resume names a row or asks for the newest.
StartOperation(r, a) ==
  /\ Arriving(r)
  /\ \E kind \in {"resume", "pause", "stop", "kill"}, i \in 0..Len(rows) :
       /\ i # 0 => kind = "resume"
       /\ request' = [request EXCEPT ![r] = [NewRequest EXCEPT !.kind = kind, !.agent = a,
                                                               !.pc = "barrier", !.row = i]]
  /\ UNCHANGED <<state, disk, locks, registered, rows, history, crashes>>

\* operator_control.mutation_guard().
TakeBarrier(r) ==
  /\ request[r].pc = "barrier" /\ barrier = None
  /\ barrier' = r
  /\ Go(r, "lock")
  /\ UNCHANGED <<state, disk, lifecycle, executor, registered, rows, history, crashes>>

\* Under the lifecycle lock: nothing to do, nothing to restore, or a claim.
LockResume(r) ==
  LET a == Agent(r)
      i == IF request[r].row = 0 THEN Newest(a) ELSE request[r].row
  IN
  /\ At(r, {"resume"}, "lock") /\ lifecycle[a] = None
  /\ IF state[a] = "Paused" /\ Claimable(i, a)
       THEN /\ request' = [request EXCEPT ![r].pc = "executor", ![r].row = i]
            /\ rows' = [rows EXCEPT ![i].status = "resuming"]
            /\ lifecycle' = [lifecycle EXCEPT ![a] = r]
            /\ UNCHANGED <<state, disk, barrier, executor>>
       ELSE /\ IF state[a] = "Paused" /\ i = 0 THEN SetState(a, "Running")
               ELSE UNCHANGED <<state, disk>>
            /\ Reply(r) /\ ReleaseLocks(r)
            /\ UNCHANGED rows
  /\ UNCHANGED <<registered, history, crashes>>

\* The provider or the model changed, or no session can be opened.
ResumeMismatch(r) ==
  /\ At(r, {"resume"}, "executor")
  /\ rows' = Marked(rows, request[r].row, "resuming", "active")
  /\ Reply(r) /\ ReleaseLocks(r)
  /\ UNCHANGED <<state, disk, registered, history, crashes>>

\* The executor is idle: the agent becomes runnable and the turn continues
\* where its row ends.  The lifecycle lock is released, the barrier is kept.
ResumeTurn(r) ==
  LET a == Agent(r)
      row == rows[request[r].row]
  IN
  /\ At(r, {"resume"}, "executor") /\ executor[a] = None
  /\ SetState(a, "Running")
  /\ executor' = [executor EXCEPT ![a] = r]
  /\ registered' = [registered EXCEPT ![a] = r]
  /\ lifecycle' = Drop(lifecycle, r)
  /\ request' = [request EXCEPT ![r].pc = "admit", ![r].turn = row.turn, ![r].steps = row.steps]
  /\ UNCHANGED <<barrier, rows, history, crashes>>

\* A completed turn consumes its row.  A paused one is saved in a new row
\* before the old one is consumed, unless the agent is not paused; then, and
\* after an error, the old row is given back.
SettleResume(r) ==
  LET i == request[r].row
      a == Agent(r)
  IN
  /\ At(r, {"resume"}, "settle")
  /\ \/ /\ request[r].result = "completed"
        /\ rows' = Marked(rows, i, "resuming", "gone")
        /\ Reply(r) /\ ReleaseLocks(r)
        /\ UNCHANGED excused
     \/ /\ request[r].result = "failed"
        /\ rows' = Marked(rows, i, "resuming", "active")
        /\ excused' = excused \cup {request[r].turn}
        /\ Go(r, "repause") /\ UNCHANGED locks
     \/ /\ request[r].result = "paused"
        /\ IF state[a] = "Paused"
             THEN /\ executor[a] = None
                  /\ rows' = Marked(Saved(rows, r), i, "resuming", "gone")
                  /\ UNCHANGED excused
             ELSE /\ rows' = Marked(rows, i, "resuming", "active")
                  /\ excused' = excused \cup {request[r].turn}
        /\ Reply(r) /\ ReleaseLocks(r)
  /\ UNCHANGED <<state, disk, registered, ran, replayed, crashes>>

\* After an error the agent is paused again, if it is still runnable.
Repause(r) ==
  LET a == Agent(r) IN
  /\ At(r, {"resume"}, "repause") /\ lifecycle[a] = None
  /\ IF state[a] = "Running" THEN SetState(a, "Paused") ELSE UNCHANGED <<state, disk>>
  /\ Reply(r) /\ ReleaseLocks(r)
  /\ UNCHANGED <<registered, rows, history, crashes>>

-----------------------------------------------------------------------------
(* PauseAgent, StopAgent and KillAgent.                                    *)

\* The agent stops being runnable, its turn is cancelled and awaited.
LockPause(r) ==
  LET a == Agent(r) IN
  /\ At(r, {"pause"}, "lock") /\ lifecycle[a] = None
  /\ IF state[a] = "Running"
       THEN /\ SetState(a, "Paused")
            /\ request' = [Cancelled(a, "pause") EXCEPT ![r].pc = "quiesce"]
            /\ lifecycle' = [lifecycle EXCEPT ![a] = r]
            /\ UNCHANGED <<barrier, executor>>
       ELSE /\ Reply(r) /\ ReleaseLocks(r)
            /\ UNCHANGED <<state, disk>>
  /\ UNCHANGED <<registered, rows, history, crashes>>

\* Stop awaits the turn before anything is written.
LockStop(r) ==
  LET a == Agent(r) IN
  /\ At(r, {"stop"}, "lock") /\ lifecycle[a] = None
  /\ CASE state[a] = "Stopped"  -> /\ Reply(r) /\ ReleaseLocks(r)
       [] state[a] = "Stopping" -> /\ Go(r, "cleanup")
                                   /\ lifecycle' = [lifecycle EXCEPT ![a] = r]
                                   /\ UNCHANGED <<barrier, executor>>
       [] OTHER -> /\ request' = [Cancelled(a, "stop") EXCEPT ![r].pc = "quiesce"]
                   /\ lifecycle' = [lifecycle EXCEPT ![a] = r]
                   /\ UNCHANGED <<barrier, executor>>
  /\ UNCHANGED <<state, disk, registered, rows, history, crashes>>

\* quiesce_agent returns: the executor is idle.
Quiesced(r) ==
  /\ request[r].pc = "quiesce" /\ executor[Agent(r)] = None
  /\ IF request[r].kind = "pause"
       THEN /\ request' = [request EXCEPT ![r] = [NewRequest EXCEPT !.pc = "done", !.result = "ok"]]
            /\ ReleaseLocks(r) /\ UNCHANGED disk
       ELSE Go(r, "stopping") /\ UNCHANGED locks /\ disk' = [disk EXCEPT ![Agent(r)] = "Stopping"]
  /\ UNCHANGED <<state, registered, rows, history, crashes>>

\* TOOL_DRAIN_TIMEOUT: the turn stays cancelled, and a pause stays in force.
QuiesceTimeout(r) ==
  /\ request[r].pc = "quiesce" /\ executor[Agent(r)] # None
  /\ Reply(r) /\ ReleaseLocks(r)
  /\ UNCHANGED <<state, disk, registered, rows, history, crashes>>

\* Mutant: the durable marker is written last.
LockKillUnmarked(r) ==
  LET a == Agent(r) IN
  /\ At(r, {"kill"}, "lock") /\ lifecycle[a] = None
  /\ IF state[a] = "Stopped" THEN Reply(r) /\ ReleaseLocks(r)
     ELSE /\ Go(r, IF state[a] = "Stopping" THEN "cleanup" ELSE "stopping")
          /\ lifecycle' = [lifecycle EXCEPT ![a] = r]
          /\ UNCHANGED <<barrier, executor>>
  /\ UNCHANGED <<state, disk, registered, rows, history, crashes>>

\* Kill does not wait: the durable marker is written first.
LockKill(r) ==
  LET a == Agent(r) IN
  /\ At(r, {"kill"}, "lock") /\ lifecycle[a] = None
  /\ IF state[a] = "Stopped" THEN Reply(r) /\ ReleaseLocks(r) /\ UNCHANGED disk
     ELSE /\ Go(r, IF state[a] = "Stopping" THEN "cleanup" ELSE "stopping")
          /\ disk' = [disk EXCEPT ![a] = "Stopping"]
          /\ lifecycle' = [lifecycle EXCEPT ![a] = r]
          /\ UNCHANGED <<barrier, executor>>
  /\ UNCHANGED <<state, registered, rows, history, crashes>>

\* force_stopping, and the cancellation of a turn that kill did not await.
Terminate(r) ==
  LET a == Agent(r) IN
  /\ request[r].pc = "stopping"
  /\ state' = [state EXCEPT ![a] = "Stopping"]
  /\ request' = [Cancelled(a, "stop") EXCEPT ![r].pc = "cleanup"]
  /\ UNCHANGED <<disk, locks, registered, rows, history, crashes>>

\* cleanup_agent_resources, then the terminal state.
CleanUp(r) ==
  LET a == Agent(r) IN
  /\ request[r].pc = "cleanup"
  /\ SetState(a, "Stopped")
  /\ registered' = [registered EXCEPT ![a] = None]
  /\ Reply(r) /\ ReleaseLocks(r)
  /\ UNCHANGED <<rows, history, crashes>>

-----------------------------------------------------------------------------
(* Checkpoint housekeeping, dropped requests and crashes.                  *)

\* delete_generation_checkpoint, or the end of a row's 24 hours: an expired
\* row is neither listed nor claimed, and it is pruned by the next save.
Forget(i) ==
  /\ rows[i].status # "gone"
  /\ rows' = [rows EXCEPT ![i].status = "gone"]
  /\ UNCHANGED <<state, disk, locks, registered, request, history, crashes>>

\* The wire server drops the future of a request that takes too long, at one
\* of its await points.  The guards are dropped with it, and of a sent turn
\* also its registration.
RequestTimeout(r) ==
  LET a == Agent(r) IN
  /\ request[r].pc \notin {"new", "done", "settle", "stopping"}
  /\ Reply(r) /\ ReleaseLocks(r)
  /\ registered' = IF request[r].kind = "send" /\ registered[a] = r
                     THEN [registered EXCEPT ![a] = None] ELSE registered
  /\ excused' = excused \cup ({request[r].turn} \ {None})
  /\ UNCHANGED <<state, disk, rows, ran, replayed, crashes>>

\* The process dies and boots again: rehydration completes a stop and the
\* claims of the dead process are re-armed.
Crash ==
  /\ crashes < MaxCrashes
  /\ crashes' = crashes + 1
  /\ disk' = [a \in Agents |-> IF disk[a] \in Terminal THEN "Stopped" ELSE disk[a]]
  /\ state' = disk'
  /\ rows' = [i \in 1..Len(rows) |-> IF rows[i].status = "resuming"
                                      THEN [rows[i] EXCEPT !.status = "active"] ELSE rows[i]]
  /\ barrier' = None
  /\ lifecycle' = [a \in Agents |-> None]
  /\ executor' = [a \in Agents |-> None]
  /\ registered' = [a \in Agents |-> None]
  /\ excused' = excused \cup ({request[r].turn : r \in Requests} \ {None})
  /\ request' = [r \in Requests |-> IF request[r].pc \in {"new", "done"} THEN request[r]
                                    ELSE [NewRequest EXCEPT !.pc = "done"]]
  /\ UNCHANGED <<ran, replayed>>

-----------------------------------------------------------------------------

Turn(r) == Connect(r) \/ Acquire(r) \/ Admitted(r) \/ Refused(r) \/ CallTool(r) \/ RunEnds(r)
             \/ SettleSend(r) \/ SettleResume(r) \/ Repause(r)

Operation(r) == TakeBarrier(r) \/ LockResume(r) \/ ResumeMismatch(r) \/ ResumeTurn(r)
                  \/ LockPause(r) \/ LockStop(r) \/ LockKill(r)
                  \/ Quiesced(r) \/ Terminate(r) \/ CleanUp(r)

Next ==
  \/ \E r \in Requests :
       \/ Turn(r) \/ Operation(r) \/ QuiesceTimeout(r) \/ RequestTimeout(r)
       \/ \E a \in Agents : StartSend(r, a) \/ StartOperation(r, a)
  \/ \E i \in 1..Len(rows) : Forget(i)
  \/ Crash

Spec == Init /\ [][Next]_vars

\* Every handler goes on when it can, and providers and tools answer in the
\* end; nothing makes a timeout fire, a client call or the process crash.
FairSpec == Spec /\ \A r \in Requests : WF_vars(Turn(r) \/ Operation(r))

-----------------------------------------------------------------------------
(* Properties.                                                             *)

Holders == Requests \cup {None}
AgentStates == {"Running", "Paused"} \cup Terminal
Row == [agent : Agents, turn : Turns, steps : Nat, status : {"active", "resuming", "gone"}]
Request(n) ==
  [kind : {"none", "send", "resume", "pause", "stop", "kill"},
   agent : Agents \cup {None}, turn : Turns \cup {None}, steps : Nat, row : 0..n,
   cancelled : {"no", "pause", "stop"},
   pc : {"new", "connect", "acquire", "barrier", "lock", "executor", "admit", "running",
         "settle", "repause", "quiesce", "stopping", "cleanup", "done"},
   result : {"none", "ok", "completed", "failed", "paused"}]

TypeOK ==
  /\ state \in [Agents -> AgentStates] /\ disk \in [Agents -> AgentStates]
  /\ barrier \in Holders
  /\ lifecycle \in [Agents -> Holders] /\ executor \in [Agents -> Holders]
  /\ registered \in [Agents -> Holders]
  /\ rows \in Seq(Row)
  /\ request \in [Requests -> Request(Len(rows))]
  /\ ran \in [Turns -> Nat] /\ replayed \subseteq Turns /\ excused \subseteq Turns
  /\ crashes \in Nat

\* "This prevents replay after an orderly pause or server restart"
\* (docs/CHECKPOINTS.md): a turn performs a tool call twice only after an
\* error, a dropped request or a crash discarded progress that no row holds.
NoReplay == replayed \subseteq excused

\* "A crash can therefore never re-admit a partially killed agent" (lib.rs),
\* and no tool call is made for an agent once it is terminal: terminal states
\* are never left, in memory or over a restart, whatever resumes and failing
\* turns do meanwhile.
TerminalIsFinal ==
  [][\A a \in Agents :
       /\ disk[a] \in Terminal \/ state[a] \in Terminal => disk'[a] \in Terminal
       /\ state[a] \in Terminal => state'[a] \in Terminal
       /\ \A r \in Requests :
            Agent(r) = a /\ request[r].pc = "running" /\ request'[r].steps > request[r].steps
              => state[a] \notin Terminal]_vars

\* A pause that reports success has captured the turn it interrupted: nobody
\* runs or is about to save a turn of the agent (quiesce_agent).
PauseReturnsQuiet ==
  [][\A r \in Requests :
       At(r, {"pause"}, "quiesce") /\ request'[r].result = "ok" =>
         \A q \in Requests : Agent(q) = Agent(r) => request[q].pc \notin {"admit", "running", "settle"}]_vars

\* Nobody waits for ever on the barrier, a lifecycle lock or an executor: the
\* order of the three admits no deadlock.
EveryRequestAnswered == \A r \in Requests : request[r].pc # "new" ~> request[r].pc = "done"

\* "in-flight work checkpoints at a safe boundary" (docs/SCHEDULER.md): a
\* turn that a pause cancelled is saved, unless the agent was stopped.
PausedTurnsAreCaptured ==
  [][\A r \in Requests :
       (/\ At(r, {"send"}, "settle") /\ request'[r].pc = "done"
        /\ request[r].result = "paused" /\ request[r].cancelled = "pause")
       => state[Agent(r)] \in Terminal \/ Len(rows') > Len(rows)]_vars
=============================================================================
