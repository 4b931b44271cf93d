------------------------- MODULE TurnLifecycleProofs -------------------------
(***************************************************************************)
(* For every set of agents and requests, length of turns, cap of the       *)
(* checkpoint table and number of crashes: terminal states are final and   *)
(* silent, a pause that reports success leaves nobody running or saving,   *)
(* and no tool call is repeated unless progress was lost by an error.      *)
(***************************************************************************)
EXTENDS TurnLifecycle, SequenceTheorems, TLAPS

PlacesOf == [none |-> {"new", "done"},
             send |-> {"connect", "acquire", "admit", "running", "settle"},
             resume |-> {"barrier", "lock", "executor", "admit", "running", "settle", "repause"},
             pause |-> {"barrier", "lock", "quiesce"},
             stop |-> {"barrier", "lock", "quiesce", "stopping", "cleanup"},
             kill |-> {"barrier", "lock", "stopping", "cleanup"}]

\* Where a request is, by its kind; it has an agent from its arrival.
Placed(r) ==
  /\ request[r].pc \in PlacesOf[request[r].kind]
  /\ request[r].kind # "none" => Agent(r) \in Agents

\* The locks that a request holds at its place.
Locked(r) ==
  /\ request[r].pc \in {"connect", "executor", "quiesce", "stopping", "cleanup"}
       => lifecycle[Agent(r)] = r
  /\ request[r].kind \in {"resume", "pause", "stop", "kill"} /\ request[r].pc # "barrier"
       => barrier = r
  /\ (request[r].pc \in {"admit", "running"} \/ At(r, {"send"}, "settle"))
       => executor[Agent(r)] = r

\* A turn can be cancelled until its agent is terminal, and then it has been.
Reached(r) ==
  request[r].pc \in {"admit", "running"} =>
    IF state[Agent(r)] \in Terminal THEN request[r].cancelled # "no"
    ELSE registered[Agent(r)] = r

\* What a request under the lifecycle lock relies on.
Awaited(r) ==
  /\ request[r].pc = "executor" => state[Agent(r)] = "Paused"
  /\ request[r].pc = "stopping" => disk[Agent(r)] \in Terminal
  /\ request[r].pc = "cleanup" => state[Agent(r)] \in Terminal

\* The database is terminal before the memory is, and only while a stop or a
\* kill is between its two writes.
DiskFirst ==
  \A a \in Agents :
    /\ state[a] \in Terminal => disk[a] \in Terminal
    /\ disk[a] \in Terminal /\ state[a] \notin Terminal =>
         \E r \in Requests : request[r].pc = "stopping" /\ Agent(r) = a

LifeInv ==
  DiskFirst /\ \A r \in Requests : Placed(r) /\ Locked(r) /\ Reached(r) /\ Awaited(r)

Carrying == {"connect", "acquire", "admit", "running", "settle"}
Present(i) == i \in 1..Len(rows) /\ rows[i].status # "gone"

\* A resume has claimed its row, and its turn may be ahead of it.
Claims(r) == request[r].kind = "resume" /\ request[r].pc \in {"executor", "admit", "running", "settle"}
Ahead(r)  == request[r].kind = "resume" /\ request[r].pc \in {"running", "settle"}

\* A request that has not arrived has left no trace.
Fresh(r) ==
  request[r].pc = "new" =>
    ran[r] = 0 /\ request[r].turn = None /\ \A i \in 1..Len(rows) : rows[i].turn # r

\* A request carries its turn as far as it has run.  What is sent has no row
\* before it settles; what is resumed has the row that was claimed for it, and
\* no other.
Carried(r) ==
  /\ request[r].pc \in Carrying =>
       /\ request[r].turn \in Turns
       /\ request[r].turn \notin excused => request[r].steps = ran[request[r].turn]
  /\ request[r].kind = "send" =>
       request[r].turn = r /\ \A i \in 1..Len(rows) : rows[i].turn # r
  /\ request[r].pc \notin Carrying /\ request[r].turn # None => request[r].turn \in excused

Claimed(r) ==
  Claims(r) =>
    /\ request[r].row \in 1..Len(rows) /\ rows[request[r].row].status # "active"
    /\ request[r].pc # "executor" => request[r].turn = rows[request[r].row].turn
    /\ rows[request[r].row].turn \notin excused =>
         /\ request[r].pc = "executor" =>
              rows[request[r].row].steps = ran[rows[request[r].row].turn]
         /\ \A i \in 1..Len(rows) : Present(i) /\ rows[i].turn = rows[request[r].row].turn
                                       => i = request[r].row

\* A row that can be claimed, now or after a crash, holds all that its turn has
\* performed, unless the turn is running; and it is the only one of its turn.
Current(i) ==
  Present(i) /\ rows[i].turn \notin excused =>
    /\ \/ rows[i].steps = ran[rows[i].turn]
       \/ \E r \in Requests : Ahead(r) /\ request[r].row = i
    /\ \A j \in 1..Len(rows) : Present(j) /\ rows[j].turn = rows[i].turn => j = i

ReplayInv ==
  /\ NoReplay
  /\ \A r \in Requests : Fresh(r) /\ Carried(r) /\ Claimed(r)
  /\ \A i \in 1..Len(rows) : Current(i)

\* Only a request that is over reports success.
ReportsLast == \A r \in Requests : request[r].result = "ok" => request[r].pc = "done"

IInv == TypeOK /\ LifeInv /\ ReplayInv /\ ReportsLast

-----------------------------------------------------------------------------
(* The table of checkpoints.                                               *)

\* A function on 1..n is a sequence of length n.
LEMMA SeqOf ==
  ASSUME NEW S, NEW n \in Nat, NEW f \in [1..n -> S]
  PROVE  f \in Seq(S) /\ Len(f) = n
<1>1. f \in Seq(S)
  OBVIOUS
<1>2. Len(f) \in Nat /\ 1..Len(f) = 1..n
  BY <1>1, LenProperties
<1> QED BY <1>1, <1>2

\* A table that keeps what the rows say; none comes back.
Keeps(new, old) ==
  /\ new \in Seq(Row) /\ Len(new) >= Len(old)
  /\ \A i \in 1..Len(old) :
       /\ new[i].agent = old[i].agent /\ new[i].turn = old[i].turn /\ new[i].steps = old[i].steps
       /\ old[i].status = "gone" => new[i].status = "gone"

\* One row changes its status.
LEMMA MarkedKeeps ==
  ASSUME NEW t \in Seq(Row), NEW i \in Nat, NEW from \in {"active", "resuming"},
         NEW to \in {"active", "resuming", "gone"}
  PROVE  /\ Keeps(Marked(t, i, from, to), t) /\ Len(Marked(t, i, from, to)) = Len(t)
         /\ \A j \in 1..Len(t) :
              Marked(t, i, from, to)[j].status =
                IF j = i /\ t[j].status = from THEN to ELSE t[j].status
<1> DEFINE m == Marked(t, i, from, to)
<1>1. Len(t) \in Nat /\ \A j \in 1..Len(t) : t[j] \in Row
  BY LenProperties
<1>2. ASSUME NEW j \in 1..Len(t)
      PROVE  /\ m[j] = IF j = i /\ t[j].status = from THEN [t[j] EXCEPT !.status = to] ELSE t[j]
             /\ m[j] \in Row /\ m[j].agent = t[j].agent /\ m[j].turn = t[j].turn
             /\ m[j].steps = t[j].steps
             /\ m[j].status = IF j = i /\ t[j].status = from THEN to ELSE t[j].status
  <2>1. m[j] = IF j = i /\ t[j].status = from THEN [t[j] EXCEPT !.status = to] ELSE t[j]
    BY DEF Marked
  <2> QED BY <1>1, <2>1 DEF Row
<1>3. m \in [1..Len(t) -> Row]
  <2>1. m = [j \in 1..Len(t) |-> m[j]]
    BY DEF Marked
  <2> QED BY <1>2, <2>1
<1>4. m \in Seq(Row) /\ Len(m) = Len(t)
  BY <1>1, <1>3, SeqOf
<1> HIDE DEF m
<1>5. \A j \in 1..Len(t) :
        /\ m[j].agent = t[j].agent /\ m[j].turn = t[j].turn /\ m[j].steps = t[j].steps
        /\ t[j].status = "gone" => m[j].status = "gone"
  BY <1>2
<1>6. Keeps(m, t)
  BY <1>1, <1>4, <1>5 DEF Keeps
<1> QED BY <1>2, <1>4, <1>6 DEF m

\* save_generation_checkpoint adds a row and prunes active ones.
LEMMA SavedKeeps ==
  ASSUME NEW t \in Seq(Row), NEW r \in Requests, Agent(r) \in Agents,
         request[r].turn \in Turns, request[r].steps \in Nat
  PROVE  /\ Keeps(Saved(t, r), t) /\ Len(Saved(t, r)) = Len(t) + 1
         /\ Saved(t, r)[Len(t) + 1].turn = request[r].turn
         /\ Saved(t, r)[Len(t) + 1].steps = request[r].steps
         /\ \A j \in 1..Len(t) : \/ Saved(t, r)[j].status = t[j].status
                                 \/ t[j].status = "active" /\ Saved(t, r)[j].status = "gone"
<1> DEFINE e == [agent |-> Agent(r), turn |-> request[r].turn, steps |-> request[r].steps,
                 status |-> "active"]
           s == Saved(t, r)
<1>1. Len(t) \in Nat /\ \A j \in 1..Len(t) : t[j] \in Row
  BY LenProperties
<1>2. e \in Row /\ e.turn = request[r].turn /\ e.steps = request[r].steps
  BY DEF Row
<1> HIDE DEF e
<1>3. PICK all : all = Append(t, e)
  OBVIOUS
<1>4. /\ all \in Seq(Row) /\ Len(all) = Len(t) + 1 /\ all[Len(t) + 1] = e
      /\ \A j \in 1..Len(t) : all[j] = t[j]
  BY <1>2, <1>3, AppendProperties
<1>5. PICK pruned : pruned = {i \in 1..Len(all) :
        i \in {k \in 1..Len(all) : all[k].agent = Agent(r) /\ all[k].status = "active"}
        /\ Cardinality({j \in {k \in 1..Len(all) :
                                 all[k].agent = Agent(r) /\ all[k].status = "active"} : j > i}) >= Cap}
  OBVIOUS
<1>6. s = [i \in 1..Len(all) |-> IF i \in pruned THEN [all[i] EXCEPT !.status = "gone"] ELSE all[i]]
  BY <1>3, <1>5 DEF Saved, e
<1>7. \A i \in pruned : all[i].status = "active"
  BY <1>5
<1>8. ASSUME NEW i \in 1..Len(all)
      PROVE  /\ s[i] \in Row /\ s[i].agent = all[i].agent /\ s[i].turn = all[i].turn
             /\ s[i].steps = all[i].steps
             /\ s[i].status = all[i].status \/ (all[i].status = "active" /\ s[i].status = "gone")
  <2>1. all[i] \in Row
    BY <1>4, LenProperties
  <2>2. s[i] = IF i \in pruned THEN [all[i] EXCEPT !.status = "gone"] ELSE all[i]
    BY <1>6
  <2> HIDE DEF s
  <2> QED BY <1>7, <2>1, <2>2 DEF Row
<1>9. s \in Seq(Row) /\ Len(s) = Len(t) + 1
  <2>1. s = [i \in 1..Len(all) |-> s[i]]
    BY <1>6
  <2>2. Len(all) \in Nat
    BY <1>1, <1>4
  <2> HIDE DEF s
  <2>3. s \in [1..Len(all) -> Row]
    BY <1>8, <2>1
  <2> QED BY <1>4, <2>2, <2>3, SeqOf
<1> HIDE DEF s
<1>10. 1..Len(t) \subseteq 1..Len(all) /\ Len(t) + 1 \in 1..Len(all)
  BY <1>1, <1>4
<1>11. Keeps(s, t)
  BY <1>1, <1>4, <1>8, <1>9, <1>10 DEF Keeps
<1> QED BY <1>2, <1>4, <1>8, <1>9, <1>10, <1>11 DEF s

-----------------------------------------------------------------------------
(* Locks, states and places.                                               *)

\* A step of one request leaves to the others their places and their locks.
\* It may cancel them.
OthersStay(r) ==
  \A x \in Requests \ {r} :
    /\ request'[x].kind = request[x].kind /\ request'[x].pc = request[x].pc
    /\ request'[x].agent = request[x].agent
    /\ request[x].cancelled # "no" => request'[x].cancelled # "no"
    /\ barrier = x => barrier' = x
    /\ \A a \in Agents : /\ lifecycle[a] = x => lifecycle'[a] = x
                         /\ executor[a] = x => executor'[a] = x

\* It changes the state of an agent only where no other request holds the
\* lifecycle lock, and none that is terminal.
StatesStay(r) ==
  \A a \in Agents :
    /\ \/ state'[a] = state[a] /\ disk'[a] = disk[a]
       \/ \A x \in Requests \ {r} : lifecycle[a] # x
    /\ state[a] \in Terminal => state'[a] \in Terminal
    /\ disk[a] \in Terminal => disk'[a] \in Terminal

\* It takes the registration of no running turn, and it cancels the turns of
\* an agent that it makes terminal.
TurnsStay(r) ==
  \A x \in Requests \ {r} : request[x].pc \in {"admit", "running"} =>
    /\ state'[Agent(x)] \in Terminal /\ state[Agent(x)] \notin Terminal
         => request'[x].cancelled # "no"
    /\ state'[Agent(x)] \notin Terminal /\ registered[Agent(x)] = x
         => registered'[Agent(x)] = x

\* An active request has an agent.
LEMMA HasAgent ==
  ASSUME LifeInv, NEW r \in Requests, request[r].pc \notin {"new", "done"}
  PROVE  Agent(r) \in Agents /\ request[r].kind # "none"
  BY DEF LifeInv, Placed, PlacesOf

\* The kind of a request, by its place.
LEMMA KindOf ==
  ASSUME TypeOK, LifeInv, NEW r \in Requests
  PROVE  /\ request[r].pc \in {"admit", "running", "settle"} => request[r].kind \in {"send", "resume"}
         /\ request[r].pc \in {"connect", "acquire"} => request[r].kind = "send"
         /\ request[r].pc \in {"barrier", "lock"}
              => request[r].kind \in {"resume", "pause", "stop", "kill"}
         /\ request[r].pc \in {"executor", "repause"} => request[r].kind = "resume"
         /\ request[r].pc = "quiesce" => request[r].kind \in {"pause", "stop"}
         /\ request[r].pc \in {"stopping", "cleanup"} => request[r].kind \in {"stop", "kill"}
         /\ request[r].kind = "none" <=> request[r].pc \in {"new", "done"}
<1>1. /\ request[r].kind \in {"none", "send", "resume", "pause", "stop", "kill"}
      /\ request[r].pc \in PlacesOf[request[r].kind]
  BY DEF TypeOK, Request, LifeInv, Placed
<1>2. PICK k \in {"none", "send", "resume", "pause", "stop", "kill"} : k = request[r].kind
  BY <1>1
<1>3. PICK p : p = request[r].pc
  OBVIOUS
<1>4. p \in PlacesOf[k]
  BY <1>1, <1>2, <1>3
<1>5. CASE k = "none"
  BY <1>2, <1>3, <1>4, <1>5 DEF PlacesOf
<1>6. CASE k = "send"
  BY <1>2, <1>3, <1>4, <1>6 DEF PlacesOf
<1>7. CASE k = "resume"
  BY <1>2, <1>3, <1>4, <1>7 DEF PlacesOf
<1>8. CASE k = "pause"
  BY <1>2, <1>3, <1>4, <1>8 DEF PlacesOf
<1>9. CASE k = "stop"
  BY <1>2, <1>3, <1>4, <1>9 DEF PlacesOf
<1>10. CASE k = "kill"
  BY <1>2, <1>3, <1>4, <1>10 DEF PlacesOf
<1> QED BY <1>2, <1>5, <1>6, <1>7, <1>8, <1>9, <1>10

\* A step of one request, which leaves to the others what they rely on, need only
\* be shown right for that request and for the two copies of the states.
LEMMA LifeStep ==
  ASSUME LifeInv, NEW r \in Requests, OthersStay(r), StatesStay(r), TurnsStay(r), DiskFirst',
         Placed(r)', Locked(r)', Reached(r)', Awaited(r)'
  PROVE  LifeInv'
<1> SUFFICES ASSUME NEW x \in Requests, x # r
             PROVE  Placed(x)' /\ Locked(x)' /\ Reached(x)' /\ Awaited(x)'
  BY DEF LifeInv
<1>1. /\ request'[x].kind = request[x].kind /\ request'[x].pc = request[x].pc
      /\ request'[x].agent = request[x].agent
      /\ request[x].cancelled # "no" => request'[x].cancelled # "no"
      /\ barrier = x => barrier' = x
      /\ \A a \in Agents : /\ lifecycle[a] = x => lifecycle'[a] = x
                           /\ executor[a] = x => executor'[a] = x
  BY DEF OthersStay
<1>2. Agent(x)' = Agent(x)
  BY <1>1 DEF Agent
<1>3. Placed(x) /\ Locked(x) /\ Reached(x) /\ Awaited(x)
  BY DEF LifeInv
<1>4. request[x].pc \notin {"new", "done"} => Agent(x) \in Agents
  BY HasAgent
<1>5. Placed(x)'
  BY <1>1, <1>2, <1>3 DEF Placed
<1>6. Locked(x)'
  BY <1>1, <1>2, <1>3, <1>4 DEF Locked, At
<1>7. Reached(x)'
  <2> SUFFICES ASSUME request[x].pc \in {"admit", "running"}
               PROVE  IF state'[Agent(x)] \in Terminal THEN request'[x].cancelled # "no"
                      ELSE registered'[Agent(x)] = x
    BY <1>1, <1>2 DEF Reached
  <2>1. Agent(x) \in Agents
    BY <1>4
  <2>2. IF state[Agent(x)] \in Terminal THEN request[x].cancelled # "no"
        ELSE registered[Agent(x)] = x
    BY <1>3 DEF Reached
  <2>3. CASE state[Agent(x)] \in Terminal
    BY <1>1, <2>1, <2>2, <2>3 DEF StatesStay
  <2>4. CASE state[Agent(x)] \notin Terminal
    BY <2>2, <2>4 DEF TurnsStay
  <2> QED BY <2>3, <2>4
<1>8. Awaited(x)'
  <2> SUFFICES ASSUME request[x].pc \in {"executor", "stopping", "cleanup"}
               PROVE  state'[Agent(x)] = state[Agent(x)] /\ disk'[Agent(x)] = disk[Agent(x)]
    BY <1>1, <1>2, <1>3 DEF Awaited
  <2>1. Agent(x) \in Agents /\ lifecycle[Agent(x)] = x
    BY <1>3, <1>4 DEF Locked
  <2> QED BY <2>1 DEF StatesStay
<1> QED BY <1>5, <1>6, <1>7, <1>8

\* Nothing is written and no stop is between its writes.
LEMMA DiskKept ==
  ASSUME LifeInv, NEW r \in Requests, OthersStay(r), UNCHANGED <<state, disk>>,
         request[r].pc # "stopping"
  PROVE  DiskFirst'
<1> SUFFICES ASSUME NEW a \in Agents, disk[a] \in Terminal, state[a] \notin Terminal
             PROVE  \E x \in Requests : request'[x].pc = "stopping" /\ Agent(x)' = a
  BY DEF DiskFirst, LifeInv
<1>1. PICK x \in Requests : request[x].pc = "stopping" /\ Agent(x) = a
  BY DEF LifeInv, DiskFirst
<1> QED BY <1>1 DEF OthersStay, Agent

\* Both copies of the state of one agent are written.
LEMMA DiskSet ==
  ASSUME LifeInv, TypeOK, NEW r \in Requests, OthersStay(r), NEW a \in Agents, NEW s, SetState(a, s),
         request[r].pc # "stopping"
  PROVE  DiskFirst'
<1>1. /\ state'[a] = s /\ disk'[a] = s
      /\ \A b \in Agents : b # a => state'[b] = state[b] /\ disk'[b] = disk[b]
  BY DEF SetState, TypeOK
<1> SUFFICES ASSUME NEW b \in Agents, b # a
             PROVE  /\ state[b] \in Terminal => disk[b] \in Terminal
                    /\ disk[b] \in Terminal /\ state[b] \notin Terminal =>
                         \E x \in Requests : request'[x].pc = "stopping" /\ Agent(x)' = b
  BY <1>1 DEF DiskFirst
<1>2. state[b] \in Terminal => disk[b] \in Terminal
  BY DEF LifeInv, DiskFirst
<1>3. ASSUME disk[b] \in Terminal, state[b] \notin Terminal
      PROVE  \E x \in Requests : request'[x].pc = "stopping" /\ Agent(x)' = b
  <2>1. PICK x \in Requests : request[x].pc = "stopping" /\ Agent(x) = b
    BY <1>3 DEF LifeInv, DiskFirst
  <2> QED BY <2>1 DEF OthersStay, Agent
<1> QED BY <1>2, <1>3

\* A request takes the record q, and the others theirs.
Becomes(r, q) ==
  /\ request'[r] = q
  /\ \A x \in Requests \ {r} : request'[x] = request[x]

\* An assignment to one request.
LEMMA BecomesBy ==
  ASSUME TypeOK, NEW r \in Requests, NEW q, request' = [request EXCEPT ![r] = q]
  PROVE  Becomes(r, q)
  BY DEF TypeOK, Becomes

\* A request that goes on changes its place only.
LEMMA NextBecomes ==
  ASSUME TypeOK, NEW r \in Requests, NEW p, Go(r, p)
  PROVE  \E q : /\ Becomes(r, q) /\ q = [request[r] EXCEPT !.pc = p]
                /\ q.kind = request[r].kind /\ q.agent = request[r].agent /\ q.pc = p
                /\ q.turn = request[r].turn /\ q.steps = request[r].steps /\ q.row = request[r].row
                /\ q.cancelled = request[r].cancelled /\ q.result = request[r].result
<1>1. request[r] \in Request(Len(rows))
  BY DEF TypeOK
<1>2. PICK q : q = [request[r] EXCEPT !.pc = p]
  OBVIOUS
<1>3. request' = [request EXCEPT ![r] = q]
  BY <1>2 DEF Go, TypeOK
<1>4. /\ q.kind = request[r].kind /\ q.agent = request[r].agent /\ q.pc = p
      /\ q.turn = request[r].turn /\ q.steps = request[r].steps /\ q.row = request[r].row
      /\ q.cancelled = request[r].cancelled /\ q.result = request[r].result
  BY <1>1, <1>2 DEF Request
<1> QED BY <1>2, <1>3, <1>4, BecomesBy

\* A request is over: it has no kind, no agent and no turn.
Over(q) == /\ q.kind = "none" /\ q.pc = "done" /\ q.agent = None /\ q.turn = None
           /\ q.steps = 0 /\ q.row = 0 /\ q.cancelled = "no" /\ q.result \in {"none", "ok"}
Ends(r) == \E q : Over(q) /\ Becomes(r, q)

\* A reply ends the request.
LEMMA ReplyEnds ==
  ASSUME TypeOK, NEW r \in Requests,
         \/ Reply(r)
         \/ request' = [request EXCEPT ![r] = [NewRequest EXCEPT !.pc = "done", !.result = "ok"]]
  PROVE  Ends(r)
<1>1. CASE Reply(r)
  <2>1. PICK q : q = [NewRequest EXCEPT !.pc = "done"]
    OBVIOUS
  <2> QED BY <1>1, <2>1, BecomesBy DEF Reply, NewRequest, Over, Ends
<1>2. CASE request' = [request EXCEPT ![r] = [NewRequest EXCEPT !.pc = "done", !.result = "ok"]]
  <2>1. PICK q : q = [NewRequest EXCEPT !.pc = "done", !.result = "ok"]
    OBVIOUS
  <2> QED BY <1>2, <2>1, BecomesBy DEF NewRequest, Over, Ends
<1> QED BY <1>1, <1>2

\* The others keep their locks when the guards of a request go.
LocksStay(r) ==
  \A x \in Requests \ {r} :
    /\ barrier = x => barrier' = x
    /\ \A a \in Agents : /\ lifecycle[a] = x => lifecycle'[a] = x
                         /\ executor[a] = x => executor'[a] = x

\* The guards that go are the request's own.
LEMMA ReleaseKeeps ==
  ASSUME TypeOK, NEW r \in Requests, ReleaseLocks(r)
  PROVE  LocksStay(r)
  BY DEF ReleaseLocks, Drop, LocksStay, TypeOK

\* A change of one request and of its locks leaves the others to themselves.
LEMMA BecomesStays ==
  ASSUME NEW r \in Requests, NEW q, Becomes(r, q), LocksStay(r)
  PROVE  OthersStay(r)
  BY DEF Becomes, LocksStay, OthersStay

\* A request that is over needs nothing.
LEMMA EndsLife ==
  ASSUME LifeInv, NEW r \in Requests, Ends(r), LocksStay(r), StatesStay(r), TurnsStay(r), DiskFirst'
  PROVE  LifeInv'
<1>1. PICK q : Over(q) /\ Becomes(r, q)
  BY DEF Ends
<1>2. request'[r] = q /\ OthersStay(r)
  BY <1>1, BecomesStays DEF Becomes
<1>3. Placed(r)' /\ Locked(r)' /\ Reached(r)' /\ Awaited(r)'
  BY <1>1, <1>2 DEF Over, Placed, Locked, Reached, Awaited, At, PlacesOf
<1> QED BY <1>2, <1>3, LifeStep

\* A request ends without a write, and not between the writes of a stop.
LEMMA EndsQuietly ==
  ASSUME LifeInv, NEW r \in Requests, Ends(r), LocksStay(r), UNCHANGED <<state, disk>>, TurnsStay(r),
         request[r].pc # "stopping"
  PROVE  LifeInv'
<1>1. StatesStay(r)
  BY DEF StatesStay
<1>2. OthersStay(r)
  BY BecomesStays DEF Ends
<1> QED BY <1>1, <1>2, DiskKept, EndsLife

\* The registrations stay: no running turn is lost sight of.
LEMMA RegistrationsStay ==
  ASSUME NEW r \in Requests, registered' = registered,
         \A a \in Agents : state'[a] \in Terminal => state[a] \in Terminal,
         LifeInv
  PROVE  TurnsStay(r)
  BY HasAgent DEF TurnsStay

\* A pause or a stop cancels the turn that is registered and goes on.
Cancels(r, a, p) ==
  /\ request'[r].kind = request[r].kind /\ request'[r].agent = request[r].agent
  /\ request'[r].turn = request[r].turn /\ request'[r].steps = request[r].steps
  /\ request'[r].row = request[r].row /\ request'[r].pc = p
  /\ request'[r].result = request[r].result
  /\ request' \in [Requests -> Request(Len(rows))]
  /\ \A x \in Requests \ {r} :
       /\ request'[x].kind = request[x].kind /\ request'[x].pc = request[x].pc
       /\ request'[x].agent = request[x].agent /\ request'[x].turn = request[x].turn
       /\ request'[x].steps = request[x].steps /\ request'[x].row = request[x].row
       /\ request'[x].result = request[x].result
       /\ request[x].cancelled # "no" => request'[x].cancelled # "no"
       /\ registered[a] = x => request'[x].cancelled # "no"

\* active_cancellations: who is registered is cancelled, and nothing else changes.
LEMMA CancelBy ==
  ASSUME TypeOK, NEW r \in Requests, NEW a \in Agents, NEW by \in {"pause", "stop"},
         NEW p \in {"quiesce", "cleanup"}, request' = [Cancelled(a, by) EXCEPT ![r].pc = p]
  PROVE  Cancels(r, a, p)
<1>1. \A x \in Requests : request[x] \in Request(Len(rows))
  BY DEF TypeOK
<1>2. PICK c : c = Cancelled(a, by)
  OBVIOUS
<1>3. ASSUME NEW x \in Requests
      PROVE  /\ c[x] \in Request(Len(rows))
             /\ c[x].kind = request[x].kind /\ c[x].pc = request[x].pc
             /\ c[x].agent = request[x].agent /\ c[x].turn = request[x].turn
             /\ c[x].steps = request[x].steps /\ c[x].row = request[x].row
             /\ c[x].result = request[x].result
             /\ request[x].cancelled # "no" => c[x].cancelled # "no"
             /\ registered[a] = x => c[x].cancelled # "no"
  <2>1. c[x] = IF x = registered[a] /\ request[x].cancelled = "no"
                 THEN [request[x] EXCEPT !.cancelled = by] ELSE request[x]
    BY <1>2 DEF Cancelled
  <2>2. PICK y : y = [request[x] EXCEPT !.cancelled = by]
    OBVIOUS
  <2>3. /\ y \in Request(Len(rows)) /\ y.kind = request[x].kind /\ y.pc = request[x].pc
        /\ y.agent = request[x].agent /\ y.turn = request[x].turn
        /\ y.steps = request[x].steps /\ y.row = request[x].row /\ y.result = request[x].result
        /\ y.cancelled = by
    BY <1>1, <2>2 DEF Request
  <2>4. by # "no"
    OBVIOUS
  <2> QED BY <1>1, <2>1, <2>2, <2>3, <2>4
<1>4. c = [x \in Requests |-> c[x]]
  BY <1>2 DEF Cancelled
<1>5. PICK q : q = [c[r] EXCEPT !.pc = p]
  OBVIOUS
<1>6. request' = [c EXCEPT ![r] = q]
  BY <1>2, <1>4, <1>5
<1>7. /\ q \in Request(Len(rows)) /\ q.kind = c[r].kind /\ q.agent = c[r].agent
      /\ q.turn = c[r].turn /\ q.steps = c[r].steps /\ q.row = c[r].row /\ q.pc = p
      /\ q.result = c[r].result
  BY <1>3, <1>5 DEF Request
<1>8. request'[r] = q /\ \A x \in Requests \ {r} : request'[x] = c[x]
  BY <1>4, <1>6
<1>9. request' \in [Requests -> Request(Len(rows))]
  BY <1>3, <1>4, <1>6, <1>7
<1>10. /\ request'[r].kind = request[r].kind /\ request'[r].agent = request[r].agent
       /\ request'[r].turn = request[r].turn /\ request'[r].steps = request[r].steps
       /\ request'[r].row = request[r].row /\ request'[r].pc = p
       /\ request'[r].result = request[r].result
  BY <1>3, <1>7, <1>8
<1>11. ASSUME NEW x \in Requests \ {r}
       PROVE  /\ request'[x].kind = request[x].kind /\ request'[x].pc = request[x].pc
              /\ request'[x].agent = request[x].agent /\ request'[x].turn = request[x].turn
              /\ request'[x].steps = request[x].steps /\ request'[x].row = request[x].row
              /\ request'[x].result = request[x].result
              /\ request[x].cancelled # "no" => request'[x].cancelled # "no"
              /\ registered[a] = x => request'[x].cancelled # "no"
  <2>1. request'[x] = c[x]
    BY <1>8
  <2> QED BY <1>3, <2>1
<1> QED BY <1>9, <1>10, <1>11 DEF Cancels

\* A cancellation leaves to the others their places and their locks.
LEMMA CancelStays ==
  ASSUME NEW r \in Requests, NEW a, NEW p, Cancels(r, a, p), LocksStay(r)
  PROVE  OthersStay(r) /\ Agent(r)' = Agent(r) /\ request'[r].kind = request[r].kind
         /\ request'[r].pc = p
  BY DEF Cancels, LocksStay, OthersStay, Agent

\* Where nobody is between the writes of a stop, the two copies agree.
LEMMA NotStopping ==
  ASSUME LifeInv, NEW a \in Agents, state[a] \notin Terminal,
         \A x \in Requests : request[x].pc = "stopping" => lifecycle[a] # x
  PROVE  disk[a] \notin Terminal
<1> SUFFICES ASSUME disk[a] \in Terminal PROVE FALSE
  OBVIOUS
<1>1. PICK x \in Requests : request[x].pc = "stopping" /\ Agent(x) = a
  BY DEF LifeInv, DiskFirst
<1> QED BY <1>1 DEF LifeInv, Locked

\* A free lock is held by nobody.
LEMMA NoneNoRequest == None \notin Requests /\ \A r \in Requests : r # None
  BY LifecycleConstants

\* A state is written where no stop is between its writes.
LEMMA StatesSet ==
  ASSUME LifeInv, TypeOK, NEW r \in Requests, NEW a \in Agents, NEW s \in AgentStates, SetState(a, s),
         state[a] \notin Terminal, lifecycle[a] = None \/ (lifecycle[a] = r /\ request[r].pc # "stopping")
  PROVE  StatesStay(r) /\ \A b \in Agents : b # a => state'[b] = state[b]
<1>1. disk[a] \notin Terminal
  BY NotStopping, NoneNoRequest
<1>2. /\ state'[a] = s
      /\ \A b \in Agents : b # a => state'[b] = state[b] /\ disk'[b] = disk[b]
  BY DEF SetState, TypeOK
<1>3. \A x \in Requests \ {r} : lifecycle[a] # x
  BY NoneNoRequest
<1> QED BY <1>1, <1>2, <1>3 DEF StatesStay

\* SendMessage arrives.
LEMMA StartSendLife ==
  ASSUME TypeOK, LifeInv, NEW r \in Requests, NEW a \in Agents, StartSend(r, a)
  PROVE  LifeInv'
<1>1. /\ UNCHANGED <<state, disk, barrier, executor, registered>> /\ request[r].pc = "new"
      /\ lifecycle[a] = None /\ lifecycle' = [lifecycle EXCEPT ![a] = r]
  BY DEF StartSend, Arriving
<1>2. PICK q : q = [NewRequest EXCEPT !.kind = "send", !.agent = a, !.pc = "connect", !.turn = r]
  OBVIOUS
<1>3. Becomes(r, q) /\ q.kind = "send" /\ q.agent = a /\ q.pc = "connect"
  BY <1>2, BecomesBy DEF StartSend, NewRequest
<1>4. LocksStay(r) /\ lifecycle'[a] = r
  BY <1>1, NoneNoRequest DEF LocksStay, TypeOK
<1>5. OthersStay(r)
  BY <1>3, <1>4, BecomesStays
<1>6. Placed(r)' /\ Locked(r)' /\ Reached(r)' /\ Awaited(r)'
  BY <1>3, <1>4 DEF Becomes, Placed, Locked, Reached, Awaited, At, PlacesOf, Agent
<1>7. StatesStay(r) /\ DiskFirst'
  BY <1>1, <1>5, DiskKept DEF StatesStay
<1> QED BY <1>1, <1>5, <1>6, <1>7, LifeStep, RegistrationsStay

\* A provider session is opened, or is not.
LEMMA ConnectLife ==
  ASSUME TypeOK, LifeInv, NEW r \in Requests, Connect(r)
  PROVE  LifeInv'
<1>1. /\ UNCHANGED <<state, disk, barrier, executor, registered>> /\ lifecycle' = Drop(lifecycle, r)
      /\ request[r].pc = "connect" /\ request[r].kind = "send"
  BY DEF Connect, At
<1>2. LocksStay(r)
  BY <1>1 DEF LocksStay, TypeOK, Drop
<1>3. TurnsStay(r) /\ StatesStay(r)
  BY <1>1, RegistrationsStay DEF StatesStay
<1>4. CASE Reply(r)
  BY <1>1, <1>2, <1>3, <1>4, ReplyEnds, EndsQuietly
<1>5. CASE Go(r, "acquire")
  <2>1. PICK q : /\ Becomes(r, q) /\ q.kind = "send" /\ q.agent = Agent(r) /\ q.pc = "acquire"
    BY <1>1, <1>5, NextBecomes DEF Agent
  <2>2. OthersStay(r)
    BY <1>2, <2>1, BecomesStays
  <2>3. Placed(r)' /\ Locked(r)' /\ Reached(r)' /\ Awaited(r)'
    BY <1>1, <2>1, HasAgent DEF Becomes, Placed, Locked, Reached, Awaited, At, PlacesOf, Agent
  <2> QED BY <1>1, <1>3, <2>2, <2>3, LifeStep, DiskKept
<1> QED BY <1>4, <1>5 DEF Connect

\* The executor is taken, or the agent is found not to be runnable.
LEMMA AcquireLife ==
  ASSUME TypeOK, LifeInv, NEW r \in Requests, Acquire(r)
  PROVE  LifeInv'
<1> DEFINE a == Agent(r)
<1>1. /\ UNCHANGED <<state, disk, barrier, lifecycle>>
      /\ request[r].pc = "acquire" /\ request[r].kind = "send" /\ a \in Agents
  BY HasAgent DEF Acquire, At
<1>2. StatesStay(r)
  BY <1>1 DEF StatesStay
<1>3. CASE state[a] # "Running"
  <2>1. Reply(r) /\ UNCHANGED <<executor, registered>>
    BY <1>3 DEF Acquire
  <2>2. LocksStay(r) /\ TurnsStay(r)
    BY <1>1, <2>1, RegistrationsStay DEF LocksStay
  <2> QED BY <1>1, <2>1, <2>2, ReplyEnds, EndsQuietly
<1>4. CASE state[a] = "Running"
  <2>1. /\ executor[a] = None /\ executor' = [executor EXCEPT ![a] = r]
        /\ registered' = [registered EXCEPT ![a] = r] /\ Go(r, "admit")
    BY <1>4 DEF Acquire
  <2>2. PICK q : Becomes(r, q) /\ q.kind = "send" /\ q.agent = a /\ q.pc = "admit"
    BY <1>1, <2>1, NextBecomes DEF Agent
  <2>3. LocksStay(r) /\ executor'[a] = r /\ registered'[a] = r
    BY <1>1, <2>1, NoneNoRequest DEF LocksStay, TypeOK
  <2>4. OthersStay(r)
    BY <2>2, <2>3, BecomesStays
  <2>5. Placed(r)' /\ Locked(r)' /\ Reached(r)' /\ Awaited(r)'
    BY <1>1, <1>4, <2>2, <2>3 DEF Becomes, Placed, Locked, Reached, Awaited, At, PlacesOf, Agent,
       Terminal
  <2>6. TurnsStay(r)
    <3>1. \A x \in Requests \ {r} : request[x].pc \in {"admit", "running"}
            => Agent(x) \in Agents /\ Agent(x) # a
      BY <2>1, HasAgent, NoneNoRequest DEF LifeInv, Locked
    <3> QED BY <1>1, <2>1, <3>1 DEF TurnsStay, TypeOK
  <2> QED BY <1>1, <1>2, <2>4, <2>5, <2>6, LifeStep, DiskKept
<1> QED BY <1>3, <1>4

\* A turn is under way: only its own request may be registered for its agent.
LEMMA RunsAlone ==
  ASSUME LifeInv, NEW r \in Requests, executor[Agent(r)] = r, NEW x \in Requests, x # r,
         request[x].pc \in {"admit", "running"}
  PROVE  Agent(x) \in Agents /\ Agent(x) # Agent(r)
  BY HasAgent DEF LifeInv, Locked

\* The steps of a turn, which has the executor.
LEMMA TurnLife ==
  ASSUME TypeOK, LifeInv, NEW r \in Requests,
         Admitted(r) \/ Refused(r) \/ CallTool(r) \/ RunEnds(r)
  PROVE  LifeInv'
<1> DEFINE a == Agent(r)
<1>1. /\ UNCHANGED <<state, disk>> /\ request[r].pc \in {"admit", "running"}
      /\ a \in Agents /\ request[r].kind \in {"send", "resume"} /\ executor[a] = r
  <2>1. UNCHANGED <<state, disk>> /\ request[r].pc \in {"admit", "running"}
    BY DEF Admitted, Refused, CallTool, RunEnds
  <2> QED BY <2>1, HasAgent, KindOf DEF LifeInv, Locked
<1>2. StatesStay(r)
  BY <1>1 DEF StatesStay
<1>3. \A x \in Requests \ {r} : request[x].pc \in {"admit", "running"}
        => Agent(x) \in Agents /\ Agent(x) # a
  BY <1>1, RunsAlone
<1>4. CASE Refused(r)
  <2>1. Reply(r) /\ ReleaseLocks(r) /\ registered' = [registered EXCEPT ![a] = None]
    BY <1>4 DEF Refused
  <2>2. TurnsStay(r)
    BY <1>1, <1>3, <2>1 DEF TurnsStay, TypeOK
  <2> QED BY <1>1, <2>1, <2>2, ReplyEnds, ReleaseKeeps, EndsQuietly
<1>5. CASE Admitted(r)
  <2>1. UNCHANGED <<barrier, lifecycle, executor, registered>> /\ Go(r, "running")
    BY <1>5 DEF Admitted, locks
  <2>2. PICK q : /\ Becomes(r, q) /\ q.kind = request[r].kind /\ q.agent = a /\ q.pc = "running"
                 /\ q.cancelled = request[r].cancelled
    BY <2>1, NextBecomes DEF Agent
  <2>3. LocksStay(r) /\ TurnsStay(r)
    BY <1>1, <2>1, RegistrationsStay DEF LocksStay
  <2>4. Placed(r)' /\ Locked(r)' /\ Reached(r)' /\ Awaited(r)'
    <3>1. Placed(r) /\ Locked(r) /\ Reached(r)
      BY DEF LifeInv
    <3> QED BY <1>1, <2>1, <2>2, <3>1 DEF Becomes, Placed, Locked, Reached, Awaited, At, PlacesOf,
                                          Agent
  <2> QED BY <1>1, <1>2, <2>2, <2>3, <2>4, BecomesStays, LifeStep, DiskKept
<1>6. CASE CallTool(r)
  <2>1. /\ UNCHANGED <<barrier, lifecycle, executor, registered>> /\ request[r].pc = "running"
        /\ request' = [request EXCEPT ![r].steps = request[r].steps + 1]
    BY <1>6 DEF CallTool, locks
  <2>2. PICK q : q = [request[r] EXCEPT !.steps = request[r].steps + 1]
    OBVIOUS
  <2>3. /\ Becomes(r, q) /\ q.kind = request[r].kind /\ q.agent = a /\ q.pc = request[r].pc
        /\ q.cancelled = request[r].cancelled
    <3>1. request[r] \in Request(Len(rows)) /\ request' = [request EXCEPT ![r] = q]
      BY <2>1, <2>2 DEF TypeOK
    <3> QED BY <2>2, <3>1, BecomesBy DEF Request, Agent
  <2>4. LocksStay(r) /\ TurnsStay(r)
    BY <1>1, <2>1, RegistrationsStay DEF LocksStay
  <2>5. Placed(r)' /\ Locked(r)' /\ Reached(r)' /\ Awaited(r)'
    <3>1. Placed(r) /\ Locked(r) /\ Reached(r) /\ Awaited(r)
      BY DEF LifeInv
    <3> QED BY <1>1, <2>1, <2>3, <3>1 DEF Becomes, Placed, Locked, Reached, Awaited, At, Agent
  <2> QED BY <1>1, <1>2, <2>3, <2>4, <2>5, BecomesStays, LifeStep, DiskKept
<1>7. CASE RunEnds(r)
  <2>1. /\ UNCHANGED <<barrier, lifecycle>>
        /\ registered' = [registered EXCEPT ![a] = None]
        /\ executor' = IF request[r].kind = "resume" THEN Drop(executor, r) ELSE executor
    BY <1>7 DEF RunEnds
  <2>2. PICK result \in {"completed", "failed", "paused"} :
          request' = [request EXCEPT ![r].pc = "settle", ![r].result = result]
    BY <1>7 DEF RunEnds
  <2>3. PICK q : q = [request[r] EXCEPT !.pc = "settle", !.result = result]
    OBVIOUS
  <2>4. Becomes(r, q) /\ q.kind = request[r].kind /\ q.agent = a /\ q.pc = "settle"
    <3>1. request[r] \in Request(Len(rows)) /\ request' = [request EXCEPT ![r] = q]
      BY <2>2, <2>3 DEF TypeOK
    <3> QED BY <2>3, <3>1, BecomesBy DEF Request, Agent
  <2>5. LocksStay(r)
    BY <2>1 DEF LocksStay, Drop, TypeOK
  <2>6. TurnsStay(r)
    BY <1>1, <1>3, <2>1 DEF TurnsStay, TypeOK
  <2>7. Placed(r)' /\ Locked(r)' /\ Reached(r)' /\ Awaited(r)'
    <3>1. Placed(r) /\ Locked(r)
      BY DEF LifeInv
    <3> QED BY <1>1, <2>1, <2>4, <3>1 DEF Becomes, Placed, Locked, Reached, Awaited, At, PlacesOf,
                                          Agent
  <2> QED BY <1>1, <1>2, <2>4, <2>5, <2>6, <2>7, BecomesStays, LifeStep, DiskKept
<1> QED BY <1>4, <1>5, <1>6, <1>7

\* A turn is settled, a claim is given up or a wait is over: a reply, and the locks.
LEMMA RepliesLife ==
  ASSUME TypeOK, LifeInv, NEW r \in Requests, request[r].pc # "stopping", Ends(r), ReleaseLocks(r),
         UNCHANGED <<state, disk, registered>>
  PROVE  LifeInv'
<1>1. LocksStay(r)
  BY ReleaseKeeps
<1>2. TurnsStay(r)
  BY RegistrationsStay
<1> QED BY <1>1, <1>2, EndsQuietly

\* The steps that give a turn or a claim up without writing a state.
LEMMA SettleLife ==
  ASSUME TypeOK, LifeInv, NEW r \in Requests,
         SettleSend(r) \/ SettleResume(r) \/ ResumeMismatch(r) \/ QuiesceTimeout(r)
  PROVE  LifeInv'
<1>1. UNCHANGED <<state, disk, registered>> /\ request[r].pc \in {"settle", "executor", "quiesce"}
  BY DEF SettleSend, SettleResume, ResumeMismatch, QuiesceTimeout, At
<1>2. CASE Reply(r) /\ ReleaseLocks(r)
  BY <1>1, <1>2, RepliesLife, ReplyEnds
<1>3. CASE SettleResume(r) /\ Go(r, "repause") /\ UNCHANGED locks
  <2>1. request[r].kind = "resume" /\ request[r].pc = "settle"
    BY <1>3 DEF SettleResume, At
  <2>2. PICK q : Becomes(r, q) /\ q.kind = "resume" /\ q.agent = Agent(r) /\ q.pc = "repause"
    BY <1>3, <2>1, NextBecomes DEF Agent
  <2>3. UNCHANGED <<barrier, lifecycle, executor>>
    BY <1>3 DEF locks
  <2>4. LocksStay(r) /\ StatesStay(r) /\ TurnsStay(r)
    BY <1>1, <2>3, RegistrationsStay DEF LocksStay, StatesStay
  <2>5. Placed(r)' /\ Locked(r)' /\ Reached(r)' /\ Awaited(r)'
    <3>1. Locked(r) /\ Agent(r) \in Agents
      BY <2>1, HasAgent DEF LifeInv
    <3> QED BY <2>1, <2>2, <2>3, <3>1 DEF Becomes, Placed, Locked, Reached, Awaited, At, PlacesOf, Agent
  <2> QED BY <1>1, <2>1, <2>2, <2>4, <2>5, BecomesStays, LifeStep, DiskKept
<1>4. SettleResume(r) => (Reply(r) /\ ReleaseLocks(r)) \/ (Go(r, "repause") /\ UNCHANGED locks)
  BY DEF SettleResume
<1> QED BY <1>2, <1>3, <1>4 DEF SettleSend, ResumeMismatch, QuiesceTimeout

\* The state of an agent is written while nobody else holds its lifecycle lock.
LEMMA WritesLife ==
  ASSUME TypeOK, LifeInv, NEW r \in Requests, NEW a \in Agents, NEW s \in {"Running", "Paused"},
         request[r].pc # "stopping", lifecycle[a] \in {None, r}, SetState(a, s), state[a] \notin Terminal
  PROVE  /\ StatesStay(r) /\ (OthersStay(r) => DiskFirst')
         /\ state'[a] = s /\ \A b \in Agents : state'[b] \in Terminal => state[b] \in Terminal
<1>1. s \in AgentStates /\ s \notin Terminal
  BY DEF AgentStates, Terminal
<1>2. state'[a] = s
  BY DEF SetState, TypeOK
<1>3. StatesStay(r) /\ \A b \in Agents : b # a => state'[b] = state[b]
  BY <1>1, StatesSet
<1>4. OthersStay(r) => DiskFirst'
  BY DiskSet
<1>5. \A b \in Agents : state'[b] \in Terminal => state[b] \in Terminal
  BY <1>1, <1>2, <1>3
<1> QED BY <1>2, <1>3, <1>4, <1>5

\* The agent of a resume that failed is paused again.
LEMMA RepauseLife ==
  ASSUME TypeOK, LifeInv, NEW r \in Requests, Repause(r)
  PROVE  LifeInv'
<1> DEFINE a == Agent(r)
<1>1. /\ request[r].pc = "repause" /\ lifecycle[a] = None /\ a \in Agents
      /\ Reply(r) /\ ReleaseLocks(r) /\ registered' = registered
  BY HasAgent DEF Repause, At
<1>2. CASE state[a] # "Running"
  BY <1>1, <1>2, RepliesLife, ReplyEnds DEF Repause
<1>3. CASE state[a] = "Running"
  <2>1. SetState(a, "Paused") /\ state[a] \notin Terminal
    BY <1>3 DEF Repause, Terminal
  <2>2. Ends(r) /\ LocksStay(r) /\ OthersStay(r)
    BY <1>1, ReplyEnds, ReleaseKeeps, BecomesStays DEF Ends
  <2>3. StatesStay(r) /\ DiskFirst' /\ \A b \in Agents : state'[b] \in Terminal => state[b] \in Terminal
    BY <1>1, <2>1, <2>2, WritesLife
  <2> QED BY <1>1, <2>2, <2>3, RegistrationsStay, EndsLife
<1> QED BY <1>2, <1>3

\* A lifecycle operation arrives.
LEMMA StartOperationLife ==
  ASSUME TypeOK, LifeInv, NEW r \in Requests, NEW a \in Agents, StartOperation(r, a)
  PROVE  LifeInv'
<1>1. UNCHANGED <<state, disk, barrier, lifecycle, executor, registered>> /\ request[r].pc = "new"
  BY DEF StartOperation, Arriving, locks
<1>2. PICK kind \in {"resume", "pause", "stop", "kill"}, i \in 0..Len(rows) :
        request' = [request EXCEPT ![r] = [NewRequest EXCEPT !.kind = kind, !.agent = a,
                                                             !.pc = "barrier", !.row = i]]
  BY DEF StartOperation
<1>3. PICK q : q = [NewRequest EXCEPT !.kind = kind, !.agent = a, !.pc = "barrier", !.row = i]
  OBVIOUS
<1>4. Becomes(r, q) /\ q.kind = kind /\ q.agent = a /\ q.pc = "barrier"
  BY <1>2, <1>3, BecomesBy DEF NewRequest
<1>5. LocksStay(r) /\ StatesStay(r) /\ TurnsStay(r)
  BY <1>1, RegistrationsStay DEF LocksStay, StatesStay
<1>6. Placed(r)' /\ Locked(r)' /\ Reached(r)' /\ Awaited(r)'
  BY <1>4 DEF Becomes, Placed, Locked, Reached, Awaited, At, PlacesOf, Agent
<1> QED BY <1>1, <1>4, <1>5, <1>6, BecomesStays, LifeStep, DiskKept

\* operator_control.mutation_guard().
LEMMA TakeBarrierLife ==
  ASSUME TypeOK, LifeInv, NEW r \in Requests, TakeBarrier(r)
  PROVE  LifeInv'
<1>1. /\ UNCHANGED <<state, disk, lifecycle, executor, registered>> /\ request[r].pc = "barrier"
      /\ barrier = None /\ barrier' = r /\ Go(r, "lock")
  BY DEF TakeBarrier
<1>2. PICK q : Becomes(r, q) /\ q.kind = request[r].kind /\ q.agent = Agent(r) /\ q.pc = "lock"
  BY <1>1, NextBecomes DEF Agent
<1>3. LocksStay(r) /\ StatesStay(r) /\ TurnsStay(r)
  BY <1>1, NoneNoRequest, RegistrationsStay DEF LocksStay, StatesStay
<1>4. Agent(r) \in Agents /\ request[r].kind \in {"resume", "pause", "stop", "kill"}
  BY <1>1, HasAgent, KindOf
<1>5. Placed(r)' /\ Locked(r)' /\ Reached(r)' /\ Awaited(r)'
  BY <1>1, <1>2, <1>4 DEF Becomes, Placed, Locked, Reached, Awaited, At, PlacesOf, Agent
<1> QED BY <1>1, <1>2, <1>3, <1>5, BecomesStays, LifeStep, DiskKept

\* A request takes the free lifecycle lock of its agent.
LEMMA TakesLock ==
  ASSUME TypeOK, LifeInv, NEW r \in Requests, NEW a \in Agents, lifecycle[a] = None,
         lifecycle' = [lifecycle EXCEPT ![a] = r], UNCHANGED <<barrier, executor>>
  PROVE  LocksStay(r) /\ lifecycle'[a] = r
  BY NoneNoRequest DEF LocksStay, TypeOK

\* A resume claims its row under the lifecycle lock, or is over.
LEMMA LockResumeLife ==
  ASSUME TypeOK, LifeInv, NEW r \in Requests, LockResume(r)
  PROVE  LifeInv'
<1> DEFINE a == Agent(r)
<1>1. /\ request[r].pc = "lock" /\ request[r].kind = "resume" /\ lifecycle[a] = None /\ a \in Agents
      /\ registered' = registered /\ barrier = r
  BY HasAgent DEF LockResume, At, LifeInv, Locked
<1>2. CASE Reply(r)
  <2>1. ReleaseLocks(r) /\ ((SetState(a, "Running") /\ state[a] = "Paused") \/ UNCHANGED <<state, disk>>)
    <3>1. request'[r].pc = "done"
      BY <1>2 DEF Reply, NewRequest, TypeOK
    <3>2. request' # [request EXCEPT ![r].pc = "executor",
                        ![r].row = IF request[r].row = 0 THEN Newest(a) ELSE request[r].row]
      BY <3>1 DEF TypeOK, Request
    <3> QED BY <3>2 DEF LockResume
  <2>2. CASE UNCHANGED <<state, disk>>
    BY <1>1, <1>2, <2>1, <2>2, RepliesLife, ReplyEnds
  <2>3. CASE SetState(a, "Running") /\ state[a] = "Paused"
    <3>1. Ends(r) /\ LocksStay(r) /\ OthersStay(r) /\ state[a] \notin Terminal
      BY <1>2, <2>1, <2>3, ReplyEnds, ReleaseKeeps, BecomesStays DEF Ends, Terminal
    <3>2. StatesStay(r) /\ DiskFirst' /\ \A b \in Agents : state'[b] \in Terminal => state[b] \in Terminal
      BY <1>1, <2>3, <3>1, WritesLife
    <3> QED BY <1>1, <3>1, <3>2, RegistrationsStay, EndsLife
  <2> QED BY <2>1, <2>2, <2>3
<1>3. CASE ~Reply(r)
  <2>1. PICK i : /\ state[a] = "Paused" /\ UNCHANGED <<state, disk, barrier, executor>>
                 /\ request' = [request EXCEPT ![r].pc = "executor", ![r].row = i]
                 /\ lifecycle' = [lifecycle EXCEPT ![a] = r]
    BY <1>3 DEF LockResume
  <2>2. PICK q : q = [request[r] EXCEPT !.pc = "executor", !.row = i]
    OBVIOUS
  <2>3. Becomes(r, q) /\ q.kind = "resume" /\ q.agent = a /\ q.pc = "executor"
    <3>1. request[r] \in Request(Len(rows)) /\ request' = [request EXCEPT ![r] = q]
      BY <2>1, <2>2 DEF TypeOK
    <3> QED BY <1>1, <2>2, <3>1, BecomesBy DEF Request, Agent
  <2>4. LocksStay(r) /\ lifecycle'[a] = r
    BY <1>1, <2>1, TakesLock
  <2>5. StatesStay(r) /\ TurnsStay(r)
    BY <1>1, <2>1, RegistrationsStay DEF StatesStay
  <2>6. Placed(r)' /\ Locked(r)' /\ Reached(r)' /\ Awaited(r)'
    BY <1>1, <2>1, <2>3, <2>4 DEF Becomes, Placed, Locked, Reached, Awaited, At, PlacesOf, Agent
  <2> QED BY <1>1, <2>1, <2>3, <2>4, <2>5, <2>6, BecomesStays, LifeStep, DiskKept
<1> QED BY <1>2, <1>3

\* A resumed turn takes the idle executor, and its agent becomes runnable.
LEMMA ResumeTurnLife ==
  ASSUME TypeOK, LifeInv, NEW r \in Requests, ResumeTurn(r)
  PROVE  LifeInv'
<1> DEFINE a == Agent(r)
<1>1. /\ request[r].pc = "executor" /\ request[r].kind = "resume" /\ a \in Agents
      /\ lifecycle[a] = r /\ barrier = r /\ state[a] = "Paused"
  BY HasAgent DEF ResumeTurn, At, LifeInv, Locked, Awaited
<1>2. /\ executor[a] = None /\ SetState(a, "Running") /\ executor' = [executor EXCEPT ![a] = r]
      /\ registered' = [registered EXCEPT ![a] = r] /\ lifecycle' = Drop(lifecycle, r)
      /\ barrier' = barrier
  BY DEF ResumeTurn
<1>3. PICK t, n : request' = [request EXCEPT ![r].pc = "admit", ![r].turn = t, ![r].steps = n]
  BY DEF ResumeTurn
<1>4. PICK q : q = [request[r] EXCEPT !.pc = "admit", !.turn = t, !.steps = n]
  OBVIOUS
<1>5. Becomes(r, q) /\ q.kind = "resume" /\ q.agent = a /\ q.pc = "admit"
  <2>1. request[r] \in Request(Len(rows)) /\ request' = [request EXCEPT ![r] = q]
    BY <1>3, <1>4 DEF TypeOK
  <2> QED BY <1>1, <1>4, <2>1, BecomesBy DEF Request, Agent
<1>6. LocksStay(r) /\ executor'[a] = r /\ registered'[a] = r
  BY <1>1, <1>2, NoneNoRequest DEF LocksStay, Drop, TypeOK
<1>7. OthersStay(r)
  BY <1>5, <1>6, BecomesStays
<1>8. StatesStay(r) /\ DiskFirst' /\ state'[a] = "Running"
      /\ \A b \in Agents : state'[b] \in Terminal => state[b] \in Terminal
  BY <1>1, <1>2, <1>7, WritesLife DEF Terminal
<1>9. Placed(r)' /\ Locked(r)' /\ Reached(r)' /\ Awaited(r)'
  BY <1>1, <1>2, <1>5, <1>6, <1>8 DEF Becomes, Placed, Locked, Reached, Awaited, At, PlacesOf, Agent,
     Terminal
<1>10. TurnsStay(r)
  <2>1. \A x \in Requests \ {r} : request[x].pc \in {"admit", "running"}
          => Agent(x) \in Agents /\ Agent(x) # a
    BY <1>2, HasAgent, NoneNoRequest DEF LifeInv, Locked
  <2> QED BY <1>1, <1>2, <1>8, <2>1 DEF TurnsStay, TypeOK
<1> QED BY <1>7, <1>8, <1>9, <1>10, LifeStep

\* The turn of an agent is cancelled where its lifecycle lock is taken.
LEMMA CancelLife ==
  ASSUME TypeOK, LifeInv, NEW r \in Requests, NEW a \in Agents, a = Agent(r), Cancels(r, a, "quiesce"),
         request[r].kind \in {"pause", "stop"}, LocksStay(r), lifecycle'[a] = r, barrier' = r,
         registered' = registered, StatesStay(r), DiskFirst',
         \A b \in Agents : state'[b] \in Terminal => state[b] \in Terminal
  PROVE  LifeInv'
<1>1. OthersStay(r) /\ Agent(r)' = a /\ request'[r].kind = request[r].kind /\ request'[r].pc = "quiesce"
  BY CancelStays
<1>2. Placed(r)' /\ Locked(r)' /\ Reached(r)' /\ Awaited(r)'
  BY <1>1 DEF Placed, Locked, Reached, Awaited, At, PlacesOf
<1> QED BY <1>1, <1>2, LifeStep, RegistrationsStay

\* A pause cancels the turn of its agent.
LEMMA LockPauseLife ==
  ASSUME TypeOK, LifeInv, NEW r \in Requests, LockPause(r)
  PROVE  LifeInv'
<1> DEFINE a == Agent(r)
<1>1. /\ request[r].pc = "lock" /\ request[r].kind = "pause" /\ lifecycle[a] = None /\ a \in Agents
      /\ registered' = registered /\ barrier = r
  BY HasAgent DEF LockPause, At, LifeInv, Locked
<1>2. CASE state[a] # "Running"
  BY <1>1, <1>2, RepliesLife, ReplyEnds DEF LockPause
<1>3. CASE state[a] = "Running"
  <2>1. /\ SetState(a, "Paused") /\ request' = [Cancelled(a, "pause") EXCEPT ![r].pc = "quiesce"]
        /\ lifecycle' = [lifecycle EXCEPT ![a] = r] /\ UNCHANGED <<barrier, executor>>
    BY <1>3 DEF LockPause
  <2>2. Cancels(r, a, "quiesce")
    BY <1>1, <2>1, CancelBy
  <2>3. LocksStay(r) /\ lifecycle'[a] = r /\ barrier' = r
    BY <1>1, <2>1, TakesLock
  <2>4. OthersStay(r)
    BY <2>2, <2>3, CancelStays
  <2>5. StatesStay(r) /\ DiskFirst' /\ \A b \in Agents : state'[b] \in Terminal => state[b] \in Terminal
    BY <1>1, <1>3, <2>1, <2>4, WritesLife DEF Terminal
  <2> QED BY <1>1, <2>2, <2>3, <2>5, CancelLife
<1> QED BY <1>2, <1>3

\* A stop cancels the turn of its agent, or goes on with an earlier stop.
LEMMA LockStopLife ==
  ASSUME TypeOK, LifeInv, NEW r \in Requests, LockStop(r)
  PROVE  LifeInv'
<1> DEFINE a == Agent(r)
<1>1. /\ request[r].pc = "lock" /\ request[r].kind = "stop" /\ lifecycle[a] = None /\ a \in Agents
      /\ registered' = registered /\ barrier = r /\ UNCHANGED <<state, disk>>
  BY HasAgent DEF LockStop, At, LifeInv, Locked
<1>2. StatesStay(r) /\ TurnsStay(r)
  BY <1>1, RegistrationsStay DEF StatesStay
<1>3. CASE state[a] = "Stopped"
  BY <1>1, <1>3, RepliesLife, ReplyEnds DEF LockStop
<1>4. CASE state[a] = "Stopping"
  <2>1. /\ Go(r, "cleanup") /\ lifecycle' = [lifecycle EXCEPT ![a] = r] /\ UNCHANGED <<barrier, executor>>
    BY <1>4 DEF LockStop
  <2>2. PICK q : Becomes(r, q) /\ q.kind = "stop" /\ q.agent = a /\ q.pc = "cleanup"
    BY <1>1, <2>1, NextBecomes DEF Agent
  <2>3. LocksStay(r) /\ lifecycle'[a] = r
    BY <1>1, <2>1, TakesLock
  <2>4. Placed(r)' /\ Locked(r)' /\ Reached(r)' /\ Awaited(r)'
    BY <1>1, <1>4, <2>1, <2>2, <2>3 DEF Becomes, Placed, Locked, Reached, Awaited, At, PlacesOf, Agent,
       Terminal
  <2> QED BY <1>1, <1>2, <2>2, <2>3, <2>4, BecomesStays, LifeStep, DiskKept
<1>5. CASE state[a] \notin {"Stopped", "Stopping"}
  <2>1. /\ request' = [Cancelled(a, "stop") EXCEPT ![r].pc = "quiesce"]
        /\ lifecycle' = [lifecycle EXCEPT ![a] = r] /\ UNCHANGED <<barrier, executor>>
    BY <1>5 DEF LockStop
  <2>2. Cancels(r, a, "quiesce")
    BY <1>1, <2>1, CancelBy
  <2>3. LocksStay(r) /\ lifecycle'[a] = r /\ barrier' = r
    BY <1>1, <2>1, TakesLock
  <2>4. DiskFirst'
    BY <1>1, <2>2, <2>3, CancelStays, DiskKept
  <2> QED BY <1>1, <1>2, <2>2, <2>3, <2>4, CancelLife
<1> QED BY <1>3, <1>4, <1>5

\* The durable marker of a stop is written under the lifecycle lock.
LEMMA MarkedLife ==
  ASSUME TypeOK, LifeInv, NEW r \in Requests, NEW a \in Agents, a = Agent(r),
         NEW p \in {"stopping", "cleanup"}, Go(r, p), request[r].kind \in {"stop", "kill"},
         p = "cleanup" => state[a] \in Terminal, request[r].pc # "stopping",
         disk' = [disk EXCEPT ![a] = "Stopping"], UNCHANGED <<state, registered, barrier, executor>>,
         LocksStay(r), lifecycle'[a] = r, barrier = r, \A x \in Requests \ {r} : lifecycle[a] # x
  PROVE  LifeInv'
<1>1. PICK q : Becomes(r, q) /\ q.kind = request[r].kind /\ q.agent = a /\ q.pc = p
  BY NextBecomes DEF Agent
<1>2. disk'[a] = "Stopping" /\ \A b \in Agents : b # a => disk'[b] = disk[b]
  BY DEF TypeOK
<1>3. OthersStay(r)
  BY <1>1, BecomesStays
<1>4. Agent(r)' = a /\ request'[r].pc = p
  BY <1>1 DEF Becomes, Agent
<1>5. DiskFirst'
  <2>1. SUFFICES ASSUME NEW b \in Agents
                 PROVE  /\ state[b] \in Terminal => disk'[b] \in Terminal
                        /\ disk'[b] \in Terminal /\ state[b] \notin Terminal =>
                             \E x \in Requests : request'[x].pc = "stopping" /\ Agent(x)' = b
    BY DEF DiskFirst
  <2>2. CASE b = a
    BY <1>2, <1>4, <2>2 DEF Terminal
  <2>3. CASE b # a
    <3>1. disk'[b] = disk[b]
      BY <1>2, <2>3
    <3>2. state[b] \in Terminal => disk[b] \in Terminal
      BY DEF LifeInv, DiskFirst
    <3>3. ASSUME disk[b] \in Terminal, state[b] \notin Terminal
          PROVE  \E x \in Requests : request'[x].pc = "stopping" /\ Agent(x)' = b
      <4>1. PICK x \in Requests : request[x].pc = "stopping" /\ Agent(x) = b
        BY <3>3 DEF LifeInv, DiskFirst
      <4> QED BY <1>3, <4>1 DEF OthersStay, Agent
    <3> QED BY <3>1, <3>2, <3>3
  <2> QED BY <2>2, <2>3
<1>6. StatesStay(r)
  BY <1>2 DEF StatesStay, Terminal
<1>7. Placed(r)' /\ Locked(r)' /\ Reached(r)' /\ Awaited(r)'
  BY <1>1, <1>2 DEF Becomes, Placed, Locked, Reached, Awaited, At, PlacesOf, Agent, Terminal
<1> QED BY <1>3, <1>5, <1>6, <1>7, LifeStep, RegistrationsStay

\* The awaited executor is idle.
LEMMA QuiescedLife ==
  ASSUME TypeOK, LifeInv, NEW r \in Requests, Quiesced(r)
  PROVE  LifeInv'
<1> DEFINE a == Agent(r)
<1>1. /\ request[r].pc = "quiesce" /\ request[r].kind \in {"pause", "stop"} /\ lifecycle[a] = r
      /\ a \in Agents /\ barrier = r /\ UNCHANGED <<state, registered>>
  BY HasAgent, KindOf DEF Quiesced, LifeInv, Locked
<1>2. CASE request[r].kind = "pause"
  BY <1>1, <1>2, RepliesLife, ReplyEnds DEF Quiesced
<1>3. CASE request[r].kind = "stop"
  <2>1. /\ Go(r, "stopping") /\ UNCHANGED <<barrier, lifecycle, executor>>
        /\ disk' = [disk EXCEPT ![a] = "Stopping"]
    BY <1>3 DEF Quiesced, locks
  <2>2. LocksStay(r)
    BY <2>1 DEF LocksStay
  <2> QED BY <1>1, <1>3, <2>1, <2>2, MarkedLife
<1> QED BY <1>1, <1>2, <1>3

\* A kill writes its marker at once.
LEMMA LockKillLife ==
  ASSUME TypeOK, LifeInv, NEW r \in Requests, LockKill(r)
  PROVE  LifeInv'
<1> DEFINE a == Agent(r)
<1>1. /\ request[r].pc = "lock" /\ request[r].kind = "kill" /\ lifecycle[a] = None /\ a \in Agents
      /\ UNCHANGED <<state, registered>> /\ barrier = r
  BY HasAgent DEF LockKill, At, LifeInv, Locked
<1>2. CASE state[a] = "Stopped"
  BY <1>1, <1>2, RepliesLife, ReplyEnds DEF LockKill
<1>3. CASE state[a] # "Stopped"
  <2>1. /\ Go(r, IF state[a] = "Stopping" THEN "cleanup" ELSE "stopping")
        /\ disk' = [disk EXCEPT ![a] = "Stopping"]
        /\ lifecycle' = [lifecycle EXCEPT ![a] = r] /\ UNCHANGED <<barrier, executor>>
    BY <1>3 DEF LockKill
  <2>2. PICK p \in {"stopping", "cleanup"} : Go(r, p) /\ (p = "cleanup" => state[a] \in Terminal)
    BY <2>1 DEF Terminal
  <2>3. LocksStay(r) /\ lifecycle'[a] = r
    BY <1>1, <2>1, TakesLock
  <2> QED BY <1>1, <2>1, <2>2, <2>3, MarkedLife, NoneNoRequest
<1> QED BY <1>2, <1>3

\* force_stopping reaches the turn that is registered: it can have no other.
LEMMA TerminateLife ==
  ASSUME TypeOK, LifeInv, NEW r \in Requests, Terminate(r)
  PROVE  LifeInv'
<1> DEFINE a == Agent(r)
<1>1. /\ request[r].pc = "stopping" /\ request[r].kind \in {"stop", "kill"} /\ lifecycle[a] = r
      /\ a \in Agents /\ barrier = r /\ disk[a] \in Terminal
  BY HasAgent, KindOf DEF Terminate, LifeInv, Locked, Awaited
<1>2. /\ state' = [state EXCEPT ![a] = "Stopping"]
      /\ request' = [Cancelled(a, "stop") EXCEPT ![r].pc = "cleanup"]
      /\ UNCHANGED <<disk, barrier, lifecycle, executor, registered>>
  BY DEF Terminate, locks
<1>3. Cancels(r, a, "cleanup") /\ LocksStay(r)
  BY <1>1, <1>2, CancelBy DEF LocksStay
<1>4. OthersStay(r) /\ Agent(r)' = a /\ request'[r].kind = request[r].kind /\ request'[r].pc = "cleanup"
  BY <1>3, CancelStays
<1>5. state'[a] = "Stopping" /\ \A b \in Agents : b # a => state'[b] = state[b]
  BY <1>1, <1>2 DEF TypeOK
<1>6. StatesStay(r)
  BY <1>1, <1>2, <1>5 DEF StatesStay, Terminal
<1>7. TurnsStay(r)
  <2> SUFFICES ASSUME NEW x \in Requests, x # r, request[x].pc \in {"admit", "running"}
               PROVE  /\ state'[Agent(x)] \in Terminal /\ state[Agent(x)] \notin Terminal
                           => request'[x].cancelled # "no"
                      /\ state'[Agent(x)] \notin Terminal /\ registered[Agent(x)] = x
                           => registered'[Agent(x)] = x
    BY DEF TurnsStay
  <2>1. Agent(x) \in Agents
    BY HasAgent
  <2>2. CASE Agent(x) = a
    <3>1. state[a] \notin Terminal => registered[a] = x
      BY <2>2 DEF LifeInv, Reached
    <3>2. registered[a] = x => request'[x].cancelled # "no"
      BY <1>3 DEF Cancels
    <3> QED BY <1>2, <2>2, <3>1, <3>2
  <2>3. CASE Agent(x) # a
    BY <1>2, <1>5, <2>1, <2>3
  <2> QED BY <2>2, <2>3
<1>8. DiskFirst'
  <2>1. SUFFICES ASSUME NEW b \in Agents
                 PROVE  /\ state'[b] \in Terminal => disk[b] \in Terminal
                        /\ disk[b] \in Terminal /\ state'[b] \notin Terminal =>
                             \E x \in Requests : request'[x].pc = "stopping" /\ Agent(x)' = b
    BY <1>2 DEF DiskFirst
  <2>2. CASE b = a
    BY <1>1, <1>5, <2>2 DEF Terminal
  <2>3. CASE b # a
    <3>1. state'[b] = state[b] /\ (state[b] \in Terminal => disk[b] \in Terminal)
      BY <1>5, <2>3 DEF LifeInv, DiskFirst
    <3>2. ASSUME disk[b] \in Terminal, state[b] \notin Terminal
          PROVE  \E x \in Requests : request'[x].pc = "stopping" /\ Agent(x)' = b
      <4>1. PICK x \in Requests : request[x].pc = "stopping" /\ Agent(x) = b
        BY <3>2 DEF LifeInv, DiskFirst
      <4>2. x # r
        BY <2>3, <4>1
      <4> QED BY <1>4, <4>1, <4>2 DEF OthersStay, Agent
    <3> QED BY <3>1, <3>2
  <2> QED BY <2>2, <2>3
<1>9. Placed(r)' /\ Locked(r)' /\ Reached(r)' /\ Awaited(r)'
  BY <1>1, <1>2, <1>4, <1>5 DEF Placed, Locked, Reached, Awaited, At, PlacesOf, Terminal
<1> QED BY <1>4, <1>6, <1>7, <1>8, <1>9, LifeStep

\* cleanup_agent_resources.
LEMMA CleanUpLife ==
  ASSUME TypeOK, LifeInv, NEW r \in Requests, CleanUp(r)
  PROVE  LifeInv'
<1> DEFINE a == Agent(r)
<1>1. /\ request[r].pc = "cleanup" /\ lifecycle[a] = r /\ a \in Agents /\ state[a] \in Terminal
  BY HasAgent DEF CleanUp, LifeInv, Locked, Awaited
<1>2. /\ SetState(a, "Stopped") /\ registered' = [registered EXCEPT ![a] = None]
      /\ Reply(r) /\ ReleaseLocks(r)
  BY DEF CleanUp
<1>3. Ends(r) /\ LocksStay(r) /\ OthersStay(r)
  BY <1>2, ReplyEnds, ReleaseKeeps, BecomesStays DEF Ends
<1>4. /\ state'[a] = "Stopped" /\ disk'[a] = "Stopped"
      /\ \A b \in Agents : b # a => state'[b] = state[b] /\ disk'[b] = disk[b]
  BY <1>1, <1>2 DEF SetState, TypeOK
<1>5. StatesStay(r)
  BY <1>1, <1>4 DEF StatesStay, Terminal
<1>6. TurnsStay(r)
  BY <1>1, <1>2, <1>4, HasAgent DEF TurnsStay, TypeOK, Terminal
<1>7. DiskFirst'
  BY <1>1, <1>2, <1>3, DiskSet
<1> QED BY <1>3, <1>5, <1>6, <1>7, EndsLife

\* A dropped request takes its guards and its registration with it.
LEMMA RequestTimeoutLife ==
  ASSUME TypeOK, LifeInv, NEW r \in Requests, RequestTimeout(r)
  PROVE  LifeInv'
<1> DEFINE a == Agent(r)
<1>1. /\ request[r].pc # "stopping" /\ a \in Agents /\ Reply(r) /\ ReleaseLocks(r)
      /\ UNCHANGED <<state, disk>>
      /\ registered' = IF request[r].kind = "send" /\ registered[a] = r
                         THEN [registered EXCEPT ![a] = None] ELSE registered
  BY HasAgent DEF RequestTimeout
<1>2. TurnsStay(r)
  BY <1>1, HasAgent DEF TurnsStay, TypeOK
<1> QED BY <1>1, <1>2, ReplyEnds, ReleaseKeeps, EndsQuietly

\* Steps that touch none of the states, locks and requests.
LEMMA QuietLife ==
  ASSUME LifeInv, UNCHANGED <<state, disk, barrier, lifecycle, executor, registered, request>>
  PROVE  LifeInv'
  BY DEF LifeInv, DiskFirst, Placed, Locked, Reached, Awaited, At, Agent

\* After a crash nobody is anywhere, and the two copies agree.
LEMMA CrashLife ==
  ASSUME TypeOK, LifeInv, Crash
  PROVE  LifeInv'
<1>1. state' = disk'
  BY DEF Crash
<1>2. ASSUME NEW r \in Requests
      PROVE  request'[r].pc \in {"new", "done"} /\ request'[r].kind = "none"
  <2>1. request'[r] = IF request[r].pc \in {"new", "done"} THEN request[r]
                      ELSE [NewRequest EXCEPT !.pc = "done"]
    BY DEF Crash
  <2> QED BY <2>1, KindOf DEF NewRequest
<1>3. \A r \in Requests : Placed(r)' /\ Locked(r)' /\ Reached(r)' /\ Awaited(r)'
  BY <1>2 DEF Placed, Locked, Reached, Awaited, At, PlacesOf
<1>4. DiskFirst'
  BY <1>1 DEF DiskFirst
<1> QED BY <1>3, <1>4 DEF LifeInv

\* Every step keeps the locks, the states and the places in order.
LEMMA NextLife ==
  ASSUME TypeOK, LifeInv, [Next]_vars
  PROVE  LifeInv'
<1>1. CASE UNCHANGED vars
  BY <1>1, QuietLife DEF vars
<1>2. ASSUME NEW r \in Requests, Turn(r) PROVE LifeInv'
  BY <1>2, ConnectLife, AcquireLife, TurnLife, SettleLife, RepauseLife DEF Turn
<1>3. ASSUME NEW r \in Requests, Operation(r) PROVE LifeInv'
  BY <1>3, TakeBarrierLife, LockResumeLife, SettleLife, ResumeTurnLife, LockPauseLife, LockStopLife,
     LockKillLife, QuiescedLife, TerminateLife, CleanUpLife DEF Operation
<1>4. ASSUME NEW r \in Requests, QuiesceTimeout(r) \/ RequestTimeout(r) PROVE LifeInv'
  BY <1>4, SettleLife, RequestTimeoutLife
<1>5. ASSUME NEW r \in Requests, NEW a \in Agents, StartSend(r, a) \/ StartOperation(r, a) PROVE LifeInv'
  BY <1>5, StartSendLife, StartOperationLife
<1>6. ASSUME NEW i, Forget(i) PROVE LifeInv'
  BY <1>6, QuietLife DEF Forget, locks
<1>7. CASE Crash
  BY <1>7, CrashLife
<1> QED BY <1>1, <1>2, <1>3, <1>4, <1>5, <1>6, <1>7 DEF Next

-----------------------------------------------------------------------------
(* Rows and turns.                                                         *)

\* The table keeps its rows, and a request its turn.
RowsStay == Keeps(rows', rows) /\ Len(rows') = Len(rows)

Moves(x) ==
  /\ request'[x].kind = request[x].kind /\ request'[x].turn = request[x].turn
  /\ request'[x].steps = request[x].steps /\ request'[x].row = request[x].row
  /\ request'[x].pc \in Carrying <=> request[x].pc \in Carrying
  /\ request'[x].pc = "new" <=> request[x].pc = "new"
  /\ Claims(x)' => Claims(x) /\ (request'[x].pc = "executor" <=> request[x].pc = "executor")
  /\ Ahead(x) => Ahead(x)'

\* A request that leaves its turn behind: the row is gone, or the turn is
\* known to have lost its progress.
Leaves(x) ==
  /\ Carried(x)' /\ Claimed(x)' /\ request'[x].pc # "new"
  /\ Ahead(x) => \/ rows[request[x].row].turn \in excused'
                 \/ rows'[request[x].row].status = "gone"

\* The rows of the table are rows.
LEMMA RowsThere ==
  ASSUME TypeOK
  PROVE  Len(rows) \in Nat /\ \A i \in 1..Len(rows) : rows[i] \in Row
  BY LenProperties DEF TypeOK

\* What a row of a table that is kept says.
LEMMA KeepsRow ==
  ASSUME TypeOK, Keeps(rows', rows), NEW i \in 1..Len(rows)
  PROVE  /\ rows'[i].agent = rows[i].agent /\ rows'[i].turn = rows[i].turn
         /\ rows'[i].steps = rows[i].steps /\ (Present(i)' => Present(i)) /\ i \in 1..Len(rows')
<1>1. Len(rows) \in Nat /\ Len(rows') \in Nat /\ Len(rows') >= Len(rows)
  BY RowsThere, LenProperties DEF Keeps
<1> QED BY <1>1 DEF Keeps, Present

\* A request that moves carries and claims what it did.
LEMMA MovesCarried ==
  ASSUME TypeOK, NEW x \in Requests, Moves(x), Carried(x), Claimed(x), RowsStay, ran' = ran,
         excused \subseteq excused', Claims(x) => rows'[request[x].row].status # "active"
  PROVE  Carried(x)' /\ Claimed(x)'
<1>1. \A i \in 1..Len(rows) : rows'[i].turn = rows[i].turn /\ rows'[i].steps = rows[i].steps
                              /\ (Present(i)' => Present(i))
  BY KeepsRow DEF RowsStay
<1>2. Len(rows') = Len(rows)
  BY DEF RowsStay
<1>3. /\ request'[x].pc \in Carrying =>
           /\ request'[x].turn \in Turns
           /\ request'[x].turn \notin excused' => request'[x].steps = ran'[request'[x].turn]
  BY DEF Moves, Carried
<1>4. request'[x].kind = "send" => request'[x].turn = x /\ \A i \in 1..Len(rows') : rows'[i].turn # x
  BY <1>1, <1>2 DEF Moves, Carried
<1>5. request'[x].pc \notin Carrying /\ request'[x].turn # None => request'[x].turn \in excused'
  BY DEF Moves, Carried
<1>6. Carried(x)'
  BY <1>3, <1>4, <1>5 DEF Carried
<1>7. Claimed(x)'
  <2> SUFFICES ASSUME Claims(x)'
               PROVE  /\ request'[x].row \in 1..Len(rows') /\ rows'[request'[x].row].status # "active"
                      /\ request'[x].pc # "executor" => request'[x].turn = rows'[request'[x].row].turn
                      /\ rows'[request'[x].row].turn \notin excused' =>
                           /\ request'[x].pc = "executor" =>
                                rows'[request'[x].row].steps = ran'[rows'[request'[x].row].turn]
                           /\ \A i \in 1..Len(rows') :
                                Present(i)' /\ rows'[i].turn = rows'[request'[x].row].turn
                                  => i = request'[x].row
    BY DEF Claimed
  <2>1. PICK k : k = request[x].row
    OBVIOUS
  <2>2. /\ Claims(x) /\ request'[x].row = k /\ request'[x].turn = request[x].turn
        /\ (request'[x].pc = "executor" <=> request[x].pc = "executor")
    BY <2>1 DEF Moves
  <2>3. /\ k \in 1..Len(rows)
        /\ request[x].pc # "executor" => request[x].turn = rows[k].turn
        /\ rows[k].turn \notin excused =>
             /\ request[x].pc = "executor" => rows[k].steps = ran[rows[k].turn]
             /\ \A i \in 1..Len(rows) : Present(i) /\ rows[i].turn = rows[k].turn => i = k
    BY <2>1, <2>2 DEF Claimed
  <2>4. rows'[k].turn = rows[k].turn /\ rows'[k].steps = rows[k].steps /\ rows'[k].status # "active"
    BY <1>1, <2>1, <2>2, <2>3
  <2> QED BY <1>1, <1>2, <2>2, <2>3, <2>4
<1> QED BY <1>6, <1>7

\* No tool is called and no row is added: the requests of R leave their turns,
\* the others keep them.
LEMMA ReplayStep ==
  ASSUME TypeOK, ReplayInv, NEW R, RowsStay, UNCHANGED <<ran, replayed>>, excused \subseteq excused',
         \A x \in Requests \ R : Moves(x),
         \A x \in Requests \ R : Claims(x) => rows'[request[x].row].status # "active",
         \A x \in R : Leaves(x)
  PROVE  ReplayInv'
<1>1. Len(rows') = Len(rows) /\ \A i \in 1..Len(rows) :
        /\ rows'[i].turn = rows[i].turn /\ rows'[i].steps = rows[i].steps /\ (Present(i)' => Present(i))
  BY KeepsRow DEF RowsStay
<1>2. NoReplay'
  BY DEF NoReplay, ReplayInv
<1>3. ASSUME NEW x \in Requests PROVE Fresh(x)' /\ Carried(x)' /\ Claimed(x)'
  <2>1. Fresh(x) /\ Carried(x) /\ Claimed(x)
    BY DEF ReplayInv
  <2>2. CASE x \in R
    <3>1. Carried(x)' /\ Claimed(x)' /\ request'[x].pc # "new"
      BY <2>2 DEF Leaves
    <3> QED BY <3>1 DEF Fresh
  <2>3. CASE x \notin R
    <3>1. Moves(x) /\ (Claims(x) => rows'[request[x].row].status # "active")
      BY <2>3
    <3>2. Carried(x)' /\ Claimed(x)'
      BY <2>1, <3>1, MovesCarried
    <3>3. Fresh(x)'
      BY <1>1, <2>1, <3>1 DEF Fresh, Moves
    <3> QED BY <3>2, <3>3
  <2> QED BY <2>2, <2>3
<1>4. ASSUME NEW i \in 1..Len(rows') PROVE Current(i)'
  <2> SUFFICES ASSUME Present(i)', rows'[i].turn \notin excused'
               PROVE  /\ \/ rows'[i].steps = ran'[rows'[i].turn]
                         \/ \E x \in Requests : Ahead(x)' /\ request'[x].row = i
                      /\ \A j \in 1..Len(rows') : Present(j)' /\ rows'[j].turn = rows'[i].turn => j = i
    BY DEF Current
  <2>1. /\ i \in 1..Len(rows) /\ Present(i) /\ rows[i].turn \notin excused
        /\ rows'[i].turn = rows[i].turn /\ rows'[i].steps = rows[i].steps
    BY <1>1
  <2>2. /\ \/ rows[i].steps = ran[rows[i].turn]
           \/ \E x \in Requests : Ahead(x) /\ request[x].row = i
        /\ \A j \in 1..Len(rows) : Present(j) /\ rows[j].turn = rows[i].turn => j = i
    BY <2>1 DEF ReplayInv, Current
  <2>3. ASSUME NEW x \in Requests, Ahead(x), request[x].row = i
        PROVE  Ahead(x)' /\ request'[x].row = i
    <3>1. x \notin R
      <4> SUFFICES ASSUME x \in R PROVE FALSE
        OBVIOUS
      <4>1. rows[i].turn \in excused' \/ rows'[i].status = "gone"
        BY <2>3 DEF Leaves
      <4> QED BY <2>1, <4>1 DEF Present
    <3>2. Moves(x)
      BY <3>1
    <3> QED BY <2>3, <3>2 DEF Moves
  <2>4. \/ rows'[i].steps = ran'[rows'[i].turn]
        \/ \E x \in Requests : Ahead(x)' /\ request'[x].row = i
    BY <2>1, <2>2, <2>3
  <2>5. \A j \in 1..Len(rows') : Present(j)' /\ rows'[j].turn = rows'[i].turn => j = i
    BY <1>1, <2>1, <2>2
  <2> QED BY <2>4, <2>5
<1> QED BY <1>2, <1>3, <1>4 DEF ReplayInv

\* A request that is over, or has just arrived, moves as the record says.
LEMMA BecomesMoves ==
  ASSUME NEW r \in Requests, NEW q, Becomes(r, q)
  PROVE  \A x \in Requests \ {r} : Moves(x)
  BY DEF Becomes, Moves, Claims, Ahead, Carrying

\* Only one resume has the barrier.
LEMMA ClaimsAlone ==
  ASSUME LifeInv, NEW r \in Requests, NEW x \in Requests, Claims(r), Claims(x)
  PROVE  x = r
<1>1. barrier = r /\ barrier = x
  BY DEF LifeInv, Locked, Claims
<1> QED BY <1>1

\* Who has the barrier is the only one with a claim.
LEMMA BarrierAlone ==
  ASSUME LifeInv, NEW r \in Requests, barrier = r, NEW x \in Requests, Claims(x)
  PROVE  x = r
  BY DEF LifeInv, Locked, Claims

\* A table that stays is kept.
LEMMA SameRows ==
  ASSUME TypeOK, rows' = rows
  PROVE  RowsStay
<1>1. rows \in Seq(Row) /\ Len(rows) \in Nat
  BY RowsThere DEF TypeOK
<1> QED BY <1>1 DEF RowsStay, Keeps

\* The table and the history stay; requests go on with what they carry.
LEMMA MovesReplay ==
  ASSUME TypeOK, ReplayInv, UNCHANGED <<rows, ran, replayed, excused>>, \A x \in Requests : Moves(x)
  PROVE  ReplayInv'
<1>1. \A x \in Requests : Claims(x) => rows'[request[x].row].status # "active"
  BY DEF ReplayInv, Claimed
<1>2. PICK R : R = {}
  OBVIOUS
<1>3. /\ \A x \in Requests \ R : Moves(x)
      /\ \A x \in Requests \ R : Claims(x) => rows'[request[x].row].status # "active"
      /\ \A x \in R : Leaves(x)
  BY <1>1, <1>2
<1>4. RowsStay /\ excused \subseteq excused'
  BY SameRows
<1> QED BY <1>3, <1>4, ReplayStep

\* A request that goes on to a place where it carries or claims the same.
GoesOn(p, q) ==
  /\ p \in Carrying <=> q \in Carrying
  /\ p # "new" /\ q # "new"
  /\ q \in {"executor", "admit", "running", "settle"} => p \in {"executor", "admit", "running", "settle"}
  /\ p = "executor" <=> q = "executor"
  /\ p \in {"running", "settle"} => q \in {"running", "settle"}

\* One request moves.
LEMMA BecomesReplay ==
  ASSUME TypeOK, ReplayInv, UNCHANGED <<rows, ran, replayed, excused>>, NEW r \in Requests, NEW q,
         Becomes(r, q), q.kind = request[r].kind, q.turn = request[r].turn, q.steps = request[r].steps,
         q.row = request[r].row,
         \/ GoesOn(request[r].pc, q.pc)
         \/ request[r].kind = "send" /\ request[r].pc \in Carrying /\ q.pc \in Carrying
  PROVE  ReplayInv'
<1>1. \A x \in Requests \ {r} : Moves(x)
  BY BecomesMoves
<1>2. Moves(r)
  <2>1. request'[r] = q
    BY DEF Becomes
  <2> QED BY <2>1 DEF Moves, Claims, Ahead, GoesOn, Carrying
<1> QED BY <1>1, <1>2, MovesReplay

\* A cancellation takes nothing from the turn it reaches.
LEMMA CancelsReplay ==
  ASSUME TypeOK, ReplayInv, UNCHANGED <<rows, ran, replayed, excused>>, NEW r \in Requests, NEW a, NEW p,
         Cancels(r, a, p), GoesOn(request[r].pc, p)
  PROVE  ReplayInv'
<1>1. \A x \in Requests \ {r} : Moves(x)
  BY DEF Cancels, Moves, Claims, Ahead
<1>2. Moves(r)
  BY DEF Cancels, Moves, Claims, Ahead, GoesOn
<1> QED BY <1>1, <1>2, MovesReplay

\* What a request that is over leaves behind.
LEMMA EndsReplay ==
  ASSUME TypeOK, ReplayInv, NEW r \in Requests, Ends(r), RowsStay, UNCHANGED <<ran, replayed>>,
         excused \subseteq excused',
         \A x \in Requests \ {r} : Claims(x) => rows'[request[x].row].status # "active",
         Ahead(r) => \/ rows[request[r].row].turn \in excused'
                     \/ rows'[request[r].row].status = "gone"
  PROVE  ReplayInv'
<1>1. PICK q : Over(q) /\ Becomes(r, q)
  BY DEF Ends
<1>2. request'[r] = q /\ \A x \in Requests \ {r} : Moves(x)
  BY <1>1, BecomesMoves DEF Becomes
<1>3. Carried(r)' /\ Claimed(r)' /\ request'[r].pc # "new"
  BY <1>1, <1>2 DEF Over, Carried, Claimed, Claims, Carrying
<1>4. Leaves(r)
  BY <1>3 DEF Leaves
<1>5. PICK R : R = {r}
  OBVIOUS
<1>6. /\ \A x \in Requests \ R : Moves(x)
      /\ \A x \in Requests \ R : Claims(x) => rows'[request[x].row].status # "active"
      /\ \A x \in R : Leaves(x)
  BY <1>2, <1>4, <1>5
<1> QED BY <1>6, ReplayStep

\* A request is over that was not ahead of its row, or whose turn is excused.
LEMMA EndsIdle ==
  ASSUME TypeOK, ReplayInv, NEW r \in Requests, Ends(r), UNCHANGED <<rows, ran, replayed>>,
         excused \subseteq excused', ~Ahead(r) \/ rows[request[r].row].turn \in excused'
  PROVE  ReplayInv'
<1>1. \A x \in Requests : Claims(x) => rows'[request[x].row].status # "active"
  BY DEF ReplayInv, Claimed
<1> QED BY <1>1, SameRows, EndsReplay

\* A request ends that was not ahead of a row, and nothing else is remembered.
LEMMA ReplyIdle ==
  ASSUME TypeOK, ReplayInv, NEW r \in Requests, UNCHANGED <<rows, history>>,
         request[r].pc \notin {"running", "settle"} \/ request[r].kind = "send",
         \/ Reply(r)
         \/ request' = [request EXCEPT ![r] = [NewRequest EXCEPT !.pc = "done", !.result = "ok"]]
  PROVE  ReplayInv'
<1>1. Ends(r)
  BY ReplyEnds
<1>2. UNCHANGED <<rows, ran, replayed>> /\ excused \subseteq excused' /\ ~Ahead(r)
  BY DEF history, Ahead
<1> QED BY <1>1, <1>2, EndsIdle

\* A request goes on, and nothing else is remembered.
LEMMA GoIdle ==
  ASSUME TypeOK, ReplayInv, NEW r \in Requests, NEW p, UNCHANGED <<rows, history>>, Go(r, p),
         \/ GoesOn(request[r].pc, p)
         \/ request[r].kind = "send" /\ request[r].pc \in Carrying /\ p \in Carrying
  PROVE  ReplayInv'
<1>1. PICK q : /\ Becomes(r, q) /\ q.kind = request[r].kind /\ q.pc = p
               /\ q.turn = request[r].turn /\ q.steps = request[r].steps /\ q.row = request[r].row
  BY NextBecomes
<1>2. UNCHANGED <<rows, ran, replayed, excused>>
  BY DEF history
<1> QED BY <1>1, <1>2, BecomesReplay

\* SendMessage up to its first step of a turn.
LEMMA SendReplay ==
  ASSUME TypeOK, ReplayInv, NEW r \in Requests, Connect(r) \/ Acquire(r) \/ Admitted(r) \/ Refused(r)
  PROVE  ReplayInv'
<1>1. UNCHANGED <<rows, history>>
  BY DEF Connect, Acquire, Admitted, Refused
<1>2. CASE Connect(r)
  <2>1. request[r].kind = "send" /\ request[r].pc = "connect"
    BY <1>2 DEF Connect, At
  <2> QED BY <1>1, <1>2, <2>1, ReplyIdle, GoIdle DEF Connect, Carrying
<1>3. CASE Acquire(r)
  <2>1. request[r].kind = "send" /\ request[r].pc = "acquire" /\ (Reply(r) \/ Go(r, "admit"))
    BY <1>3 DEF Acquire, At
  <2> QED BY <1>1, <2>1, ReplyIdle, GoIdle DEF Carrying
<1>4. CASE Admitted(r)
  <2>1. request[r].pc = "admit" /\ Go(r, "running")
    BY <1>4 DEF Admitted
  <2>2. GoesOn("admit", "running")
    BY DEF GoesOn, Carrying
  <2> QED BY <1>1, <2>1, <2>2, GoIdle
<1>5. CASE Refused(r)
  BY <1>1, <1>5, ReplyIdle DEF Refused
<1> QED BY <1>2, <1>3, <1>4, <1>5

\* The loop of a turn ends: it is still carried.
LEMMA RunEndsReplay ==
  ASSUME TypeOK, ReplayInv, NEW r \in Requests, RunEnds(r)
  PROVE  ReplayInv'
<1>1. UNCHANGED <<rows, ran, replayed, excused>> /\ request[r].pc = "running"
  BY DEF RunEnds, history
<1>2. PICK result \in {"completed", "failed", "paused"} :
        request' = [request EXCEPT ![r].pc = "settle", ![r].result = result]
  BY DEF RunEnds
<1>3. PICK q : q = [request[r] EXCEPT !.pc = "settle", !.result = result]
  OBVIOUS
<1>4. /\ Becomes(r, q) /\ q.kind = request[r].kind /\ q.pc = "settle"
      /\ q.turn = request[r].turn /\ q.steps = request[r].steps /\ q.row = request[r].row
  <2>1. request[r] \in Request(Len(rows)) /\ request' = [request EXCEPT ![r] = q]
    BY <1>2, <1>3 DEF TypeOK
  <2> QED BY <1>3, <2>1, BecomesBy DEF Request
<1>5. GoesOn("running", "settle")
  BY DEF GoesOn, Carrying
<1> QED BY <1>1, <1>4, <1>5, BecomesReplay

\* The operations that neither claim nor settle.
LEMMA OperationReplay ==
  ASSUME TypeOK, LifeInv, ReplayInv, NEW r \in Requests,
         \/ TakeBarrier(r) \/ LockPause(r) \/ LockStop(r) \/ LockKill(r) \/ Quiesced(r)
         \/ Terminate(r) \/ CleanUp(r) \/ QuiesceTimeout(r) \/ Repause(r)
  PROVE  ReplayInv'
<1>1. UNCHANGED <<rows, history>>
  BY DEF TakeBarrier, LockPause, LockStop, LockKill, Quiesced, Terminate, CleanUp, QuiesceTimeout, Repause
<1>2. UNCHANGED <<rows, ran, replayed, excused>>
  BY <1>1 DEF history
<1>3. request[r].pc \in {"barrier", "lock", "quiesce", "stopping", "cleanup", "repause"}
  BY DEF TakeBarrier, LockPause, LockStop, LockKill, Quiesced, Terminate, CleanUp, QuiesceTimeout,
     Repause, At
<1>4. \A p \in {"barrier", "lock", "quiesce", "stopping", "cleanup", "repause"} :
        \A q \in {"lock", "quiesce", "stopping", "cleanup"} : GoesOn(p, q)
  BY DEF GoesOn, Carrying
<1>5. CASE \/ Reply(r)
           \/ request' = [request EXCEPT ![r] = [NewRequest EXCEPT !.pc = "done", !.result = "ok"]]
  BY <1>1, <1>3, <1>5, ReplyIdle
<1>6. ASSUME NEW p \in {"lock", "quiesce", "stopping", "cleanup"}, Go(r, p)
      PROVE  ReplayInv'
  BY <1>1, <1>3, <1>4, <1>6, GoIdle
<1>7. ASSUME NEW by \in {"pause", "stop"}, NEW p \in {"quiesce", "cleanup"}, Agent(r) \in Agents,
             request' = [Cancelled(Agent(r), by) EXCEPT ![r].pc = p]
      PROVE  ReplayInv'
  BY <1>2, <1>3, <1>4, <1>7, CancelBy, CancelsReplay
<1>8. Agent(r) \in Agents
  BY <1>3, HasAgent
<1>9. CASE TakeBarrier(r)
  BY <1>6, <1>9 DEF TakeBarrier
<1>10. CASE LockPause(r)
  BY <1>5, <1>7, <1>8, <1>10 DEF LockPause
<1>11. CASE LockStop(r)
  BY <1>5, <1>6, <1>7, <1>8, <1>11 DEF LockStop
<1>12. CASE LockKill(r)
  BY <1>5, <1>6, <1>12 DEF LockKill
<1>13. CASE Quiesced(r)
  BY <1>5, <1>6, <1>13 DEF Quiesced
<1>14. CASE Terminate(r)
  BY <1>7, <1>8, <1>14 DEF Terminate
<1>15. CASE CleanUp(r) \/ QuiesceTimeout(r) \/ Repause(r)
  BY <1>5, <1>15 DEF CleanUp, QuiesceTimeout, Repause
<1> QED BY <1>9, <1>10, <1>11, <1>12, <1>13, <1>14, <1>15

\* One request changes what it carries.
LEMMA LeavesReplay ==
  ASSUME TypeOK, ReplayInv, NEW r \in Requests, NEW q, Becomes(r, q), RowsStay,
         UNCHANGED <<ran, replayed>>, excused \subseteq excused', Leaves(r),
         \A x \in Requests \ {r} : Claims(x) => rows'[request[x].row].status # "active"
  PROVE  ReplayInv'
<1>1. PICK R : R = {r}
  OBVIOUS
<1>2. /\ \A x \in Requests \ R : Moves(x)
      /\ \A x \in Requests \ R : Claims(x) => rows'[request[x].row].status # "active"
      /\ \A x \in R : Leaves(x)
  BY <1>1, BecomesMoves
<1> QED BY <1>2, ReplayStep

\* In a table that stays the claimed rows are not active.
LEMMA ClaimsKept ==
  ASSUME ReplayInv, rows' = rows
  PROVE  \A x \in Requests : Claims(x) => rows'[request[x].row].status # "active"
  BY DEF ReplayInv, Claimed

\* A request arrives: it starts a turn that has no row, or none.
LEMMA StartReplay ==
  ASSUME TypeOK, ReplayInv, NEW r \in Requests, NEW a \in Agents, StartSend(r, a) \/ StartOperation(r, a)
  PROVE  ReplayInv'
<1>1. UNCHANGED <<rows, ran, replayed, excused>> /\ request[r].pc = "new"
  BY DEF StartSend, StartOperation, Arriving, history
<1>2. RowsStay /\ excused \subseteq excused' /\ ~Ahead(r)
  BY <1>1, SameRows DEF Ahead
<1>3. \A x \in Requests : Claims(x) => rows'[request[x].row].status # "active"
  BY <1>1, ClaimsKept
<1>4. Fresh(r)
  BY DEF ReplayInv
<1>5. CASE StartSend(r, a)
  <2>1. PICK q : q = [NewRequest EXCEPT !.kind = "send", !.agent = a, !.pc = "connect", !.turn = r]
    OBVIOUS
  <2>2. Becomes(r, q) /\ q.kind = "send" /\ q.pc = "connect" /\ q.turn = r /\ q.steps = 0
    BY <1>5, <2>1, BecomesBy DEF StartSend, NewRequest
  <2>3. request'[r] = q
    BY <2>2 DEF Becomes
  <2>4. Carried(r)' /\ Claimed(r)'
    BY <1>1, <1>4, <2>2, <2>3 DEF Carried, Claimed, Claims, Carrying, Fresh, Turns
  <2>5. Leaves(r)
    BY <1>2, <2>2, <2>3, <2>4 DEF Leaves
  <2> QED BY <1>1, <1>2, <1>3, <2>2, <2>5, LeavesReplay
<1>6. CASE StartOperation(r, a)
  <2>1. PICK kind \in {"resume", "pause", "stop", "kill"}, i \in 0..Len(rows) :
          request' = [request EXCEPT ![r] = [NewRequest EXCEPT !.kind = kind, !.agent = a,
                                                               !.pc = "barrier", !.row = i]]
    BY <1>6 DEF StartOperation
  <2>2. PICK q : q = [NewRequest EXCEPT !.kind = kind, !.agent = a, !.pc = "barrier", !.row = i]
    OBVIOUS
  <2>3. Becomes(r, q) /\ q.kind = kind /\ q.pc = "barrier" /\ q.turn = None
    BY <2>1, <2>2, BecomesBy DEF NewRequest
  <2>4. request'[r] = q
    BY <2>3 DEF Becomes
  <2>5. Carried(r)' /\ Claimed(r)'
    BY <2>3, <2>4 DEF Carried, Claimed, Claims, Carrying
  <2>6. Leaves(r)
    BY <1>2, <2>3, <2>4, <2>5 DEF Leaves
  <2> QED BY <1>1, <1>2, <1>3, <2>3, <2>6, LeavesReplay
<1> QED BY <1>5, <1>6

\* A claim: the row is the only one of its turn and says all that it did.
LEMMA LockResumeReplay ==
  ASSUME TypeOK, LifeInv, ReplayInv, NEW r \in Requests, LockResume(r)
  PROVE  ReplayInv'
<1> DEFINE a == Agent(r)
<1>1. request[r].pc = "lock" /\ request[r].kind = "resume" /\ UNCHANGED <<ran, replayed, excused>>
  BY DEF LockResume, At, history
<1>2. PICK k : k = IF request[r].row = 0 THEN Newest(a) ELSE request[r].row
  OBVIOUS
<1>3. CASE ~(state[a] = "Paused" /\ Claimable(k, a))
  <2>1. Reply(r) /\ UNCHANGED <<rows, history>>
    BY <1>2, <1>3 DEF LockResume
  <2> QED BY <1>1, <2>1, ReplyIdle
<1>4. CASE state[a] = "Paused" /\ Claimable(k, a)
  <2>1. /\ request' = [request EXCEPT ![r].pc = "executor", ![r].row = k]
        /\ rows' = [rows EXCEPT ![k].status = "resuming"]
    BY <1>2, <1>4 DEF LockResume
  <2>2. k \in 1..Len(rows) /\ rows[k].status = "active" /\ Len(rows) \in Nat /\ rows \in Seq(Row)
    BY <1>4, RowsThere DEF Claimable, Active, TypeOK
  <2>3. PICK q : q = [request[r] EXCEPT !.pc = "executor", !.row = k]
    OBVIOUS
  <2>4. /\ Becomes(r, q) /\ q.kind = "resume" /\ q.pc = "executor" /\ q.row = k
        /\ q.turn = request[r].turn
    <3>1. request[r] \in Request(Len(rows)) /\ request' = [request EXCEPT ![r] = q]
      BY <2>1, <2>3 DEF TypeOK
    <3> QED BY <1>1, <2>3, <3>1, BecomesBy DEF Request
  <2>5. rows' = Marked(rows, k, "active", "resuming")
    <3>1. rows = [j \in 1..Len(rows) |-> rows[j]]
      BY <2>2, LenProperties
    <3> QED BY <2>1, <2>2, <3>1 DEF Marked
  <2>6. /\ RowsStay
        /\ \A j \in 1..Len(rows) : rows'[j].status = IF j = k /\ rows[j].status = "active"
                                                       THEN "resuming" ELSE rows[j].status
    <3>1. k \in Nat
      BY <2>2
    <3> QED BY <2>2, <2>5, <3>1, MarkedKeeps DEF RowsStay
  <2>7. ASSUME NEW x \in Requests, Claims(x)
        PROVE  rows'[request[x].row].status # "active"
    <3>1. request[x].row \in 1..Len(rows) /\ rows[request[x].row].status # "active"
      BY <2>7 DEF ReplayInv, Claimed
    <3> QED BY <2>6, <3>1
  <2>8. request'[r] = q
    BY <2>4 DEF Becomes
  <2>9. \A i \in 1..Len(rows) : rows'[i].turn = rows[i].turn /\ rows'[i].steps = rows[i].steps
                                /\ (Present(i)' => Present(i))
    BY <2>6, KeepsRow DEF RowsStay
  <2>10. Carried(r)'
    <3>1. Carried(r)
      BY DEF ReplayInv
    <3> QED BY <1>1, <2>4, <2>8, <3>1 DEF Carried, Carrying
  <2>11. Claimed(r)'
    <3>1. rows[k].turn \notin excused =>
            /\ \/ rows[k].steps = ran[rows[k].turn]
               \/ \E x \in Requests : Ahead(x) /\ request[x].row = k
            /\ \A j \in 1..Len(rows) : Present(j) /\ rows[j].turn = rows[k].turn => j = k
      BY <2>2 DEF ReplayInv, Current, Present
    <3>2. \A x \in Requests : ~Ahead(x)
      <4>1. barrier = r
        BY <1>1 DEF LifeInv, Locked
      <4>2. \A x \in Requests : Ahead(x) => Claims(x)
        BY DEF Ahead, Claims
      <4> QED BY <1>1, <4>1, <4>2, BarrierAlone DEF Ahead
    <3>3. rows'[k].turn = rows[k].turn /\ rows'[k].steps = rows[k].steps /\ rows'[k].status = "resuming"
      BY <2>2, <2>6, <2>9
    <3>4. Len(rows') = Len(rows)
      BY <2>6 DEF RowsStay
    <3> QED BY <1>1, <2>2, <2>4, <2>8, <2>9, <3>1, <3>2, <3>3, <3>4 DEF Claimed
  <2>12. Leaves(r)
    BY <1>1, <2>4, <2>8, <2>10, <2>11 DEF Leaves, Ahead
  <2> QED BY <1>1, <2>4, <2>6, <2>7, <2>12, LeavesReplay
<1> QED BY <1>3, <1>4

\* A resumed turn continues where its row ends, even if the row has been deleted.
LEMMA ResumeTurnReplay ==
  ASSUME TypeOK, ReplayInv, NEW r \in Requests, ResumeTurn(r)
  PROVE  ReplayInv'
<1>1. /\ request[r].pc = "executor" /\ request[r].kind = "resume"
      /\ UNCHANGED <<rows, ran, replayed, excused>>
  BY DEF ResumeTurn, At, history
<1>2. PICK k : k = request[r].row
  OBVIOUS
<1>3. Claims(r) /\ Claimed(r)
  BY <1>1 DEF Claims, ReplayInv
<1>4. /\ k \in 1..Len(rows) /\ rows[k].status # "active"
      /\ rows[k].turn \notin excused =>
           /\ rows[k].steps = ran[rows[k].turn]
           /\ \A i \in 1..Len(rows) : Present(i) /\ rows[i].turn = rows[k].turn => i = k
  BY <1>1, <1>2, <1>3 DEF Claimed
<1>5. rows[k].turn \in Turns
  BY <1>4, RowsThere DEF Row
<1>6. PICK q : q = [request[r] EXCEPT !.pc = "admit", !.turn = rows[k].turn, !.steps = rows[k].steps]
  OBVIOUS
<1>7. /\ Becomes(r, q) /\ q.kind = "resume" /\ q.pc = "admit" /\ q.row = k
      /\ q.turn = rows[k].turn /\ q.steps = rows[k].steps
  <2>1. request[r] \in Request(Len(rows)) /\ request' = [request EXCEPT ![r] = q]
    BY <1>2, <1>6 DEF TypeOK, ResumeTurn
  <2> QED BY <1>1, <1>2, <1>6, <2>1, BecomesBy DEF Request
<1>8. request'[r] = q
  BY <1>7 DEF Becomes
<1>9. Carried(r)'
  BY <1>1, <1>4, <1>5, <1>7, <1>8 DEF Carried, Carrying
<1>10. Claimed(r)'
  BY <1>1, <1>4, <1>7, <1>8 DEF Claimed, Present
<1>11. Leaves(r)
  BY <1>1, <1>7, <1>8, <1>9, <1>10 DEF Leaves, Ahead
<1> QED BY <1>1, <1>7, <1>11, SameRows, ClaimsKept, LeavesReplay

\* A request that runs or settles is where it was claimed for.
LEMMA AheadTurn ==
  ASSUME ReplayInv, NEW r \in Requests, Ahead(r)
  PROVE  /\ Claims(r) /\ request[r].row \in 1..Len(rows) /\ rows[request[r].row].status # "active"
         /\ request[r].turn = rows[request[r].row].turn
<1>1. Claims(r) /\ request[r].pc # "executor"
  BY DEF Ahead, Claims
<1> QED BY <1>1 DEF ReplayInv, Claimed

\* The turn of a dropped request has lost its progress.
LEMMA RequestTimeoutReplay ==
  ASSUME TypeOK, ReplayInv, NEW r \in Requests, RequestTimeout(r)
  PROVE  ReplayInv'
<1>1. /\ Reply(r) /\ UNCHANGED <<rows, ran, replayed>>
      /\ excused' = excused \cup ({request[r].turn} \ {None})
  BY DEF RequestTimeout
<1>2. excused \subseteq excused' /\ Ends(r)
  BY <1>1, ReplyEnds
<1>3. ~Ahead(r) \/ rows[request[r].row].turn \in excused'
  <2> SUFFICES ASSUME Ahead(r) PROVE rows[request[r].row].turn \in excused'
    OBVIOUS
  <2>1. request[r].row \in 1..Len(rows) /\ request[r].turn = rows[request[r].row].turn
    BY AheadTurn
  <2>2. rows[request[r].row].turn \in Turns
    BY <2>1, RowsThere DEF Row
  <2>3. None \notin Turns
    BY LifecycleConstants DEF Turns
  <2> QED BY <1>1, <2>1, <2>2, <2>3
<1> QED BY <1>1, <1>2, <1>3, EndsIdle

\* The row of a claim changes its status, and nobody else has a claim.
LEMMA MarkedStays ==
  ASSUME TypeOK, LifeInv, ReplayInv, NEW r \in Requests, Claims(r), NEW to \in {"active", "gone"},
         rows' = Marked(rows, request[r].row, "resuming", to)
  PROVE  /\ RowsStay
         /\ \A x \in Requests \ {r} : Claims(x) => rows'[request[x].row].status # "active"
         /\ to = "gone" => rows'[request[r].row].status = "gone"
<1>1. /\ request[r].row \in 1..Len(rows) /\ rows[request[r].row].status # "active"
      /\ rows[request[r].row] \in Row /\ rows \in Seq(Row) /\ Len(rows) \in Nat
  BY RowsThere DEF ReplayInv, Claimed, TypeOK
<1>2. request[r].row \in Nat /\ rows[request[r].row].status \in {"resuming", "gone"}
  BY <1>1 DEF Row
<1>3. /\ RowsStay
      /\ \A j \in 1..Len(rows) : rows'[j].status = IF j = request[r].row /\ rows[j].status = "resuming"
                                                     THEN to ELSE rows[j].status
  BY <1>1, <1>2, MarkedKeeps DEF RowsStay
<1>4. \A x \in Requests \ {r} : ~Claims(x)
  BY ClaimsAlone
<1> QED BY <1>1, <1>2, <1>3, <1>4

\* A claim that is given up before its turn runs.
LEMMA ResumeMismatchReplay ==
  ASSUME TypeOK, LifeInv, ReplayInv, NEW r \in Requests, ResumeMismatch(r)
  PROVE  ReplayInv'
<1>1. /\ Claims(r) /\ ~Ahead(r) /\ Reply(r) /\ UNCHANGED <<ran, replayed, excused>>
      /\ rows' = Marked(rows, request[r].row, "resuming", "active")
  BY DEF ResumeMismatch, At, Claims, Ahead, history
<1>2. /\ RowsStay
      /\ \A x \in Requests \ {r} : Claims(x) => rows'[request[x].row].status # "active"
  BY <1>1, MarkedStays
<1> QED BY <1>1, <1>2, ReplyEnds, EndsReplay

\* delete_generation_checkpoint keeps the table.
LEMMA ForgetRows ==
  ASSUME TypeOK, NEW i \in 1..Len(rows), Forget(i)
  PROVE  RowsStay /\ \A j \in 1..Len(rows) : rows'[j].status \in {rows[j].status, "gone"}
<1>1. /\ rows' = [rows EXCEPT ![i].status = "gone"] /\ UNCHANGED <<request, ran, replayed, excused>>
  BY DEF Forget, history
<1>2. Len(rows) \in Nat /\ rows \in Seq(Row) /\ \A j \in 1..Len(rows) : rows[j] \in Row
  BY RowsThere DEF TypeOK
<1>3. rows = [j \in 1..Len(rows) |-> rows[j]]
  BY <1>2, LenProperties
<1>4. ASSUME NEW j \in 1..Len(rows)
      PROVE  /\ rows'[j] \in Row /\ rows'[j].agent = rows[j].agent /\ rows'[j].turn = rows[j].turn
             /\ rows'[j].steps = rows[j].steps
             /\ rows'[j].status = rows[j].status \/ rows'[j].status = "gone"
  <2>1. CASE j # i
    BY <1>1, <1>2, <1>3, <2>1
  <2>2. CASE j = i
    <3>1. rows'[i] = [rows[i] EXCEPT !.status = "gone"]
      BY <1>1, <1>3
    <3> QED BY <1>2, <2>2, <3>1 DEF Row
  <2> QED BY <2>1, <2>2
<1>5. rows' = [j \in 1..Len(rows) |-> rows'[j]]
  BY <1>1, <1>3
<1>6. rows' \in [1..Len(rows) -> Row]
  BY <1>4, <1>5
<1>7. rows' \in Seq(Row) /\ Len(rows') = Len(rows)
  BY <1>2, <1>6, SeqOf
<1>8. RowsStay
  BY <1>2, <1>4, <1>7 DEF RowsStay, Keeps
<1> QED BY <1>4, <1>8

\* A row that is deleted or expires is not claimed again.
LEMMA ForgetReplay ==
  ASSUME TypeOK, ReplayInv, NEW i \in 1..Len(rows), Forget(i)
  PROVE  ReplayInv'
<1>1. UNCHANGED <<request, ran, replayed, excused>>
  BY DEF Forget, history
<1>2. RowsStay /\ \A j \in 1..Len(rows) : rows'[j].status \in {rows[j].status, "gone"}
  BY ForgetRows
<1>3. \A x \in Requests : Claims(x) => rows'[request[x].row].status # "active"
  <2> SUFFICES ASSUME NEW x \in Requests, Claims(x) PROVE rows'[request[x].row].status # "active"
    OBVIOUS
  <2>1. request[x].row \in 1..Len(rows) /\ rows[request[x].row].status # "active"
    BY DEF ReplayInv, Claimed
  <2> QED BY <1>2, <2>1
<1>4. \A x \in Requests : Moves(x)
  BY <1>1 DEF Moves, Claims, Ahead
<1>5. PICK R : R = {}
  OBVIOUS
<1>6. /\ \A x \in Requests \ R : Moves(x)
      /\ \A x \in Requests \ R : Claims(x) => rows'[request[x].row].status # "active"
      /\ \A x \in R : Leaves(x)
  BY <1>3, <1>4, <1>5
<1> QED BY <1>1, <1>2, <1>6, ReplayStep

\* Rehydration re-arms the claims of the dead process in the table it finds.
LEMMA CrashRows ==
  ASSUME TypeOK, Crash
  PROVE  RowsStay
<1>1. rows' = [i \in 1..Len(rows) |-> IF rows[i].status = "resuming"
                                        THEN [rows[i] EXCEPT !.status = "active"] ELSE rows[i]]
  BY DEF Crash
<1>2. Len(rows) \in Nat /\ rows \in Seq(Row) /\ \A j \in 1..Len(rows) : rows[j] \in Row
  BY RowsThere DEF TypeOK
<1>3. ASSUME NEW j \in 1..Len(rows)
      PROVE  /\ rows'[j] \in Row /\ rows'[j].agent = rows[j].agent /\ rows'[j].turn = rows[j].turn
             /\ rows'[j].steps = rows[j].steps /\ (rows[j].status = "gone" => rows'[j].status = "gone")
  <2>1. rows'[j] = IF rows[j].status = "resuming" THEN [rows[j] EXCEPT !.status = "active"] ELSE rows[j]
    BY <1>1
  <2> QED BY <1>2, <2>1 DEF Row
<1>4. rows' \in [1..Len(rows) -> Row]
  <2>1. rows' = [j \in 1..Len(rows) |-> rows'[j]]
    BY <1>1
  <2> QED BY <1>3, <2>1
<1>5. rows' \in Seq(Row) /\ Len(rows') = Len(rows)
  BY <1>2, <1>4, SeqOf
<1> QED BY <1>2, <1>3, <1>5 DEF RowsStay, Keeps

\* A crash loses the progress of every turn that is carried, and of no other.
LEMMA CrashReplay ==
  ASSUME TypeOK, LifeInv, ReplayInv, Crash
  PROVE  ReplayInv'
<1>1. /\ UNCHANGED <<ran, replayed>>
      /\ excused' = excused \cup ({request[r].turn : r \in Requests} \ {None})
      /\ request' = [r \in Requests |-> IF request[r].pc \in {"new", "done"} THEN request[r]
                                        ELSE [NewRequest EXCEPT !.pc = "done"]]
  BY DEF Crash
<1>2. RowsStay /\ \A j \in 1..Len(rows) : rows[j] \in Row
  BY CrashRows, RowsThere
<1>3. PICK R : R = {x \in Requests : request[x].pc \notin {"new", "done"}}
  OBVIOUS
<1>4. \A x \in Requests \ R : Moves(x) /\ ~Claims(x)
  <2> SUFFICES ASSUME NEW x \in Requests, request[x].pc \in {"new", "done"} PROVE Moves(x) /\ ~Claims(x)
    BY <1>3
  <2>1. request'[x] = request[x]
    BY <1>1
  <2> QED BY <2>1 DEF Moves, Claims, Ahead
<1>5. ASSUME NEW x \in R PROVE Leaves(x)
  <2>1. x \in Requests
    BY <1>3
  <2>2. request'[x].kind = "none" /\ request'[x].pc = "done" /\ request'[x].turn = None
    <3>1. request'[x] = [NewRequest EXCEPT !.pc = "done"]
      BY <1>1, <1>3, <2>1
    <3> QED BY <3>1 DEF NewRequest
  <2>3. Carried(x)' /\ Claimed(x)'
    BY <2>2 DEF Carried, Claimed, Claims, Carrying
  <2>4. Ahead(x) => rows[request[x].row].turn \in excused'
    <3> SUFFICES ASSUME Ahead(x) PROVE rows[request[x].row].turn \in excused'
      OBVIOUS
    <3>1. request[x].row \in 1..Len(rows) /\ request[x].turn = rows[request[x].row].turn
      BY <2>1, AheadTurn
    <3>2. request[x].turn \in Turns
      BY <1>2, <3>1 DEF Row
    <3>3. None \notin Turns
      BY LifecycleConstants DEF Turns
    <3> QED BY <1>1, <2>1, <3>1, <3>2, <3>3
  <2> QED BY <2>2, <2>3, <2>4 DEF Leaves
<1>6. excused \subseteq excused'
  BY <1>1
<1> QED BY <1>1, <1>2, <1>4, <1>5, <1>6, ReplayStep

\* A turn that is carried is nobody else's: the one who sent it has no row, and
\* the one who resumed it has the barrier.
LEMMA TurnsApart ==
  ASSUME TypeOK, LifeInv, ReplayInv, NEW r \in Requests, request[r].pc \in {"running", "settle"},
         NEW x \in Requests, x # r
  PROVE  /\ request[x].pc = "new" => request[r].turn # x
         /\ request[x].kind = "send" => request[r].turn # x
         /\ Claims(x) => rows[request[x].row].turn # request[r].turn
         /\ request[x].pc \in Carrying => request[x].turn # request[r].turn
<1>1. request[r].kind = "send" \/ Ahead(r)
  BY KindOf DEF Ahead
<1>2. /\ request[r].kind = "send" =>
           request[r].turn = r /\ \A i \in 1..Len(rows) : rows[i].turn # r
      /\ Ahead(r) => Claims(r) /\ \E i \in 1..Len(rows) : rows[i].turn = request[r].turn
  BY AheadTurn DEF ReplayInv, Carried
<1>3. /\ request[x].pc = "new" => \A i \in 1..Len(rows) : rows[i].turn # x
      /\ request[x].kind = "send" => request[x].turn = x /\ \A i \in 1..Len(rows) : rows[i].turn # x
      /\ Claims(x) => request[x].row \in 1..Len(rows)
      /\ Claims(x) /\ request[x].pc # "executor" => request[x].turn = rows[request[x].row].turn
  BY DEF ReplayInv, Fresh, Carried, Claimed
<1>4. request[x].pc = "new" => request[r].turn # x
  BY <1>1, <1>2, <1>3
<1>5. request[x].kind = "send" => request[r].turn # x
  BY <1>1, <1>2, <1>3
<1>6. Claims(x) => rows[request[x].row].turn # request[r].turn
  BY <1>1, <1>2, <1>3, ClaimsAlone
<1>7. request[x].pc \in Carrying => request[x].turn # request[r].turn
  <2> SUFFICES ASSUME request[x].pc \in Carrying PROVE request[x].turn # request[r].turn
    OBVIOUS
  <2>1. request[x].kind = "send" \/ (Claims(x) /\ request[x].pc # "executor")
    BY KindOf DEF Carrying, Claims
  <2> QED BY <1>3, <1>5, <1>6, <2>1
<1> QED BY <1>4, <1>5, <1>6, <1>7

\* A tool call is the next of its turn, unless the turn is excused: no other request
\* carries it and no row but the claimed one has it.
LEMMA CallToolReplay ==
  ASSUME TypeOK, LifeInv, ReplayInv, NEW r \in Requests, CallTool(r)
  PROVE  ReplayInv'
<1>1. PICK t : t = request[r].turn
  OBVIOUS
<1>2. PICK n : n = request[r].steps + 1
  OBVIOUS
<1>3. /\ request[r].pc = "running" /\ UNCHANGED <<rows, excused>>
      /\ request' = [request EXCEPT ![r].steps = n]
      /\ ran' = [ran EXCEPT ![t] = IF n > ran[t] THEN n ELSE ran[t]]
      /\ replayed' = IF n <= ran[t] THEN replayed \cup {t} ELSE replayed
  BY <1>1, <1>2 DEF CallTool
<1>4. /\ t \in Turns /\ (t \notin excused => request[r].steps = ran[t])
      /\ request[r].steps \in Nat /\ ran \in [Turns -> Nat] /\ n \in Nat
  <2>1. t \in Turns /\ (t \notin excused => request[r].steps = ran[t])
    BY <1>1, <1>3 DEF ReplayInv, Carried, Carrying
  <2>2. request[r].steps \in Nat /\ ran \in [Turns -> Nat]
    BY DEF TypeOK, Request
  <2> QED BY <1>2, <2>1, <2>2
<1>5. /\ t \notin excused => ran'[t] = n /\ replayed' = replayed
      /\ \A s \in Turns : s # t => ran'[s] = ran[s]
  BY <1>2, <1>3, <1>4
<1>6. PICK q : q = [request[r] EXCEPT !.steps = n]
  OBVIOUS
<1>7. /\ Becomes(r, q) /\ q.kind = request[r].kind /\ q.pc = request[r].pc /\ q.turn = t
      /\ q.steps = n /\ q.row = request[r].row
  <2>1. request[r] \in Request(Len(rows)) /\ request' = [request EXCEPT ![r] = q]
    BY <1>3, <1>6 DEF TypeOK
  <2> QED BY <1>1, <1>6, <2>1, BecomesBy DEF Request
<1>8. request'[r] = q /\ \A x \in Requests \ {r} : request'[x] = request[x]
  BY <1>7 DEF Becomes
<1>9. NoReplay'
  BY <1>3, <1>5 DEF ReplayInv, NoReplay
<1>10. ASSUME NEW x \in Requests, x # r PROVE Fresh(x)' /\ Carried(x)' /\ Claimed(x)'
  <2>1. Fresh(x) /\ Carried(x) /\ Claimed(x) /\ request'[x] = request[x]
    BY <1>8, <1>10 DEF ReplayInv
  <2>2. /\ request[x].pc = "new" => t # x
        /\ Claims(x) => rows[request[x].row].turn # t
        /\ request[x].pc \in Carrying => request[x].turn # t
    BY <1>1, <1>3, <1>10, TurnsApart
  <2>3. Fresh(x)'
    <3>1. x \in Turns
      BY DEF Turns
    <3> QED BY <1>3, <1>5, <2>1, <2>2, <3>1 DEF Fresh
  <2>4. Carried(x)'
    <3>1. request[x].pc \in Carrying => request[x].turn \in Turns
            /\ (request[x].turn \notin excused => request[x].steps = ran[request[x].turn])
      BY <2>1 DEF Carried
    <3>2. request[x].pc \in Carrying => ran'[request[x].turn] = ran[request[x].turn]
      BY <1>5, <2>2, <3>1
    <3>3. /\ request[x].kind = "send" =>
               request[x].turn = x /\ \A i \in 1..Len(rows) : rows[i].turn # x
          /\ request[x].pc \notin Carrying /\ request[x].turn # None => request[x].turn \in excused
      BY <2>1 DEF Carried
    <3>4. rows' = rows /\ excused' = excused /\ request'[x] = request[x]
      BY <1>3, <2>1
    <3>5. request'[x].pc \in Carrying =>
            /\ request'[x].turn \in Turns
            /\ request'[x].turn \notin excused' => request'[x].steps = ran'[request'[x].turn]
      BY <3>1, <3>2, <3>4
    <3> QED BY <3>3, <3>4, <3>5 DEF Carried
  <2>5. Claimed(x)'
    <3>1. Claims(x) => rows[request[x].row].turn \in Turns
      BY <2>1, RowsThere DEF Claimed, Row
    <3>2. Claims(x)' <=> Claims(x)
      BY <2>1 DEF Claims
    <3>3. \A i : Present(i)' <=> Present(i)
      BY <1>3 DEF Present
    <3> QED BY <1>3, <1>5, <2>1, <2>2, <3>1, <3>2, <3>3 DEF Claimed
  <2> QED BY <2>3, <2>4, <2>5
<1>11. Fresh(r)' /\ Carried(r)' /\ Claimed(r)'
  <2>1. Carried(r) /\ Claimed(r)
    BY DEF ReplayInv
  <2>2. Fresh(r)'
    BY <1>3, <1>7, <1>8 DEF Fresh
  <2>3. Carried(r)'
    <3>1. /\ request'[r].pc = "running" /\ request'[r].turn = t /\ request'[r].steps = n
          /\ request'[r].kind = request[r].kind
      BY <1>3, <1>7, <1>8
    <3>2. request[r].kind = "send" => t = r /\ \A i \in 1..Len(rows) : rows[i].turn # r
      BY <1>1, <2>1 DEF Carried
    <3>3. t \notin excused' => n = ran'[t]
      BY <1>3, <1>5
    <3> QED BY <1>3, <1>4, <3>1, <3>2, <3>3 DEF Carried, Carrying
  <2>4. Claimed(r)'
    <3>1. Claims(r)' <=> Claims(r)
      BY <1>7, <1>8 DEF Claims
    <3>2. \A i : Present(i)' <=> Present(i)
      BY <1>3 DEF Present
    <3>3. request'[r].pc = "running"
      BY <1>3, <1>7, <1>8
    <3> QED BY <1>1, <1>3, <1>7, <1>8, <2>1, <3>1, <3>2, <3>3 DEF Claimed
  <2> QED BY <2>2, <2>3, <2>4
<1>12. ASSUME NEW i \in 1..Len(rows') PROVE Current(i)'
  <2> SUFFICES ASSUME Present(i)', rows[i].turn \notin excused
               PROVE  /\ \/ rows[i].steps = ran'[rows[i].turn]
                         \/ \E x \in Requests : Ahead(x)' /\ request'[x].row = i
                      /\ \A j \in 1..Len(rows) : Present(j)' /\ rows[j].turn = rows[i].turn => j = i
    BY <1>3 DEF Current
  <2>1. i \in 1..Len(rows) /\ \A j : Present(j)' <=> Present(j)
    BY <1>3 DEF Present
  <2>2. /\ \/ rows[i].steps = ran[rows[i].turn]
           \/ \E x \in Requests : Ahead(x) /\ request[x].row = i
        /\ \A j \in 1..Len(rows) : Present(j) /\ rows[j].turn = rows[i].turn => j = i
    BY <2>1 DEF ReplayInv, Current
  <2>3. \A x \in Requests : Ahead(x) => Ahead(x)' /\ request'[x].row = request[x].row
    BY <1>7, <1>8 DEF Ahead
  <2>4. CASE rows[i].turn # t
    <3>1. rows[i].turn \in Turns
      BY <2>1, RowsThere DEF Row
    <3> QED BY <1>5, <2>1, <2>2, <2>3, <2>4, <3>1
  <2>5. CASE rows[i].turn = t
    <3>1. request[r].kind # "send"
      BY <1>1, <2>1, <2>5 DEF ReplayInv, Carried
    <3>2. Ahead(r)
      BY <1>3, <3>1, KindOf DEF Ahead
    <3>3. /\ Claims(r) /\ request[r].row \in 1..Len(rows) /\ rows[request[r].row].turn = t
      BY <1>1, <3>2, AheadTurn
    <3>4. request[r].row = i
      BY <2>1, <2>5, <3>3 DEF ReplayInv, Claimed
    <3> QED BY <2>1, <2>2, <2>3, <3>2, <3>4
  <2> QED BY <2>4, <2>5
<1> QED BY <1>9, <1>10, <1>11, <1>12 DEF ReplayInv

\* A request settles and its turn has one row more, which is its only one.
LEMMA SaveReplay ==
  ASSUME TypeOK, LifeInv, ReplayInv, NEW r \in Requests, request[r].pc = "settle", Ends(r),
         UNCHANGED <<ran, replayed, excused>>, Keeps(rows', rows), Len(rows') = Len(rows) + 1,
         rows'[Len(rows) + 1].turn = request[r].turn, rows'[Len(rows) + 1].steps = request[r].steps,
         \A x \in Requests \ {r} : Claims(x) => rows'[request[x].row].status # "active",
         \A j \in 1..Len(rows) : rows[j].turn = request[r].turn /\ request[r].turn \notin excused
                                   => rows'[j].status = "gone"
  PROVE  ReplayInv'
<1>1. PICK n : n = Len(rows)
  OBVIOUS
<1>2. PICK t : t = request[r].turn
  OBVIOUS
<1>3. /\ n \in Nat /\ 1..Len(rows') = 1..n \cup {n + 1} /\ n + 1 \notin 1..n
      /\ rows'[n + 1].turn = t /\ rows'[n + 1].steps = request[r].steps
  BY <1>1, <1>2, RowsThere
<1>4. ASSUME NEW i \in 1..n
      PROVE  /\ rows'[i].turn = rows[i].turn /\ rows'[i].steps = rows[i].steps
             /\ (Present(i)' => Present(i))
  BY <1>1, KeepsRow
<1>5. PICK q : Over(q) /\ Becomes(r, q)
  BY DEF Ends
<1>6. request'[r] = q /\ \A x \in Requests \ {r} : request'[x] = request[x]
  BY <1>5 DEF Becomes
<1>7. t \in Turns /\ (t \notin excused => request[r].steps = ran[t])
  BY <1>2 DEF ReplayInv, Carried, Carrying
<1>8. NoReplay'
  BY DEF ReplayInv, NoReplay
<1>9. Fresh(r)' /\ Carried(r)' /\ Claimed(r)'
  BY <1>5, <1>6 DEF Over, Fresh, Carried, Claimed, Claims, Carrying
<1>10. ASSUME NEW x \in Requests, x # r PROVE Fresh(x)' /\ Carried(x)' /\ Claimed(x)'
  <2>1. Fresh(x) /\ Carried(x) /\ Claimed(x) /\ request'[x] = request[x]
    BY <1>6, <1>10 DEF ReplayInv
  <2>2. /\ request[x].pc = "new" => t # x
        /\ request[x].kind = "send" => t # x
        /\ Claims(x) => rows[request[x].row].turn # t
    BY <1>2, <1>10, TurnsApart
  <2>3. Fresh(x)'
    <3>1. request[x].pc = "new" => \A i \in 1..Len(rows') : rows'[i].turn # x
      BY <1>1, <1>3, <1>4, <2>1, <2>2 DEF Fresh
    <3> QED BY <2>1, <3>1 DEF Fresh
  <2>4. Carried(x)'
    <3>1. request[x].kind = "send" => \A i \in 1..Len(rows') : rows'[i].turn # x
      BY <1>1, <1>3, <1>4, <2>1, <2>2 DEF Carried
    <3> QED BY <2>1, <3>1 DEF Carried
  <2>5. Claimed(x)'
    <3>1. Claims(x)' <=> Claims(x)
      BY <2>1 DEF Claims
    <3> SUFFICES ASSUME Claims(x)
                 PROVE  /\ request[x].row \in 1..Len(rows') /\ rows'[request[x].row].status # "active"
                        /\ request[x].pc # "executor" => request[x].turn = rows'[request[x].row].turn
                        /\ rows'[request[x].row].turn \notin excused =>
                             /\ request[x].pc = "executor" =>
                                  rows'[request[x].row].steps = ran[rows'[request[x].row].turn]
                             /\ \A i \in 1..Len(rows') :
                                  Present(i)' /\ rows'[i].turn = rows'[request[x].row].turn
                                    => i = request[x].row
      BY <2>1, <3>1 DEF Claimed
    <3>2. PICK k : k = request[x].row
      OBVIOUS
    <3>3. /\ k \in 1..n /\ rows[k].turn # t
          /\ request[x].pc # "executor" => request[x].turn = rows[k].turn
          /\ rows[k].turn \notin excused =>
               /\ request[x].pc = "executor" => rows[k].steps = ran[rows[k].turn]
               /\ \A i \in 1..n : Present(i) /\ rows[i].turn = rows[k].turn => i = k
      BY <1>1, <2>1, <2>2, <3>2 DEF Claimed
    <3>4. rows'[k].turn = rows[k].turn /\ rows'[k].steps = rows[k].steps /\ rows'[k].status # "active"
      BY <1>4, <1>10, <3>2, <3>3
    <3>5. \A i \in 1..Len(rows') : rows[k].turn \notin excused /\ Present(i)' /\ rows'[i].turn = rows[k].turn
                                     => i = k
      BY <1>3, <1>4, <3>3
    <3> QED BY <1>3, <3>2, <3>3, <3>4, <3>5
  <2> QED BY <2>3, <2>4, <2>5
<1>11. ASSUME NEW i \in 1..Len(rows') PROVE Current(i)'
  <2> SUFFICES ASSUME Present(i)', rows'[i].turn \notin excused
               PROVE  /\ \/ rows'[i].steps = ran[rows'[i].turn]
                         \/ \E x \in Requests : Ahead(x)' /\ request'[x].row = i
                      /\ \A j \in 1..Len(rows') : Present(j)' /\ rows'[j].turn = rows'[i].turn => j = i
    BY DEF Current
  <2>1. ASSUME NEW j \in 1..n, Present(j)', t \notin excused PROVE rows[j].turn # t
    BY <1>1, <1>2, <2>1 DEF Present
  <2>2. CASE i = n + 1
    BY <1>3, <1>4, <1>7, <2>1, <2>2
  <2>3. CASE i \in 1..n
    <3>1. /\ rows'[i].turn = rows[i].turn /\ rows'[i].steps = rows[i].steps /\ Present(i)
          /\ rows[i].turn # t
      BY <1>4, <2>1, <2>3
    <3>2. /\ \/ rows[i].steps = ran[rows[i].turn]
             \/ \E x \in Requests : Ahead(x) /\ request[x].row = i
          /\ \A j \in 1..n : Present(j) /\ rows[j].turn = rows[i].turn => j = i
      BY <1>1, <2>3, <3>1 DEF ReplayInv, Current
    <3>3. \A x \in Requests : Ahead(x) /\ request[x].row = i => x # r
      BY <1>2, <3>1, AheadTurn
    <3>4. \A x \in Requests : Ahead(x) /\ request[x].row = i => Ahead(x)' /\ request'[x].row = i
      BY <1>6, <3>3 DEF Ahead
    <3>5. \A j \in 1..Len(rows') : Present(j)' /\ rows'[j].turn = rows[i].turn => j = i
      BY <1>3, <1>4, <3>1, <3>2
    <3> QED BY <3>1, <3>2, <3>4, <3>5
  <2> QED BY <1>3, <2>2, <2>3
<1> QED BY <1>8, <1>9, <1>10, <1>11 DEF ReplayInv

\* What the request that settles carries can be a row.
LEMMA SettlesRow ==
  ASSUME TypeOK, LifeInv, ReplayInv, NEW r \in Requests, request[r].pc = "settle"
  PROVE  /\ Agent(r) \in Agents /\ request[r].turn \in Turns /\ request[r].steps \in Nat
         /\ Keeps(Saved(rows, r), rows) /\ Len(Saved(rows, r)) = Len(rows) + 1
         /\ Saved(rows, r)[Len(rows) + 1].turn = request[r].turn
         /\ Saved(rows, r)[Len(rows) + 1].steps = request[r].steps
         /\ \A j \in 1..Len(rows) : \/ Saved(rows, r)[j].status = rows[j].status
                                    \/ rows[j].status = "active" /\ Saved(rows, r)[j].status = "gone"
<1>1. Agent(r) \in Agents /\ request[r].turn \in Turns /\ request[r].steps \in Nat /\ rows \in Seq(Row)
  BY HasAgent DEF ReplayInv, Carried, Carrying, TypeOK, Request
<1> QED BY <1>1, SavedKeeps

\* A paused turn that was sent has a row from now on.
LEMMA SettleSendReplay ==
  ASSUME TypeOK, LifeInv, ReplayInv, NEW r \in Requests, SettleSend(r)
  PROVE  ReplayInv'
<1>1. /\ request[r].pc = "settle" /\ request[r].kind = "send" /\ Reply(r) /\ UNCHANGED history
      /\ rows' = rows \/ rows' = Saved(rows, r)
  BY DEF SettleSend, At
<1>2. CASE rows' = rows
  BY <1>1, <1>2, ReplyIdle
<1>3. CASE rows' = Saved(rows, r)
  <2>1. UNCHANGED <<ran, replayed, excused>> /\ Ends(r)
    BY <1>1, ReplyEnds DEF history
  <2>2. /\ Keeps(rows', rows) /\ Len(rows') = Len(rows) + 1
        /\ rows'[Len(rows) + 1].turn = request[r].turn /\ rows'[Len(rows) + 1].steps = request[r].steps
        /\ \A j \in 1..Len(rows) : \/ rows'[j].status = rows[j].status
                                   \/ rows[j].status = "active" /\ rows'[j].status = "gone"
    BY <1>1, <1>3, SettlesRow
  <2>3. \A x \in Requests : Claims(x) => rows'[request[x].row].status # "active"
    BY <2>2 DEF ReplayInv, Claimed
  <2>4. \A j \in 1..Len(rows) : rows[j].turn # request[r].turn
    BY <1>1 DEF ReplayInv, Carried
  <2> QED BY <1>1, <2>1, <2>2, <2>3, <2>4, SaveReplay
<1> QED BY <1>1, <1>2, <1>3

\* A resumed turn is saved before its old row is consumed, or the old one is given
\* back and the turn is excused.
LEMMA SettleResumeReplay ==
  ASSUME TypeOK, LifeInv, ReplayInv, NEW r \in Requests, SettleResume(r)
  PROVE  ReplayInv'
<1>1. /\ request[r].pc = "settle" /\ request[r].kind = "resume" /\ Ahead(r)
      /\ UNCHANGED <<ran, replayed>>
  BY DEF SettleResume, At, Ahead
<1>2. PICK k : k = request[r].row
  OBVIOUS
<1>3. /\ Claims(r) /\ k \in 1..Len(rows) /\ rows[k].status # "active" /\ request[r].turn = rows[k].turn
  BY <1>1, <1>2, AheadTurn
<1>4. CASE Reply(r) /\ rows' = Marked(rows, k, "resuming", "gone") /\ UNCHANGED excused
  <2>1. /\ RowsStay /\ rows'[k].status = "gone"
        /\ \A x \in Requests \ {r} : Claims(x) => rows'[request[x].row].status # "active"
    BY <1>2, <1>3, <1>4, MarkedStays
  <2> QED BY <1>1, <1>2, <1>4, <2>1, ReplyEnds, EndsReplay
<1>5. CASE /\ Reply(r) /\ rows' = Marked(rows, k, "resuming", "active")
           /\ excused' = excused \cup {request[r].turn}
  <2>1. /\ RowsStay
        /\ \A x \in Requests \ {r} : Claims(x) => rows'[request[x].row].status # "active"
    BY <1>2, <1>3, <1>5, MarkedStays
  <2>2. excused \subseteq excused' /\ rows[k].turn \in excused'
    BY <1>3, <1>5
  <2> QED BY <1>1, <1>2, <1>5, <2>1, <2>2, ReplyEnds, EndsReplay
<1>6. CASE /\ Go(r, "repause") /\ rows' = Marked(rows, k, "resuming", "active")
           /\ excused' = excused \cup {request[r].turn}
  <2>1. /\ RowsStay
        /\ \A x \in Requests \ {r} : Claims(x) => rows'[request[x].row].status # "active"
    BY <1>2, <1>3, <1>6, MarkedStays
  <2>2. excused \subseteq excused' /\ rows[k].turn \in excused' /\ request[r].turn \in excused'
    BY <1>3, <1>6
  <2>3. PICK q : Becomes(r, q) /\ q.kind = "resume" /\ q.pc = "repause" /\ q.turn = request[r].turn
    BY <1>1, <1>6, NextBecomes
  <2>4. request'[r] = q
    BY <2>3 DEF Becomes
  <2>5. Carried(r)' /\ Claimed(r)'
    BY <2>2, <2>3, <2>4 DEF Carried, Claimed, Claims, Carrying
  <2>6. Leaves(r)
    BY <1>2, <2>2, <2>3, <2>4, <2>5 DEF Leaves
  <2> QED BY <1>1, <2>1, <2>2, <2>3, <2>6, LeavesReplay
<1>7. CASE Reply(r) /\ rows' = Marked(Saved(rows, r), k, "resuming", "gone") /\ UNCHANGED excused
  <2>1. PICK s : s = Saved(rows, r)
    OBVIOUS
  <2>2. /\ Keeps(s, rows) /\ Len(s) = Len(rows) + 1
        /\ s[Len(rows) + 1].turn = request[r].turn /\ s[Len(rows) + 1].steps = request[r].steps
        /\ \A j \in 1..Len(rows) : \/ s[j].status = rows[j].status
                                   \/ rows[j].status = "active" /\ s[j].status = "gone"
    BY <1>1, <2>1, SettlesRow
  <2>3. Len(rows) \in Nat /\ k \in Nat /\ s \in Seq(Row) /\ 1..Len(rows) \subseteq 1..Len(s)
        /\ Len(rows) + 1 \in 1..Len(s)
    BY <1>3, <2>2, RowsThere DEF Keeps
  <2>4. /\ Keeps(rows', s) /\ Len(rows') = Len(s)
        /\ \A j \in 1..Len(s) : rows'[j].status = IF j = k /\ s[j].status = "resuming"
                                                    THEN "gone" ELSE s[j].status
    BY <1>7, <2>1, <2>3, MarkedKeeps
  <2>5. rows' \in Seq(Row) /\ Len(rows') >= Len(rows)
    BY <2>2, <2>3, <2>4 DEF Keeps
  <2>6. ASSUME NEW j \in 1..Len(rows)
        PROVE  /\ rows'[j].agent = rows[j].agent /\ rows'[j].turn = rows[j].turn
               /\ rows'[j].steps = rows[j].steps
               /\ rows[j].status = "gone" => rows'[j].status = "gone"
    BY <2>2, <2>3, <2>4 DEF Keeps
  <2>7. Keeps(rows', rows)
    BY <2>5, <2>6 DEF Keeps
  <2>8. rows'[Len(rows) + 1].turn = request[r].turn /\ rows'[Len(rows) + 1].steps = request[r].steps
    BY <2>2, <2>3, <2>4 DEF Keeps
  <2>9. rows'[k].status = "gone"
    <3>1. rows[k].status \in {"resuming", "gone"}
      BY <1>3, RowsThere DEF Row
    <3> QED BY <1>3, <2>2, <2>3, <2>4, <3>1
  <2>10. \A j \in 1..Len(rows) : rows[j].turn = request[r].turn /\ request[r].turn \notin excused
                                   => rows'[j].status = "gone"
    <3> SUFFICES ASSUME NEW j \in 1..Len(rows), rows[j].turn = request[r].turn,
                        request[r].turn \notin excused
                 PROVE  rows'[j].status = "gone"
      OBVIOUS
    <3>1. Present(j) => j = k
      BY <1>2, <1>3 DEF ReplayInv, Claimed
    <3> QED BY <2>6, <2>9, <3>1 DEF Present
  <2>11. \A x \in Requests \ {r} : ~Claims(x)
    BY <1>3, ClaimsAlone
  <2>12. UNCHANGED <<ran, replayed, excused>> /\ Ends(r) /\ Len(rows') = Len(rows) + 1
    BY <1>1, <1>7, <2>2, <2>4, ReplyEnds
  <2> QED BY <1>1, <2>7, <2>8, <2>10, <2>11, <2>12, SaveReplay
<1>8. \/ Reply(r) /\ rows' = Marked(rows, k, "resuming", "gone") /\ UNCHANGED excused
      \/ /\ Reply(r) /\ rows' = Marked(rows, k, "resuming", "active")
         /\ excused' = excused \cup {request[r].turn}
      \/ /\ Go(r, "repause") /\ rows' = Marked(rows, k, "resuming", "active")
         /\ excused' = excused \cup {request[r].turn}
      \/ Reply(r) /\ rows' = Marked(Saved(rows, r), k, "resuming", "gone") /\ UNCHANGED excused
  BY <1>2 DEF SettleResume
<1> QED BY <1>4, <1>5, <1>6, <1>7, <1>8

\* Every step keeps the rows and the turns in agreement.
LEMMA NextReplay ==
  ASSUME TypeOK, LifeInv, ReplayInv, [Next]_vars
  PROVE  ReplayInv'
<1>1. CASE UNCHANGED vars
  <2>1. UNCHANGED <<rows, ran, replayed, excused, request>>
    BY <1>1 DEF vars
  <2>2. \A x \in Requests : Moves(x)
    BY <2>1 DEF Moves, Claims, Ahead
  <2> QED BY <2>1, <2>2, MovesReplay
<1>2. ASSUME NEW r \in Requests, Turn(r) PROVE ReplayInv'
  BY <1>2, SendReplay, CallToolReplay, RunEndsReplay, SettleSendReplay, SettleResumeReplay,
     OperationReplay DEF Turn
<1>3. ASSUME NEW r \in Requests, Operation(r) PROVE ReplayInv'
  BY <1>3, OperationReplay, LockResumeReplay, ResumeMismatchReplay, ResumeTurnReplay DEF Operation
<1>4. ASSUME NEW r \in Requests, QuiesceTimeout(r) \/ RequestTimeout(r) PROVE ReplayInv'
  BY <1>4, OperationReplay, RequestTimeoutReplay
<1>5. ASSUME NEW r \in Requests, NEW a \in Agents, StartSend(r, a) \/ StartOperation(r, a)
      PROVE  ReplayInv'
  BY <1>5, StartReplay
<1>6. ASSUME NEW i \in 1..Len(rows), Forget(i) PROVE ReplayInv'
  BY <1>6, ForgetReplay
<1>7. CASE Crash
  BY <1>7, CrashReplay
<1> QED BY <1>1, <1>2, <1>3, <1>4, <1>5, <1>6, <1>7 DEF Next

-----------------------------------------------------------------------------
(* Types.                                                                  *)

\* The states keep their type.
LEMMA StatesTyped ==
  ASSUME TypeOK, [Next]_vars
  PROVE  state' \in [Agents -> AgentStates] /\ disk' \in [Agents -> AgentStates]
<1>1. state \in [Agents -> AgentStates] /\ disk \in [Agents -> AgentStates]
  BY DEF TypeOK
<1>2. {"Running", "Paused", "Stopping", "Stopped"} = AgentStates
  BY DEF AgentStates, Terminal
<1>3. CASE UNCHANGED <<state, disk>>
  BY <1>1, <1>3
<1>4. ASSUME NEW a, NEW s \in {"Running", "Paused", "Stopped"}, SetState(a, s)
      PROVE  state' \in [Agents -> AgentStates] /\ disk' \in [Agents -> AgentStates]
  BY <1>1, <1>2, <1>4 DEF SetState
<1>5. ASSUME NEW a, state' = state, disk' = [disk EXCEPT ![a] = "Stopping"]
      PROVE  state' \in [Agents -> AgentStates] /\ disk' \in [Agents -> AgentStates]
  BY <1>1, <1>2, <1>5
<1>6. CASE UNCHANGED vars
  BY <1>3, <1>6 DEF vars
<1>7. ASSUME NEW r \in Requests, Turn(r)
      PROVE  state' \in [Agents -> AgentStates] /\ disk' \in [Agents -> AgentStates]
  <2>1. CASE Repause(r)
    BY <1>3, <1>4, <2>1 DEF Repause
  <2> QED BY <1>3, <1>7, <2>1 DEF Turn, Connect, Acquire, Admitted, Refused, CallTool, RunEnds,
                                  SettleSend, SettleResume
<1>8. ASSUME NEW r \in Requests, Operation(r)
      PROVE  state' \in [Agents -> AgentStates] /\ disk' \in [Agents -> AgentStates]
  <2>1. CASE LockResume(r)
    BY <1>3, <1>4, <2>1 DEF LockResume
  <2>2. CASE ResumeTurn(r)
    BY <1>4, <2>2 DEF ResumeTurn
  <2>3. CASE LockPause(r)
    BY <1>3, <1>4, <2>3 DEF LockPause
  <2>4. CASE LockKill(r)
    BY <1>3, <1>5, <2>4 DEF LockKill
  <2>5. CASE Quiesced(r)
    BY <1>3, <1>5, <2>5 DEF Quiesced
  <2>6. CASE Terminate(r)
    BY <1>1, <1>2, <2>6 DEF Terminate
  <2>7. CASE CleanUp(r)
    BY <1>4, <2>7 DEF CleanUp
  <2>8. CASE TakeBarrier(r) \/ ResumeMismatch(r) \/ LockStop(r)
    BY <1>3, <2>8 DEF TakeBarrier, ResumeMismatch, LockStop
  <2> QED BY <1>8, <2>1, <2>2, <2>3, <2>4, <2>5, <2>6, <2>7, <2>8 DEF Operation
<1>9. ASSUME NEW r \in Requests, NEW a \in Agents, StartSend(r, a) \/ StartOperation(r, a)
      PROVE  state' \in [Agents -> AgentStates] /\ disk' \in [Agents -> AgentStates]
  BY <1>3, <1>9 DEF StartSend, StartOperation
<1>10. ASSUME NEW r \in Requests, QuiesceTimeout(r) \/ RequestTimeout(r)
       PROVE  state' \in [Agents -> AgentStates] /\ disk' \in [Agents -> AgentStates]
  BY <1>3, <1>10 DEF QuiesceTimeout, RequestTimeout
<1>11. ASSUME NEW i, Forget(i)
       PROVE  state' \in [Agents -> AgentStates] /\ disk' \in [Agents -> AgentStates]
  BY <1>3, <1>11 DEF Forget
<1>12. CASE Crash
  <2>1. /\ disk' = [a \in Agents |-> IF disk[a] \in Terminal THEN "Stopped" ELSE disk[a]]
        /\ state' = disk'
    BY <1>12 DEF Crash
  <2>2. disk' \in [Agents -> AgentStates]
    BY <1>1, <1>2, <2>1
  <2> QED BY <2>1, <2>2
<1> QED BY <1>6, <1>7, <1>8, <1>9, <1>10, <1>11, <1>12 DEF Next

LocksTyped == /\ barrier \in Holders /\ lifecycle \in [Agents -> Holders]
              /\ executor \in [Agents -> Holders] /\ registered \in [Agents -> Holders]

\* The locks keep their types.
LEMMA NextLocksTyped ==
  ASSUME TypeOK, [Next]_vars
  PROVE  LocksTyped'
<1>1. LocksTyped
  BY DEF TypeOK, LocksTyped
<1>2. None \in Holders /\ \A r \in Requests : r \in Holders
  BY DEF Holders
<1>3. CASE UNCHANGED <<barrier, lifecycle, executor, registered>>
  BY <1>1, <1>3 DEF LocksTyped
<1>4. ASSUME NEW r \in Requests, NEW f \in [Agents -> Holders] PROVE Drop(f, r) \in [Agents -> Holders]
  BY <1>2 DEF Drop
<1>5. ASSUME NEW r \in Requests, ReleaseLocks(r), NEW a,
             \/ registered' = registered \/ registered' = [registered EXCEPT ![a] = None]
      PROVE  LocksTyped'
  <2>1. barrier' \in Holders
    BY <1>1, <1>2, <1>5 DEF LocksTyped, ReleaseLocks
  <2>2. lifecycle' \in [Agents -> Holders] /\ executor' \in [Agents -> Holders]
    BY <1>1, <1>4, <1>5 DEF LocksTyped, ReleaseLocks
  <2>3. registered' \in [Agents -> Holders]
    BY <1>1, <1>2, <1>5 DEF LocksTyped
  <2> QED BY <2>1, <2>2, <2>3 DEF LocksTyped
<1>6. ASSUME NEW r \in Requests, NEW a, UNCHANGED <<barrier, executor, registered>>,
             lifecycle' = [lifecycle EXCEPT ![a] = r]
      PROVE  LocksTyped'
  BY <1>1, <1>2, <1>6 DEF LocksTyped
<1>7. CASE UNCHANGED vars
  BY <1>3, <1>7 DEF vars
<1>8. ASSUME NEW r \in Requests, Turn(r) PROVE LocksTyped'
  <2>1. CASE Connect(r)
    BY <1>1, <1>4, <2>1 DEF Connect, LocksTyped
  <2>2. CASE Acquire(r)
    BY <1>1, <1>2, <2>2 DEF Acquire, LocksTyped
  <2>3. CASE RunEnds(r)
    <3>1. /\ UNCHANGED <<barrier, lifecycle>> /\ registered' = [registered EXCEPT ![Agent(r)] = None]
          /\ executor' = Drop(executor, r) \/ executor' = executor
      BY <2>3 DEF RunEnds
    <3> QED BY <1>1, <1>2, <1>4, <3>1 DEF LocksTyped
  <2>4. CASE Admitted(r) \/ CallTool(r)
    BY <1>3, <2>4 DEF Admitted, CallTool, locks
  <2>5. CASE Refused(r)
    BY <1>5, <2>5 DEF Refused
  <2>6. CASE SettleSend(r) \/ Repause(r)
    BY <1>5, <2>6 DEF SettleSend, Repause
  <2>7. CASE SettleResume(r)
    BY <1>3, <1>5, <2>7 DEF SettleResume, locks
  <2> QED BY <1>8, <2>1, <2>2, <2>3, <2>4, <2>5, <2>6, <2>7 DEF Turn
<1>9. ASSUME NEW r \in Requests, Operation(r) PROVE LocksTyped'
  <2>1. CASE TakeBarrier(r)
    BY <1>1, <1>2, <2>1 DEF TakeBarrier, LocksTyped
  <2>2. CASE LockResume(r)
    BY <1>5, <1>6, <2>2 DEF LockResume
  <2>3. CASE ResumeMismatch(r) \/ CleanUp(r)
    BY <1>5, <2>3 DEF ResumeMismatch, CleanUp
  <2>4. CASE ResumeTurn(r)
    <3>1. /\ barrier' = barrier /\ executor' = [executor EXCEPT ![Agent(r)] = r]
          /\ registered' = [registered EXCEPT ![Agent(r)] = r] /\ lifecycle' = Drop(lifecycle, r)
      BY <2>4 DEF ResumeTurn
    <3> QED BY <1>1, <1>2, <1>4, <3>1 DEF LocksTyped
  <2>5. CASE LockPause(r)
    BY <1>5, <1>6, <2>5 DEF LockPause
  <2>6. CASE LockStop(r)
    BY <1>5, <1>6, <2>6 DEF LockStop
  <2>7. CASE LockKill(r)
    BY <1>5, <1>6, <2>7 DEF LockKill
  <2>8. CASE Quiesced(r)
    BY <1>3, <1>5, <2>8 DEF Quiesced, locks
  <2>9. CASE Terminate(r)
    BY <1>3, <2>9 DEF Terminate, locks
  <2> QED BY <1>9, <2>1, <2>2, <2>3, <2>4, <2>5, <2>6, <2>7, <2>8, <2>9 DEF Operation
<1>10. ASSUME NEW r \in Requests, QuiesceTimeout(r) \/ RequestTimeout(r) PROVE LocksTyped'
  BY <1>5, <1>10 DEF QuiesceTimeout, RequestTimeout
<1>11. ASSUME NEW r \in Requests, NEW a \in Agents, StartSend(r, a) \/ StartOperation(r, a)
       PROVE  LocksTyped'
  BY <1>3, <1>6, <1>11 DEF StartSend, StartOperation, locks
<1>12. ASSUME NEW i, Forget(i) PROVE LocksTyped'
  BY <1>3, <1>12 DEF Forget, locks
<1>13. CASE Crash
  BY <1>2, <1>13 DEF Crash, LocksTyped
<1> QED BY <1>7, <1>8, <1>9, <1>10, <1>11, <1>12, <1>13 DEF Next

\* The table only grows, and what its rows say stays.
LEMMA NextKeepsRows ==
  ASSUME TypeOK, LifeInv, ReplayInv, [Next]_vars
  PROVE  Keeps(rows', rows)
<1>1. rows \in Seq(Row) /\ Len(rows) \in Nat
  BY RowsThere DEF TypeOK
<1>2. CASE rows' = rows
  BY <1>2, SameRows DEF RowsStay
<1>3. ASSUME NEW r \in Requests, Claims(r), NEW to \in {"active", "gone"},
             rows' = Marked(rows, request[r].row, "resuming", to)
      PROVE  Keeps(rows', rows)
  BY <1>3, MarkedStays DEF RowsStay
<1>4. CASE UNCHANGED vars
  BY <1>2, <1>4 DEF vars
<1>5. ASSUME NEW r \in Requests, Turn(r) PROVE Keeps(rows', rows)
  <2>1. CASE SettleSend(r)
    <3>1. request[r].pc = "settle" /\ (rows' = rows \/ rows' = Saved(rows, r))
      BY <2>1 DEF SettleSend, At
    <3> QED BY <1>2, <3>1, SettlesRow
  <2>2. CASE SettleResume(r)
    <3>1. /\ request[r].pc = "settle" /\ Claims(r)
          /\ \/ \E to \in {"active", "gone"} : rows' = Marked(rows, request[r].row, "resuming", to)
             \/ rows' = Marked(Saved(rows, r), request[r].row, "resuming", "gone")
      BY <2>2 DEF SettleResume, At, Claims
    <3>2. CASE rows' = Marked(Saved(rows, r), request[r].row, "resuming", "gone")
      <4>1. PICK s : s = Saved(rows, r)
        OBVIOUS
      <4>2. Keeps(s, rows) /\ request[r].row \in Nat
        BY <3>1, <4>1, SettlesRow DEF ReplayInv, Claimed
      <4>3. s \in Seq(Row) /\ Len(s) \in Nat /\ Len(s) >= Len(rows)
        BY <4>2, LenProperties DEF Keeps
      <4>4. Keeps(rows', s)
        BY <3>2, <4>1, <4>2, <4>3, MarkedKeeps
      <4>5. rows' \in Seq(Row) /\ Len(rows') \in Nat /\ Len(rows') >= Len(s)
        BY <4>4, LenProperties DEF Keeps
      <4>6. 1..Len(rows) \subseteq 1..Len(s)
        BY <1>1, <4>3
      <4> QED BY <1>1, <4>2, <4>3, <4>4, <4>5, <4>6 DEF Keeps
    <3> QED BY <1>3, <3>1, <3>2
  <2> QED BY <1>2, <1>5, <2>1, <2>2 DEF Turn, Connect, Acquire, Admitted, Refused, CallTool, RunEnds, Repause
<1>6. ASSUME NEW r \in Requests, Operation(r) PROVE Keeps(rows', rows)
  <2>1. CASE LockResume(r)
    <3>1. PICK k : k = IF request[r].row = 0 THEN Newest(Agent(r)) ELSE request[r].row
      OBVIOUS
    <3>2. \/ rows' = rows
          \/ Claimable(k, Agent(r)) /\ rows' = [rows EXCEPT ![k].status = "resuming"]
      BY <2>1, <3>1 DEF LockResume
    <3>3. CASE Claimable(k, Agent(r)) /\ rows' = [rows EXCEPT ![k].status = "resuming"]
      <4>1. k \in 1..Len(rows) /\ rows[k].status = "active" /\ k \in Nat
        BY <1>1, <3>3 DEF Claimable, Active
      <4>2. rows = [j \in 1..Len(rows) |-> rows[j]]
        BY <1>1, LenProperties
      <4>3. rows' = Marked(rows, k, "active", "resuming")
        BY <3>3, <4>1, <4>2 DEF Marked
      <4> QED BY <1>1, <4>1, <4>3, MarkedKeeps
    <3> QED BY <1>2, <3>2, <3>3
  <2>2. CASE ResumeMismatch(r)
    BY <1>3, <2>2 DEF ResumeMismatch, At, Claims
  <2> QED BY <1>2, <1>6, <2>1, <2>2 DEF Operation, TakeBarrier, ResumeTurn, LockPause, LockStop, LockKill,
                                        Quiesced, Terminate, CleanUp
<1>7. ASSUME NEW r \in Requests, QuiesceTimeout(r) \/ RequestTimeout(r) PROVE Keeps(rows', rows)
  BY <1>2, <1>7 DEF QuiesceTimeout, RequestTimeout
<1>8. ASSUME NEW r \in Requests, NEW a \in Agents, StartSend(r, a) \/ StartOperation(r, a)
      PROVE  Keeps(rows', rows)
  BY <1>2, <1>8 DEF StartSend, StartOperation
<1>9. ASSUME NEW i \in 1..Len(rows), Forget(i) PROVE Keeps(rows', rows)
  BY <1>9, ForgetRows DEF RowsStay
<1>10. CASE Crash
  BY <1>10, CrashRows DEF RowsStay
<1> QED BY <1>4, <1>5, <1>6, <1>7, <1>8, <1>9, <1>10 DEF Next

\* The history keeps its types.
LEMMA NextHistoryTyped ==
  ASSUME TypeOK, ReplayInv, [Next]_vars
  PROVE  /\ ran' \in [Turns -> Nat] /\ replayed' \subseteq Turns /\ excused' \subseteq Turns
         /\ crashes' \in Nat
<1>1. /\ ran \in [Turns -> Nat] /\ replayed \subseteq Turns /\ excused \subseteq Turns /\ crashes \in Nat
      /\ \A r \in Requests : request[r].turn \in Turns \cup {None}
  BY DEF TypeOK, Request
<1>2. CASE UNCHANGED <<ran, replayed, excused, crashes>>
  BY <1>1, <1>2
<1>3. CASE UNCHANGED vars
  BY <1>2, <1>3 DEF vars
<1>4. ASSUME NEW r \in Requests, Turn(r)
      PROVE  /\ ran' \in [Turns -> Nat] /\ replayed' \subseteq Turns /\ excused' \subseteq Turns
             /\ crashes' \in Nat
  <2>1. CASE CallTool(r)
    <3>1. PICK t : t = request[r].turn
      OBVIOUS
    <3>2. PICK n : n = request[r].steps + 1
      OBVIOUS
    <3>3. /\ ran' = [ran EXCEPT ![t] = IF n > ran[t] THEN n ELSE ran[t]]
          /\ replayed' = IF n <= ran[t] THEN replayed \cup {t} ELSE replayed
          /\ UNCHANGED <<excused, crashes>> /\ request[r].pc = "running"
      BY <2>1, <3>1, <3>2 DEF CallTool
    <3>4. t \in Turns /\ n \in Nat
      <4>1. request[r].steps \in Nat
        BY DEF TypeOK, Request
      <4> QED BY <3>1, <3>2, <3>3, <4>1 DEF ReplayInv, Carried, Carrying
    <3>5. ran' \in [Turns -> Nat]
      BY <1>1, <3>3, <3>4
    <3> QED BY <1>1, <3>3, <3>4, <3>5
  <2>2. CASE SettleResume(r)
    <3>1. /\ UNCHANGED <<ran, replayed, crashes>> /\ request[r].pc = "settle"
          /\ excused' = excused \/ excused' = excused \cup {request[r].turn}
      BY <2>2 DEF SettleResume, At
    <3>2. request[r].turn \in Turns
      BY <3>1 DEF ReplayInv, Carried, Carrying
    <3> QED BY <1>1, <3>1, <3>2
  <2> QED BY <1>2, <1>4, <2>1, <2>2 DEF Turn, Connect, Acquire, Admitted, Refused, RunEnds, SettleSend,
                                        Repause, history
<1>5. ASSUME NEW r \in Requests, Operation(r)
      PROVE  /\ ran' \in [Turns -> Nat] /\ replayed' \subseteq Turns /\ excused' \subseteq Turns
             /\ crashes' \in Nat
  BY <1>2, <1>5 DEF Operation, TakeBarrier, LockResume, ResumeMismatch, ResumeTurn, LockPause, LockStop,
                    LockKill, Quiesced, Terminate, CleanUp, history
<1>6. ASSUME NEW r \in Requests, QuiesceTimeout(r)
      PROVE  /\ ran' \in [Turns -> Nat] /\ replayed' \subseteq Turns /\ excused' \subseteq Turns
             /\ crashes' \in Nat
  BY <1>2, <1>6 DEF QuiesceTimeout, history
<1>7. ASSUME NEW r \in Requests, RequestTimeout(r)
      PROVE  /\ ran' \in [Turns -> Nat] /\ replayed' \subseteq Turns /\ excused' \subseteq Turns
             /\ crashes' \in Nat
  BY <1>1, <1>7 DEF RequestTimeout
<1>8. ASSUME NEW r \in Requests, NEW a \in Agents, StartSend(r, a) \/ StartOperation(r, a)
      PROVE  /\ ran' \in [Turns -> Nat] /\ replayed' \subseteq Turns /\ excused' \subseteq Turns
             /\ crashes' \in Nat
  BY <1>2, <1>8 DEF StartSend, StartOperation, history
<1>9. ASSUME NEW i, Forget(i)
      PROVE  /\ ran' \in [Turns -> Nat] /\ replayed' \subseteq Turns /\ excused' \subseteq Turns
             /\ crashes' \in Nat
  BY <1>2, <1>9 DEF Forget, history
<1>10. CASE Crash
  <2>1. /\ UNCHANGED <<ran, replayed>> /\ crashes' = crashes + 1
        /\ excused' = excused \cup ({request[r].turn : r \in Requests} \ {None})
    BY <1>10 DEF Crash
  <2>2. {request[r].turn : r \in Requests} \ {None} \subseteq Turns
    BY <1>1
  <2> QED BY <1>1, <2>1, <2>2
<1> QED BY <1>3, <1>4, <1>5, <1>6, <1>7, <1>8, <1>9, <1>10 DEF Next

RequestsTyped == request \in [Requests -> Request(Len(rows))]

\* One request takes a record that is a request.
LEMMA RequestTyped ==
  ASSUME TypeOK, Keeps(rows', rows), NEW r \in Requests, NEW q \in Request(Len(rows)),
         request' = [request EXCEPT ![r] = q]
  PROVE  RequestsTyped'
<1>1. Len(rows) \in Nat /\ Len(rows') \in Nat /\ Len(rows') >= Len(rows)
  BY RowsThere, LenProperties DEF Keeps
<1>2. Request(Len(rows)) \subseteq Request(Len(rows'))
  <2>1. 0..Len(rows) \subseteq 0..Len(rows')
    BY <1>1
  <2> QED BY <2>1 DEF Request
<1>3. request' \in [Requests -> Request(Len(rows))]
  BY DEF TypeOK
<1> QED BY <1>2, <1>3 DEF RequestsTyped

\* A request that is over is a request.
LEMMA ReplyTyped ==
  ASSUME TypeOK, Keeps(rows', rows), NEW r \in Requests,
         \/ Reply(r)
         \/ request' = [request EXCEPT ![r] = [NewRequest EXCEPT !.pc = "done", !.result = "ok"]]
  PROVE  RequestsTyped'
<1>1. PICK q : /\ request' = [request EXCEPT ![r] = q]
               /\ \/ q = [NewRequest EXCEPT !.pc = "done"]
                  \/ q = [NewRequest EXCEPT !.pc = "done", !.result = "ok"]
  BY DEF Reply
<1>2. q \in Request(Len(rows))
  <2>1. 0 \in 0..Len(rows)
    BY RowsThere
  <2>2. CASE q = [NewRequest EXCEPT !.pc = "done"]
    BY <2>1, <2>2 DEF NewRequest, Request
  <2>3. CASE q = [NewRequest EXCEPT !.pc = "done", !.result = "ok"]
    BY <2>1, <2>3 DEF NewRequest, Request
  <2> QED BY <1>1, <2>2, <2>3
<1> QED BY <1>1, <1>2, RequestTyped

Places == {"new", "connect", "acquire", "barrier", "lock", "executor", "admit", "running",
           "settle", "repause", "quiesce", "stopping", "cleanup", "done"}

\* A request that goes on is a request.
LEMMA GoTyped ==
  ASSUME TypeOK, Keeps(rows', rows), NEW r \in Requests, NEW p \in Places, Go(r, p)
  PROVE  RequestsTyped'
<1>1. PICK q : q = [request[r] EXCEPT !.pc = p]
  OBVIOUS
<1>2. request' = [request EXCEPT ![r] = q]
  BY <1>1 DEF Go, TypeOK
<1>3. request[r] \in Request(Len(rows))
  BY DEF TypeOK
<1>4. q \in Request(Len(rows))
  BY <1>1, <1>3 DEF Request, Places
<1> QED BY <1>2, <1>4, RequestTyped

\* A request that is cancelled is a request.
LEMMA CancelTyped ==
  ASSUME TypeOK, rows' = rows, NEW r \in Requests, NEW a \in Agents, NEW by \in {"pause", "stop"},
         NEW p \in {"quiesce", "cleanup"}, request' = [Cancelled(a, by) EXCEPT ![r].pc = p]
  PROVE  RequestsTyped'
<1>1. Cancels(r, a, p)
  BY CancelBy
<1> QED BY <1>1 DEF Cancels, RequestsTyped

\* The steps of turns keep the type of the requests.
LEMMA TurnTyped ==
  ASSUME TypeOK, LifeInv, ReplayInv, Keeps(rows', rows), NEW r \in Requests, Turn(r)
  PROVE  RequestsTyped'
<1>1. request[r] \in Request(Len(rows))
  BY DEF TypeOK
<1>2. CASE Reply(r)
  BY <1>2, ReplyTyped
<1>3. ASSUME NEW p \in Places, Go(r, p) PROVE RequestsTyped'
  BY <1>3, GoTyped
<1>4. CASE Connect(r)
  BY <1>2, <1>3, <1>4 DEF Connect, Places
<1>5. CASE Acquire(r)
  BY <1>2, <1>3, <1>5 DEF Acquire, Places
<1>6. CASE Admitted(r)
  BY <1>3, <1>6 DEF Admitted, Places
<1>7. CASE CallTool(r)
  <2>1. PICK q : q = [request[r] EXCEPT !.steps = request[r].steps + 1]
    OBVIOUS
  <2>2. request' = [request EXCEPT ![r] = q]
    BY <1>7, <2>1 DEF CallTool, TypeOK
  <2>3. q \in Request(Len(rows))
    BY <1>1, <2>1 DEF Request
  <2> QED BY <2>2, <2>3, RequestTyped
<1>8. CASE RunEnds(r)
  <2>1. PICK result \in {"completed", "failed", "paused"} :
          request' = [request EXCEPT ![r].pc = "settle", ![r].result = result]
    BY <1>8 DEF RunEnds
  <2>2. PICK q : q = [request[r] EXCEPT !.pc = "settle", !.result = result]
    OBVIOUS
  <2>3. request' = [request EXCEPT ![r] = q]
    BY <2>1, <2>2 DEF TypeOK
  <2>4. q \in Request(Len(rows))
    BY <1>1, <2>2 DEF Request
  <2> QED BY <2>3, <2>4, RequestTyped
<1>9. CASE SettleResume(r)
  BY <1>2, <1>3, <1>9 DEF SettleResume, Places
<1> QED BY <1>2, <1>4, <1>5, <1>6, <1>7, <1>8, <1>9 DEF Turn, Refused, SettleSend, Repause

\* The steps of operations keep the type of the requests.
LEMMA OperationTyped ==
  ASSUME TypeOK, LifeInv, ReplayInv, Keeps(rows', rows), NEW r \in Requests, Operation(r)
  PROVE  RequestsTyped'
<1>1. request[r] \in Request(Len(rows))
  BY DEF TypeOK
<1>2. CASE Reply(r)
  BY <1>2, ReplyTyped
<1>3. ASSUME NEW p \in Places, Go(r, p) PROVE RequestsTyped'
  BY <1>3, GoTyped
<1>4. ASSUME NEW by \in {"pause", "stop"}, NEW p \in {"quiesce", "cleanup"}, rows' = rows,
             request[r].pc \notin {"new", "done"},
             request' = [Cancelled(Agent(r), by) EXCEPT ![r].pc = p]
      PROVE  RequestsTyped'
  BY <1>4, CancelTyped, HasAgent
<1>5. CASE TakeBarrier(r)
  BY <1>3, <1>5 DEF TakeBarrier, Places
<1>6. CASE LockResume(r)
  <2>1. PICK k : k = IF request[r].row = 0 THEN Newest(Agent(r)) ELSE request[r].row
    OBVIOUS
  <2>2. \/ Reply(r)
        \/ /\ Claimable(k, Agent(r))
           /\ request' = [request EXCEPT ![r].pc = "executor", ![r].row = k]
    BY <1>6, <2>1 DEF LockResume
  <2>3. CASE /\ Claimable(k, Agent(r))
             /\ request' = [request EXCEPT ![r].pc = "executor", ![r].row = k]
    <3>1. PICK q : q = [request[r] EXCEPT !.pc = "executor", !.row = k]
      OBVIOUS
    <3>2. request' = [request EXCEPT ![r] = q]
      BY <2>3, <3>1 DEF TypeOK
    <3>3. k \in 0..Len(rows)
      BY <2>3, RowsThere DEF Claimable, Active
    <3>4. q \in Request(Len(rows))
      BY <1>1, <3>1, <3>3 DEF Request
    <3> QED BY <3>2, <3>4, RequestTyped
  <2> QED BY <1>2, <2>2, <2>3
<1>7. CASE ResumeTurn(r)
  <2>1. PICK k : k = request[r].row
    OBVIOUS
  <2>2. Claims(r)
    BY <1>7 DEF ResumeTurn, At, Claims
  <2>3. rows[k] \in Row
    BY <2>1, <2>2, RowsThere DEF ReplayInv, Claimed
  <2>4. PICK q : q = [request[r] EXCEPT !.pc = "admit", !.turn = rows[k].turn, !.steps = rows[k].steps]
    OBVIOUS
  <2>5. request' = [request EXCEPT ![r] = q]
    BY <1>7, <2>1, <2>4 DEF ResumeTurn, TypeOK
  <2>6. q \in Request(Len(rows))
    BY <1>1, <2>3, <2>4 DEF Request, Row
  <2> QED BY <2>5, <2>6, RequestTyped
<1>8. CASE LockPause(r)
  BY <1>2, <1>4, <1>8 DEF LockPause, At
<1>9. CASE LockStop(r)
  BY <1>2, <1>3, <1>4, <1>9 DEF LockStop, At, Places
<1>10. CASE LockKill(r)
  BY <1>2, <1>3, <1>10 DEF LockKill, Places
<1>11. CASE Quiesced(r)
  BY <1>3, <1>11, ReplyTyped DEF Quiesced, Places
<1>12. CASE Terminate(r)
  BY <1>4, <1>12 DEF Terminate
<1> QED BY <1>2, <1>5, <1>6, <1>7, <1>8, <1>9, <1>10, <1>11, <1>12 DEF Operation, ResumeMismatch, CleanUp

\* Every step keeps the types.
LEMMA NextTyped ==
  ASSUME TypeOK, LifeInv, ReplayInv, [Next]_vars
  PROVE  TypeOK'
<1>1. Keeps(rows', rows)
  BY NextKeepsRows
<1>2. RequestsTyped'
  <2>1. CASE UNCHANGED vars
    BY <2>1 DEF vars, TypeOK, RequestsTyped
  <2>2. ASSUME NEW r \in Requests, Turn(r) \/ Operation(r) PROVE RequestsTyped'
    BY <1>1, <2>2, TurnTyped, OperationTyped
  <2>3. ASSUME NEW r \in Requests, QuiesceTimeout(r) \/ RequestTimeout(r) PROVE RequestsTyped'
    BY <1>1, <2>3, ReplyTyped DEF QuiesceTimeout, RequestTimeout
  <2>4. ASSUME NEW r \in Requests, NEW a \in Agents, StartSend(r, a) PROVE RequestsTyped'
    <3>1. PICK q : q = [NewRequest EXCEPT !.kind = "send", !.agent = a, !.pc = "connect", !.turn = r]
      OBVIOUS
    <3>2. 0 \in 0..Len(rows) /\ r \in Turns
      BY RowsThere DEF Turns
    <3>3. q \in Request(Len(rows))
      BY <3>1, <3>2 DEF NewRequest, Request
    <3> QED BY <1>1, <2>4, <3>1, <3>3, RequestTyped DEF StartSend
  <2>5. ASSUME NEW r \in Requests, NEW a \in Agents, StartOperation(r, a) PROVE RequestsTyped'
    <3>1. PICK kind \in {"resume", "pause", "stop", "kill"}, i \in 0..Len(rows) :
            request' = [request EXCEPT ![r] = [NewRequest EXCEPT !.kind = kind, !.agent = a,
                                                                 !.pc = "barrier", !.row = i]]
      BY <2>5 DEF StartOperation
    <3>2. PICK q : q = [NewRequest EXCEPT !.kind = kind, !.agent = a, !.pc = "barrier", !.row = i]
      OBVIOUS
    <3>3. q \in Request(Len(rows))
      BY <3>2 DEF NewRequest, Request
    <3> QED BY <1>1, <3>1, <3>2, <3>3, RequestTyped
  <2>6. ASSUME NEW i \in 1..Len(rows), Forget(i) PROVE RequestsTyped'
    <3>1. Len(rows') = Len(rows) /\ request' = request
      BY <2>6, ForgetRows DEF RowsStay, Forget
    <3> QED BY <3>1 DEF TypeOK, RequestsTyped
  <2>7. CASE Crash
    <3>1. PICK q : q = [NewRequest EXCEPT !.pc = "done"]
      OBVIOUS
    <3>2. 0 \in 0..Len(rows)
      BY RowsThere
    <3>3. q \in Request(Len(rows))
      BY <3>1, <3>2 DEF NewRequest, Request
    <3>4. request' = [r \in Requests |-> IF request[r].pc \in {"new", "done"} THEN request[r] ELSE q]
      BY <2>7, <3>1 DEF Crash
    <3>5. \A r \in Requests : request[r] \in Request(Len(rows))
      BY DEF TypeOK
    <3>6. request' \in [Requests -> Request(Len(rows))]
      BY <3>3, <3>4, <3>5
    <3>7. Len(rows') = Len(rows)
      BY <2>7, CrashRows DEF RowsStay
    <3> QED BY <3>6, <3>7 DEF RequestsTyped
  <2> QED BY <2>1, <2>2, <2>3, <2>4, <2>5, <2>6, <2>7 DEF Next
<1>3. rows' \in Seq(Row)
  BY <1>1 DEF Keeps
<1> QED BY <1>2, <1>3, StatesTyped, NextLocksTyped, NextHistoryTyped DEF TypeOK, LocksTyped, RequestsTyped

-----------------------------------------------------------------------------
(* Reports and tool calls.                                                 *)

\* A step of one request leaves the others' progress and reports alone.  It
\* reports success only where the awaited executor is idle, and adds to its
\* progress only if it has not been cancelled.
Honest(r) ==
  /\ \A x \in Requests \ {r} : /\ request'[x].steps = request[x].steps
                               /\ request'[x].result = request[x].result
                               /\ request'[x].pc = request[x].pc
  /\ \/ request'[r].result # "ok"
     \/ request[r].pc = "quiesce" /\ executor[Agent(r)] = None /\ request'[r].pc = "done"
  /\ request'[r].steps > request[r].steps /\ request[r].pc = "running" => request[r].cancelled = "no"

\* What has to be shown of the one request that changes.
LEMMA HonestBy ==
  ASSUME NEW r \in Requests, NEW q, Becomes(r, q), q.result # "ok",
         q.steps > request[r].steps /\ request[r].pc = "running" => request[r].cancelled = "no"
  PROVE  Honest(r)
  BY DEF Becomes, Honest

\* A reply reports no success of a pause.
LEMMA HonestReply ==
  ASSUME TypeOK, NEW r \in Requests, Reply(r)
  PROVE  Honest(r)
<1>1. PICK q : q = [NewRequest EXCEPT !.pc = "done"]
  OBVIOUS
<1>2. Becomes(r, q) /\ q.steps = 0 /\ q.result = "none"
  BY <1>1, BecomesBy DEF Reply, NewRequest
<1>3. request[r].steps \in Nat
  BY DEF TypeOK, Request
<1>4. ~(q.steps > request[r].steps)
  BY <1>2, <1>3
<1> QED BY <1>2, <1>4, HonestBy

\* A request that goes on reports nothing.
LEMMA HonestGo ==
  ASSUME TypeOK, ReportsLast, NEW r \in Requests, NEW p, Go(r, p), request[r].pc # "done"
  PROVE  Honest(r)
<1>1. PICK q : Becomes(r, q) /\ q.steps = request[r].steps /\ q.result = request[r].result
  BY NextBecomes
<1>2. request[r].steps \in Nat
  BY DEF TypeOK, Request
<1>3. ~(q.steps > request[r].steps)
  BY <1>1, <1>2
<1> QED BY <1>1, <1>3, HonestBy DEF ReportsLast

\* A cancellation reports nothing.
LEMMA HonestCancel ==
  ASSUME TypeOK, ReportsLast, NEW r \in Requests, NEW a, NEW p, Cancels(r, a, p), request[r].pc # "done"
  PROVE  Honest(r)
<1>1. request[r].steps \in Nat /\ request'[r].steps = request[r].steps
  BY DEF TypeOK, Request, Cancels
<1>2. ~(request'[r].steps > request[r].steps)
  BY <1>1
<1> QED BY <1>2 DEF Cancels, Honest, ReportsLast

\* Every step is one request's, a deletion, a crash or a stutter.
LEMMA NextHonest ==
  ASSUME TypeOK, LifeInv, ReportsLast, [Next]_vars
  PROVE  request' = request \/ Crash \/ \E r \in Requests : Honest(r)
<1>1. CASE UNCHANGED vars
  BY <1>1 DEF vars
<1>2. ASSUME NEW r \in Requests, Turn(r) PROVE Honest(r)
  <2>1. request[r].pc # "done" /\ request[r] \in Request(Len(rows))
    BY <1>2 DEF Turn, Connect, Acquire, Admitted, Refused, CallTool, RunEnds, SettleSend, SettleResume,
       Repause, At, TypeOK
  <2>2. CASE CallTool(r)
    <3>1. PICK q : q = [request[r] EXCEPT !.steps = request[r].steps + 1]
      OBVIOUS
    <3>2. request' = [request EXCEPT ![r] = q] /\ request[r].cancelled = "no"
      BY <2>2, <3>1 DEF CallTool, TypeOK
    <3>3. q.result = request[r].result
      BY <2>1, <3>1 DEF Request
    <3> QED BY <2>1, <3>2, <3>3, BecomesBy, HonestBy DEF ReportsLast
  <2>3. CASE RunEnds(r)
    <3>1. PICK result \in {"completed", "failed", "paused"} :
            request' = [request EXCEPT ![r].pc = "settle", ![r].result = result]
      BY <2>3 DEF RunEnds
    <3>2. PICK q : q = [request[r] EXCEPT !.pc = "settle", !.result = result]
      OBVIOUS
    <3>3. request' = [request EXCEPT ![r] = q]
      BY <3>1, <3>2 DEF TypeOK
    <3>4. q.result = result /\ q.steps = request[r].steps /\ request[r].steps \in Nat
      BY <2>1, <3>2 DEF Request
    <3>5. q.result # "ok" /\ ~(q.steps > request[r].steps)
      BY <3>4
    <3> QED BY <3>3, <3>5, BecomesBy, HonestBy
  <2>4. Reply(r) => Honest(r)
    BY HonestReply
  <2>5. \A p : Go(r, p) => Honest(r)
    BY <2>1, HonestGo
  <2> QED BY <1>2, <2>2, <2>3, <2>4, <2>5 DEF Turn, Connect, Acquire, Admitted, Refused, SettleSend,
                                              SettleResume, Repause
<1>3. ASSUME NEW r \in Requests, Operation(r) PROVE Honest(r)
  <2>1. request[r].pc \notin {"new", "done"} /\ request[r] \in Request(Len(rows))
    BY <1>3 DEF Operation, TakeBarrier, LockResume, ResumeMismatch, ResumeTurn, LockPause, LockStop,
       LockKill, Quiesced, Terminate, CleanUp, At, TypeOK
  <2>2. Reply(r) => Honest(r)
    BY HonestReply
  <2>3. \A p : Go(r, p) => Honest(r)
    BY <2>1, HonestGo
  <2>4. ASSUME NEW by \in {"pause", "stop"}, NEW p \in {"quiesce", "cleanup"},
               request' = [Cancelled(Agent(r), by) EXCEPT ![r].pc = p]
        PROVE  Honest(r)
    <3>1. Agent(r) \in Agents
      BY <2>1, HasAgent
    <3>2. Cancels(r, Agent(r), p)
      BY <2>4, <3>1, CancelBy
    <3> QED BY <2>1, <3>2, HonestCancel
  <2>5. CASE LockResume(r)
    <3>1. PICK k : \/ Reply(r)
                   \/ request' = [request EXCEPT ![r].pc = "executor", ![r].row = k]
      BY <2>5 DEF LockResume
    <3>2. PICK q : q = [request[r] EXCEPT !.pc = "executor", !.row = k]
      OBVIOUS
    <3>3. Reply(r) \/ request' = [request EXCEPT ![r] = q]
      BY <3>1, <3>2 DEF TypeOK
    <3>4. q.result = request[r].result /\ request[r].pc = "lock"
      BY <2>1, <2>5, <3>2 DEF Request, LockResume, At
    <3> QED BY <2>1, <2>2, <3>3, <3>4, BecomesBy, HonestBy DEF ReportsLast
  <2>6. CASE ResumeTurn(r)
    <3>1. PICK t, n : request' = [request EXCEPT ![r].pc = "admit", ![r].turn = t, ![r].steps = n]
      BY <2>6 DEF ResumeTurn
    <3>2. PICK q : q = [request[r] EXCEPT !.pc = "admit", !.turn = t, !.steps = n]
      OBVIOUS
    <3>3. request' = [request EXCEPT ![r] = q]
      BY <3>1, <3>2 DEF TypeOK
    <3>4. q.result = request[r].result /\ request[r].pc = "executor"
      BY <2>1, <2>6, <3>2 DEF Request, ResumeTurn, At
    <3> QED BY <2>1, <3>3, <3>4, BecomesBy, HonestBy DEF ReportsLast
  <2>7. CASE Quiesced(r)
    <3>1. CASE request[r].kind = "pause"
      <4>1. PICK q : q = [NewRequest EXCEPT !.pc = "done", !.result = "ok"]
        OBVIOUS
      <4>2. Becomes(r, q) /\ q.pc = "done" /\ request[r].pc = "quiesce" /\ executor[Agent(r)] = None
        BY <2>7, <3>1, <4>1, BecomesBy DEF Quiesced, NewRequest
      <4> QED BY <4>2 DEF Becomes, Honest
    <3>2. CASE request[r].kind # "pause"
      BY <2>3, <2>7, <3>2 DEF Quiesced
    <3> QED BY <3>1, <3>2
  <2>8. CASE LockStop(r)
    BY <2>2, <2>3, <2>4, <2>8 DEF LockStop
  <2>9. CASE LockPause(r)
    BY <2>2, <2>4, <2>9 DEF LockPause
  <2>10. CASE Terminate(r)
    BY <2>4, <2>10 DEF Terminate
  <2> QED BY <1>3, <2>2, <2>3, <2>5, <2>6, <2>7, <2>8, <2>9, <2>10 DEF Operation, TakeBarrier,
             ResumeMismatch, LockKill, CleanUp
<1>4. ASSUME NEW r \in Requests, QuiesceTimeout(r) \/ RequestTimeout(r) PROVE Honest(r)
  BY <1>4, HonestReply DEF QuiesceTimeout, RequestTimeout
<1>5. ASSUME NEW r \in Requests, NEW a \in Agents, StartSend(r, a) PROVE Honest(r)
  <2>1. PICK q : q = [NewRequest EXCEPT !.kind = "send", !.agent = a, !.pc = "connect", !.turn = r]
    OBVIOUS
  <2>2. Becomes(r, q) /\ q.result = "none" /\ request[r].pc = "new"
    BY <1>5, <2>1, BecomesBy DEF StartSend, NewRequest, Arriving
  <2> QED BY <2>2, HonestBy
<1>6. ASSUME NEW r \in Requests, NEW a \in Agents, StartOperation(r, a) PROVE Honest(r)
  <2>1. PICK kind, i :
          request' = [request EXCEPT ![r] = [NewRequest EXCEPT !.kind = kind, !.agent = a,
                                                               !.pc = "barrier", !.row = i]]
    BY <1>6 DEF StartOperation
  <2>2. PICK q : q = [NewRequest EXCEPT !.kind = kind, !.agent = a, !.pc = "barrier", !.row = i]
    OBVIOUS
  <2>3. Becomes(r, q) /\ q.result = "none" /\ request[r].pc = "new"
    BY <1>6, <2>1, <2>2, BecomesBy DEF StartOperation, NewRequest, Arriving
  <2> QED BY <2>3, HonestBy
<1>7. ASSUME NEW i, Forget(i) PROVE request' = request
  BY <1>7 DEF Forget
<1> QED BY <1>1, <1>2, <1>3, <1>4, <1>5, <1>6, <1>7 DEF Next

-----------------------------------------------------------------------------
(* The theorems.                                                           *)

\* Every step keeps success for the requests that are over.
LEMMA NextReports ==
  ASSUME TypeOK, LifeInv, ReportsLast, [Next]_vars
  PROVE  ReportsLast'
<1>1. CASE request' = request
  BY <1>1 DEF ReportsLast
<1>2. ASSUME NEW r \in Requests, Honest(r) PROVE ReportsLast'
  <2> SUFFICES ASSUME NEW x \in Requests, request'[x].result = "ok" PROVE request'[x].pc = "done"
    BY DEF ReportsLast
  <2>1. CASE x = r
    BY <1>2, <2>1 DEF Honest
  <2>2. CASE x # r
    BY <1>2, <2>2 DEF Honest, ReportsLast
  <2> QED BY <2>1, <2>2
<1>3. CASE Crash
  BY <1>3 DEF Crash, ReportsLast, NewRequest
<1> QED BY <1>1, <1>2, <1>3, NextHonest

\* The kernel that has rehydrated its agents is in order.
LEMMA InitIInv ==
  ASSUME Init
  PROVE  IInv
<1>1. /\ state \in [Agents -> {"Running", "Paused"}] /\ disk = state /\ barrier = None
      /\ lifecycle = [a \in Agents |-> None] /\ executor = [a \in Agents |-> None]
      /\ registered = [a \in Agents |-> None]
      /\ request = [r \in Requests |-> NewRequest] /\ ran = [t \in Turns |-> 0]
      /\ replayed = {} /\ excused = {} /\ crashes = 0
  BY DEF Init
<1>2. /\ rows \in Seq(Row) /\ Len(rows) \in {0, 1}
      /\ \A i \in 1..Len(rows) : rows[i].turn = Past /\ rows[i].steps = 0
  <2>1. CASE rows = <<>>
    BY <2>1
  <2>2. ASSUME NEW a \in Agents,
               rows = <<[agent |-> a, turn |-> Past, steps |-> 0, status |-> "active"]>>
        PROVE  /\ rows \in Seq(Row) /\ Len(rows) \in {0, 1}
               /\ \A i \in 1..Len(rows) : rows[i].turn = Past /\ rows[i].steps = 0
    <3>1. PICK w : w = [agent |-> a, turn |-> Past, steps |-> 0, status |-> "active"]
      OBVIOUS
    <3>2. w \in Row /\ w.turn = Past /\ w.steps = 0
      BY <3>1 DEF Row, Turns
    <3>3. rows = <<w>>
      BY <2>2, <3>1
    <3> QED BY <3>2, <3>3
  <2> QED BY <2>1, <2>2 DEF Init
<1>3. \A r \in Requests : request[r] = NewRequest
  BY <1>1
<1>4. TypeOK
  <2>1. request \in [Requests -> Request(Len(rows))]
    <3>1. 0 \in 0..Len(rows)
      BY <1>2
    <3>2. NewRequest \in Request(Len(rows))
      BY <3>1 DEF NewRequest, Request
    <3> QED BY <1>1, <3>2
  <2>2. state \in [Agents -> AgentStates]
    BY <1>1 DEF AgentStates
  <2>3. ran \in [Turns -> Nat] /\ None \in Holders
    BY <1>1 DEF Holders
  <2> QED BY <1>1, <1>2, <2>1, <2>2, <2>3 DEF TypeOK
<1>5. LifeInv
  <2>1. DiskFirst
    BY <1>1 DEF DiskFirst
  <2>2. \A r \in Requests : request[r].kind = "none" /\ request[r].pc = "new"
    BY <1>3 DEF NewRequest
  <2>3. \A r \in Requests : Placed(r) /\ Locked(r) /\ Reached(r) /\ Awaited(r)
    BY <2>2 DEF Placed, Locked, Reached, Awaited, At, PlacesOf
  <2> QED BY <2>1, <2>3 DEF LifeInv
<1>6. ReplayInv
  <2>1. \A r \in Requests : /\ request[r].kind = "none" /\ request[r].pc = "new"
                            /\ request[r].turn = None
    BY <1>3 DEF NewRequest
  <2>2. ASSUME NEW r \in Requests PROVE Fresh(r) /\ Carried(r) /\ Claimed(r)
    <3>1. ran[r] = 0 /\ r # Past
      BY <1>1, LifecycleConstants DEF Turns
    <3>2. Fresh(r)
      BY <1>2, <2>1, <3>1 DEF Fresh
    <3> QED BY <2>1, <3>2 DEF Carried, Claimed, Claims, Carrying
  <2>3. ASSUME NEW i \in 1..Len(rows) PROVE Current(i)
    <3>1. ran[Past] = 0
      BY <1>1 DEF Turns
    <3>2. \A j \in 1..Len(rows) : j = i
      BY <1>2
    <3> QED BY <1>2, <3>1, <3>2 DEF Current
  <2>4. NoReplay
    BY <1>1 DEF NoReplay
  <2> QED BY <2>2, <2>3, <2>4 DEF ReplayInv
<1>7. ReportsLast
  BY <1>3 DEF ReportsLast, NewRequest
<1> QED BY <1>4, <1>5, <1>6, <1>7 DEF IInv

\* Throughout every execution, whatever crashes and dropped requests it has,
\* requests hold the locks of their places, the database is terminal no later
\* than the memory, a turn that may still call tools can be cancelled, and what
\* can be resumed is all that its turn has done.
THEOREM LifecycleInvariant == Spec => []IInv
<1>1. Init => IInv
  BY InitIInv
<1>2. IInv /\ [Next]_vars => IInv'
  BY NextTyped, NextLife, NextReplay, NextReports DEF IInv
<1> QED BY <1>1, <1>2, PTL DEF Spec

\* generation_checkpoints: a turn repeats a tool call only after an error, a
\* dropped request or a crash discarded progress that no row holds; orderly
\* pauses, resumes, deletions, prunings and restarts never make it.
THEOREM CallsNotRepeated == Spec => []NoReplay
<1>1. IInv => NoReplay
  BY DEF IInv, ReplayInv
<1> QED BY <1>1, LifecycleInvariant, PTL

\* No step takes an agent out of a terminal state, in memory or in the database.
LEMMA NextKeepsTerminal ==
  ASSUME TypeOK, LifeInv, Next, NEW a \in Agents
  PROVE  /\ state[a] \in Terminal => state'[a] \in Terminal
         /\ disk[a] \in Terminal => disk'[a] \in Terminal
<1> DEFINE Kept == /\ state[a] \in Terminal => state'[a] \in Terminal
                   /\ disk[a] \in Terminal => disk'[a] \in Terminal
<1> SUFFICES Kept
  OBVIOUS
<1>1. CASE UNCHANGED <<state, disk>>
  BY <1>1
<1>2. ASSUME NEW r \in Requests, NEW b \in Agents, NEW s \in {"Running", "Paused"}, SetState(b, s),
             request[r].pc # "stopping", state[b] \notin Terminal, lifecycle[b] \in {None, r}
      PROVE  Kept
  <2>1. s \in AgentStates
    BY DEF AgentStates
  <2>2. StatesStay(r)
    BY <1>2, <2>1, StatesSet
  <2> QED BY <2>2 DEF StatesStay
<1>3. ASSUME NEW b, state' = state, disk' = [disk EXCEPT ![b] = "Stopping"] PROVE Kept
  BY <1>3 DEF TypeOK, Terminal
<1>4. ASSUME NEW r \in Requests, Turn(r) PROVE Kept
  <2>1. CASE Repause(r)
    <3>1. /\ request[r].pc = "repause" /\ lifecycle[Agent(r)] = None /\ Agent(r) \in Agents
          /\ \/ SetState(Agent(r), "Paused") /\ state[Agent(r)] = "Running"
             \/ UNCHANGED <<state, disk>>
      BY <2>1, HasAgent DEF Repause, At
    <3> QED BY <1>1, <1>2, <3>1 DEF Terminal
  <2> QED BY <1>1, <1>4, <2>1 DEF Turn, Connect, Acquire, Admitted, Refused, CallTool, RunEnds,
                                  SettleSend, SettleResume
<1>5. ASSUME NEW r \in Requests, Operation(r) PROVE Kept
  <2>1. CASE LockResume(r)
    <3>1. /\ request[r].pc = "lock" /\ lifecycle[Agent(r)] = None /\ Agent(r) \in Agents
          /\ \/ SetState(Agent(r), "Running") /\ state[Agent(r)] = "Paused"
             \/ UNCHANGED <<state, disk>>
      BY <2>1, HasAgent DEF LockResume, At
    <3> QED BY <1>1, <1>2, <3>1 DEF Terminal
  <2>2. CASE ResumeTurn(r)
    <3>1. /\ request[r].pc = "executor" /\ lifecycle[Agent(r)] = r /\ Agent(r) \in Agents
          /\ SetState(Agent(r), "Running") /\ state[Agent(r)] = "Paused"
      BY <2>2, HasAgent DEF ResumeTurn, At, LifeInv, Locked, Awaited
    <3> QED BY <1>2, <3>1 DEF Terminal
  <2>3. CASE LockPause(r)
    <3>1. /\ request[r].pc = "lock" /\ lifecycle[Agent(r)] = None /\ Agent(r) \in Agents
          /\ \/ SetState(Agent(r), "Paused") /\ state[Agent(r)] = "Running"
             \/ UNCHANGED <<state, disk>>
      BY <2>3, HasAgent DEF LockPause, At
    <3> QED BY <1>1, <1>2, <3>1 DEF Terminal
  <2>4. CASE LockKill(r) \/ Quiesced(r)
    BY <1>1, <1>3, <2>4 DEF LockKill, Quiesced
  <2>5. CASE Terminate(r)
    BY <2>5 DEF Terminate, TypeOK, Terminal
  <2>6. CASE CleanUp(r)
    BY <2>6 DEF CleanUp, SetState, TypeOK, Terminal
  <2>7. CASE TakeBarrier(r) \/ ResumeMismatch(r) \/ LockStop(r)
    BY <1>1, <2>7 DEF TakeBarrier, ResumeMismatch, LockStop
  <2> QED BY <1>5, <2>1, <2>2, <2>3, <2>4, <2>5, <2>6, <2>7 DEF Operation
<1>6. ASSUME NEW r \in Requests, QuiesceTimeout(r) \/ RequestTimeout(r) PROVE Kept
  BY <1>1, <1>6 DEF QuiesceTimeout, RequestTimeout
<1>7. ASSUME NEW r \in Requests, NEW b \in Agents, StartSend(r, b) \/ StartOperation(r, b) PROVE Kept
  BY <1>1, <1>7 DEF StartSend, StartOperation
<1>8. ASSUME NEW i, Forget(i) PROVE Kept
  BY <1>1, <1>8 DEF Forget
<1>9. CASE Crash
  <2>1. disk'[a] = (IF disk[a] \in Terminal THEN "Stopped" ELSE disk[a]) /\ state'[a] = disk'[a]
    BY <1>9 DEF Crash
  <2>2. state[a] \in Terminal => disk[a] \in Terminal
    BY DEF LifeInv, DiskFirst
  <2> QED BY <2>1, <2>2 DEF Terminal
<1> HIDE DEF Kept
<1> QED BY <1>4, <1>5, <1>6, <1>7, <1>8, <1>9 DEF Next

\* Kernel::stop_agent and Kernel::kill_agent: terminal states are never left,
\* in memory, in the database or over a crash, and no tool is called then.
THEOREM TerminalForEver == Spec => TerminalIsFinal
<1>1. IInv /\ [Next]_vars =>
        [\A a \in Agents :
           /\ disk[a] \in Terminal \/ state[a] \in Terminal => disk'[a] \in Terminal
           /\ state[a] \in Terminal => state'[a] \in Terminal
           /\ \A r \in Requests :
                Agent(r) = a /\ request[r].pc = "running" /\ request'[r].steps > request[r].steps
                  => state[a] \notin Terminal]_vars
  <2> SUFFICES ASSUME IInv, Next, NEW a \in Agents
               PROVE  /\ disk[a] \in Terminal \/ state[a] \in Terminal => disk'[a] \in Terminal
                      /\ state[a] \in Terminal => state'[a] \in Terminal
                      /\ \A r \in Requests :
                           Agent(r) = a /\ request[r].pc = "running"
                             /\ request'[r].steps > request[r].steps => state[a] \notin Terminal
    OBVIOUS
  <2>1. TypeOK /\ LifeInv /\ ReportsLast
    BY DEF IInv
  <2>2. /\ state[a] \in Terminal => state'[a] \in Terminal
        /\ disk[a] \in Terminal \/ state[a] \in Terminal => disk'[a] \in Terminal
    BY <2>1, NextKeepsTerminal DEF LifeInv, DiskFirst
  <2>3. ASSUME NEW r \in Requests, Agent(r) = a, request[r].pc = "running",
               request'[r].steps > request[r].steps
        PROVE  state[a] \notin Terminal
    <3>1. request[r].steps \in Nat
      BY <2>1 DEF TypeOK, Request
    <3>2. request' # request
      BY <2>3, <3>1
    <3>3. ~Crash
      <4> SUFFICES ASSUME Crash PROVE FALSE
        OBVIOUS
      <4>1. request'[r] = [NewRequest EXCEPT !.pc = "done"]
        BY <2>3 DEF Crash
      <4>2. request'[r].steps = 0
        BY <4>1 DEF NewRequest
      <4> QED BY <2>3, <3>1, <4>2
    <3>4. PICK x \in Requests : Honest(x)
      BY <2>1, <3>2, <3>3, NextHonest
    <3>5. x = r
      <4> SUFFICES ASSUME x # r PROVE FALSE
        OBVIOUS
      <4>1. request'[r].steps = request[r].steps
        BY <3>4 DEF Honest
      <4> QED BY <2>3, <3>1, <4>1
    <3>6. request[r].cancelled = "no"
      BY <2>3, <3>4, <3>5 DEF Honest
    <3> QED BY <2>1, <2>3, <3>6 DEF LifeInv, Reached
  <2> QED BY <2>2, <2>3
<1> QED BY <1>1, LifecycleInvariant, PTL DEF Spec, TerminalIsFinal

\* quiesce_agent: when a pause reports success nobody runs a turn of the agent
\* or is about to save one.
THEOREM PauseIsQuiet == Spec => PauseReturnsQuiet
<1>1. IInv /\ [Next]_vars =>
        [\A r \in Requests :
           At(r, {"pause"}, "quiesce") /\ request'[r].result = "ok" =>
             \A q \in Requests : Agent(q) = Agent(r)
               => request[q].pc \notin {"admit", "running", "settle"}]_vars
  <2> SUFFICES ASSUME IInv, Next, NEW r \in Requests, At(r, {"pause"}, "quiesce"),
                      request'[r].result = "ok", NEW q \in Requests, Agent(q) = Agent(r),
                      request[q].pc \in {"admit", "running", "settle"}
               PROVE  FALSE
    OBVIOUS
  <2>1. TypeOK /\ LifeInv /\ ReportsLast /\ request[r].kind = "pause" /\ request[r].pc = "quiesce"
    BY DEF IInv, At
  <2>2. request' # request
    BY <2>1 DEF ReportsLast
  <2>3. ~Crash
    <3> SUFFICES ASSUME Crash PROVE FALSE
      OBVIOUS
    <3>1. request'[r] = [NewRequest EXCEPT !.pc = "done"]
      BY <2>1 DEF Crash
    <3> QED BY <3>1 DEF NewRequest
  <2>4. PICK x \in Requests : Honest(x)
    BY <2>1, <2>2, <2>3, NextHonest
  <2>5. x = r
    <3> SUFFICES ASSUME x # r PROVE FALSE
      OBVIOUS
    <3>1. request'[r].result = request[r].result
      BY <2>4 DEF Honest
    <3> QED BY <2>1, <3>1 DEF ReportsLast
  <2>6. executor[Agent(r)] = None
    BY <2>4, <2>5 DEF Honest
  <2>7. barrier = r
    BY <2>1 DEF LifeInv, Locked
  <2>8. request[q].kind \in {"send", "resume"}
    BY <2>1, KindOf
  <2>9. barrier = q
    <3>1. Locked(q)
      BY <2>1 DEF LifeInv
    <3>2. ~(request[q].pc \in {"admit", "running"} \/ At(q, {"send"}, "settle"))
      BY <2>6, <3>1, NoneNoRequest DEF Locked
    <3> QED BY <2>8, <3>1, <3>2 DEF Locked, At
  <2> QED BY <2>1, <2>7, <2>9
<1> QED BY <1>1, LifecycleInvariant, PTL DEF Spec, PauseReturnsQuiet

==============================================================================
