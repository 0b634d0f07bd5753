-------------------------------- MODULE AgentRuns --------------------------------
(***************************************************************************)
(* A console command and the agent runs that serve it: the AgentRun row    *)
(* (src/apps/autopilot/api.py), the background task that invokes AgentCore *)
(* (tasks.py), the runner's tools claim_pending_run and finish_run         *)
(* (mcp_tools.py) and the agent's own loop (src/agent/osir_agent/loops.py).*)
(*                                                                         *)
(* A run may be taken by the task, which reads the row and writes it back  *)
(* without a lock, and by a local runner, which claims it under one.  The  *)
(* remote agent and the local one both close the run through finish_run,   *)
(* and the task closes it too if the call raised or left it running; each  *)
(* of the three reads the row first and writes it in a later statement.    *)
(***************************************************************************)
EXTENDS Naturals

CONSTANTS
  LastRun,   \* bound: commands given; they are numbered in order
  UseCore    \* agentcore_configured

ASSUME AgentRunsAssumption == LastRun \in Nat /\ UseCore \in BOOLEAN

VARIABLES
  run,       \* status of each run
  task,      \* what the run's invoke_agentcore task does next
  agent,     \* what the remote and the local agent of a run do
  \* history
  crossed,   \* runs the task marked although they were no longer pending
  together,  \* runs two had read before either closed them
  closed,    \* how often a run was closed; two stands for several
  died       \* runs whose task or local runner died

runVars == <<run, task, agent, crossed, together, closed, died>>

Runs == 1 .. LastRun
Agents == {"core", "local"}
Terminal == {"succeeded", "failed"}
TaskStep == {"none", "queued", "checked", "waiting", "answered", "raised", "storing", "failing"}

RunsTypeOK ==
  /\ run \in [Runs -> {"none", "pending", "running"} \cup Terminal]
  /\ task \in [Runs -> TaskStep]
  /\ agent \in [Agents -> [Runs -> {"none", "working", "closing", "over"}]]
  /\ crossed \subseteq Runs
  /\ together \subseteq Runs
  /\ closed \in [Runs -> 0 .. 2]
  /\ died \subseteq Runs

RunsInit ==
  /\ run = [r \in Runs |-> "none"]
  /\ task = [r \in Runs |-> "none"]
  /\ agent = [x \in Agents |-> [r \in Runs |-> "none"]]
  /\ crossed = {}
  /\ together = {}
  /\ closed = [r \in Runs |-> 0]
  /\ died = {}

\* Those about to close a run they have read unfinished.
Closing(r) ==
  {x \in Agents : agent[x][r] = "closing"}
    \cup (IF task[r] \in {"storing", "failing"} THEN {"task"} ELSE {})

\* One more has read it.
Joined(r) == together' = IF Closing(r) # {} THEN together \cup {r} ELSE together

\* A closing write, whatever the row holds by now.
Closes(r, s) ==
  /\ run' = [run EXCEPT ![r] = s]
  /\ closed' = [closed EXCEPT ![r] = IF @ = 2 THEN 2 ELSE @ + 1]

----------------------------------------------------------------------------------
\* POST /command.
Command(r) ==
  /\ run[r] = "none"
  /\ r > 1 => run[r - 1] # "none"
  /\ run' = [run EXCEPT ![r] = "pending"]
  /\ task' = [task EXCEPT ![r] = IF UseCore THEN "queued" ELSE "none"]
  /\ UNCHANGED <<agent, crossed, together, closed, died>>

(* invoke_agentcore. *)

TaskGoes(r, s) == task' = [task EXCEPT ![r] = s]

CheckPending(r) ==
  /\ task[r] = "queued"
  /\ TaskGoes(r, IF run[r] = "pending" THEN "checked" ELSE "none")
  /\ UNCHANGED <<run, agent, crossed, together, closed, died>>

\* The row is marked as it was read, and the remote agent starts.
Invoke(r) ==
  /\ task[r] = "checked"
  /\ run' = [run EXCEPT ![r] = "running"]
  /\ TaskGoes(r, "waiting")
  /\ agent' = [agent EXCEPT !["core"][r] = "working"]
  /\ crossed' = IF run[r] # "pending" THEN crossed \cup {r} ELSE crossed
  /\ UNCHANGED <<together, closed, died>>

\* The answer comes when the agent is through; the call may raise long before.
CallEnds(r) ==
  /\ task[r] = "waiting"
  /\ \/ agent["core"][r] = "over" /\ TaskGoes(r, "answered")
     \/ TaskGoes(r, "raised")
  /\ UNCHANGED <<run, agent, crossed, together, closed, died>>

\* Mutants: the error path leaves the row alone; the row is not read again.
RefreshAnswered(r) ==
  /\ task[r] \in {"answered", "raised"}
  /\ TaskGoes(r, IF task[r] = "answered" /\ run[r] = "running" THEN "storing" ELSE "none")
  /\ Joined(r)
  /\ UNCHANGED <<run, agent, crossed, closed, died>>

RefreshNever(r) ==
  /\ task[r] \in {"answered", "raised"}
  /\ TaskGoes(r, IF task[r] = "answered" THEN "storing" ELSE "failing")
  /\ Joined(r)
  /\ UNCHANGED <<run, agent, crossed, closed, died>>

\* refresh_from_db: a run still running is closed by the task.
Refresh(r) ==
  /\ task[r] \in {"answered", "raised"}
  /\ \/ /\ run[r] = "running"
        /\ TaskGoes(r, IF task[r] = "answered" THEN "storing" ELSE "failing")
        /\ Joined(r)
     \/ run[r] # "running" /\ TaskGoes(r, "none") /\ UNCHANGED together
  /\ UNCHANGED <<run, agent, crossed, closed, died>>

StoreOutcome(r) ==
  /\ task[r] \in {"storing", "failing"}
  /\ Closes(r, IF task[r] = "storing" THEN "succeeded" ELSE "failed")
  /\ TaskGoes(r, "none")
  /\ UNCHANGED <<agent, crossed, together, died>>

\* The worker dies; the task queue gives the task out again.
TaskDies(r) ==
  /\ task[r] \notin {"none", "queued"}
  /\ TaskGoes(r, "queued")
  /\ died' = died \cup {r}
  /\ UNCHANGED <<run, agent, crossed, together, closed>>

----------------------------------------------------------------------------------
(* Agents. *)

LocalIdle == \A r \in Runs : agent["local"][r] \notin {"working", "closing"}
Oldest(open) == {r \in Runs : run[r] \in open /\ \A q \in 1 .. r - 1 : run[q] \notin open}

ClaimFrom(open) ==
  /\ LocalIdle
  /\ \E r \in Oldest(open) :
       /\ run' = [run EXCEPT ![r] = "running"]
       /\ agent' = [agent EXCEPT !["local"][r] = "working"]
  /\ UNCHANGED <<task, crossed, together, closed, died>>

\* Mutant: a running run is claimed too, as one somebody abandoned.
ClaimUnfinished == ClaimFrom({"pending", "running"})

\* claim_pending_run: SELECT FOR UPDATE and the write, in one transaction.
ClaimPendingRun == ClaimFrom({"pending"})

AgentGoes(x, r, s) == agent' = [agent EXCEPT ![x][r] = s]

\* The agent's work is over and finish_run reads the row; it refuses to close
\* a run that is finished.
FinishRun(x, r) ==
  /\ agent[x][r] = "working"
  /\ \/ run[r] \in Terminal /\ AgentGoes(x, r, "over") /\ UNCHANGED together
     \/ run[r] \notin Terminal /\ AgentGoes(x, r, "closing") /\ Joined(r)
  /\ UNCHANGED <<run, task, crossed, closed, died>>

\* With its report, or with the error that ended the work.
SaveRun(x, r) ==
  /\ agent[x][r] = "closing"
  /\ \E s \in Terminal : Closes(r, s)
  /\ AgentGoes(x, r, "over")
  /\ UNCHANGED <<task, crossed, together, died>>

\* The agent dies, or an older build does not call finish_run.
AgentQuits(x, r) ==
  /\ agent[x][r] \in {"working", "closing"}
  /\ AgentGoes(x, r, "over")
  /\ died' = IF x = "local" THEN died \cup {r} ELSE died
  /\ UNCHANGED <<run, task, crossed, together, closed>>

----------------------------------------------------------------------------------
TaskStepOf(r) == CheckPending(r) \/ Invoke(r) \/ CallEnds(r) \/ Refresh(r) \/ StoreOutcome(r)
AgentStep(x, r) == FinishRun(x, r) \/ SaveRun(x, r)

RunsNext ==
  \/ ClaimPendingRun
  \/ \E r \in Runs :
       \/ Command(r)
       \/ TaskStepOf(r)
       \/ TaskDies(r)
       \/ \E x \in Agents : AgentStep(x, r) \/ AgentQuits(x, r)

RunsSpec == RunsInit /\ [][RunsNext]_runVars

----------------------------------------------------------------------------------
(* Properties. *)

\* "Atomically claim": one agent works on a run, however the task and the local
\* runner meet, unless the runner's claim falls between the task's check and
\* its mark.
RunIsTakenOnce ==
  \A r \in Runs :
    agent["core"][r] # "none" /\ agent["local"][r] # "none" => r \in crossed

\* A run is closed once, by whoever is first, unless two of its closers had
\* read it unfinished, or the task put it back to running.
RunIsClosedOnce ==
  \A r \in Runs : closed[r] = 2 => r \in together \cup crossed

\* "Every run is recorded back in Studio, including failures": a command ends
\* in a final status unless a process that served it died.
RunEnds ==
  \A r \in Runs : run[r] \in {"pending", "running"} ~> run[r] \in Terminal \/ r \in died

==================================================================================
