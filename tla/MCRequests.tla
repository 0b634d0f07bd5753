------------------------------- MODULE MCRequests -------------------------------
(***************************************************************************)
(* What people and agents ask for: POST /posts, uploads and runs of the    *)
(* agent, checked in one run.  The components share no state, so the       *)
(* behaviours of each are explored while the others stay as they began;    *)
(* `focus', chosen at the start, says which one moves.                     *)
(***************************************************************************)
EXTENDS PostsApi, Uploads, AgentRuns, TLC

CONSTANTS r1, r2, r3, k1   \* requests and a key of POST /posts

VARIABLE focus

allVars == <<focus, apiVars, mediaVars, runVars>>

\* Three requests with one key: two with the same body, one with another.
MCKeyOf == [r \in Requests |-> k1]
MCBodyOf == [r \in Requests |-> IF r = r3 THEN "later" ELSE "now"]

Init ==
  /\ focus \in {"api", "media", "runs"}
  /\ ApiInit
  /\ MediaInit
  /\ RunsInit

On(component) == focus = component /\ UNCHANGED focus

Next ==
  \/ On("api") /\ ApiNext /\ UNCHANGED <<mediaVars, runVars>>
  \/ On("media") /\ MediaNext /\ UNCHANGED <<apiVars, runVars>>
  \/ On("runs") /\ RunsNext /\ UNCHANGED <<apiVars, mediaVars>>

\* The sweeps run on, a request that has begun is carried on, and time passes.
Fairness ==
  /\ \A r \in Requests : WF_apiVars(focus = "api" /\ Proceed(r) /\ Running(r))
  /\ \A k \in Keys : WF_apiVars(focus = "api" /\ Age(k))
  /\ WF_apiVars(focus = "api" /\ Sweep)
  /\ WF_mediaVars(focus = "media" /\ Reap)
  /\ WF_runVars(focus = "runs" /\ ClaimPendingRun)
  /\ \A r \in Runs :
       /\ WF_runVars(focus = "runs" /\ TaskStepOf(r))
       /\ \A x \in Agents : WF_runVars(focus = "runs" /\ AgentStep(x, r))

Spec == Init /\ [][Next]_allVars /\ Fairness

\* Every variable of the three components has the values its module declares.
RequestsTypeOK == ApiTypeOK /\ MediaTypeOK /\ RunsTypeOK
===============================================================================
