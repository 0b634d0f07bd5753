----------------------------- MODULE AgentWorkProofs -----------------------------
(***************************************************************************)
(* Proofs about what an agent works with.  AgentRuns, for any number of    *)
(* runs: who takes a run and how often it is closed.  Uploads, for any     *)
(* number of finalizers, assets and deleters: an upload stays whole, and   *)
(* a deletion does not take the media of a scheduled post.                 *)
(***************************************************************************)
EXTENDS MCRequests, PostsApiProofs, FiniteSetTheorems, TLAPS

\* Until a run is marked or claimed, no agent has worked on it.
UnstartedIsUntouched ==
  \A r \in Runs : run[r] \in {"none", "pending"} => \A x \in Agents : agent[x][r] = "none"

\* What makes "taken once" inductive.
TakenInv == RunsTypeOK /\ UnstartedIsUntouched /\ RunIsTakenOnce

\* Nothing has gone wrong with the run so far: no two of its closers read it
\* unfinished, and the task did not put it back to running.
Orderly(r) == r \notin together \cup crossed

\* An orderly run has one closer at a time, and none once it is closed, since
\* it then has a final status nobody takes it out of.
OneCloser ==
  \A r \in Runs :
    Orderly(r) =>
      /\ \A x, y \in Closing(r) : x = y
      /\ closed[r] # 0 => Closing(r) = {} /\ run[r] \in Terminal
      /\ closed[r] # 2

\* What makes "closed once" inductive.
ClosedInv == RunsTypeOK /\ OneCloser

----------------------------------------------------------------------------------
(* Type correctness. *)

\* The type invariant is inductive.
LEMMA RunsTypeInductive == ASSUME RunsTypeOK, [RunsNext]_runVars PROVE RunsTypeOK'
<1> USE DEF RunsTypeOK, Agents, Terminal, TaskStep
<1>1. CASE UNCHANGED runVars
  BY <1>1 DEF runVars
<1>2. CASE ClaimPendingRun
  <2>1. PICK r \in Runs : /\ run' = [run EXCEPT ![r] = "running"]
                          /\ agent' = [agent EXCEPT !["local"][r] = "working"]
    BY <1>2 DEF ClaimPendingRun, ClaimFrom, Oldest
  <2> QED BY <1>2, <2>1 DEF ClaimPendingRun, ClaimFrom
<1>3. ASSUME NEW r \in Runs, Command(r) PROVE RunsTypeOK'
  BY <1>3 DEF Command
<1>4. ASSUME NEW r \in Runs, TaskStepOf(r) \/ TaskDies(r) PROVE RunsTypeOK'
  <2>1. CASE CheckPending(r)
    BY <2>1 DEF CheckPending, TaskGoes
  <2>2. CASE Invoke(r)
    BY <2>2 DEF Invoke, TaskGoes
  <2>3. CASE CallEnds(r)
    BY <2>3 DEF CallEnds, TaskGoes
  <2>4. CASE Refresh(r)
    BY <2>4 DEF Refresh, TaskGoes, Joined
  <2>5. CASE StoreOutcome(r)
    BY <2>5 DEF StoreOutcome, Closes, TaskGoes
  <2>6. CASE TaskDies(r)
    BY <2>6 DEF TaskDies, TaskGoes
  <2> QED BY <1>4, <2>1, <2>2, <2>3, <2>4, <2>5, <2>6 DEF TaskStepOf
<1>5. ASSUME NEW r \in Runs, NEW x \in Agents, AgentStep(x, r) \/ AgentQuits(x, r)
      PROVE RunsTypeOK'
  <2>1. CASE FinishRun(x, r)
    BY <2>1 DEF FinishRun, AgentGoes, Joined
  <2>2. CASE SaveRun(x, r)
    BY <2>2 DEF SaveRun, AgentGoes, Closes
  <2>3. CASE AgentQuits(x, r)
    BY <2>3 DEF AgentQuits, AgentGoes
  <2> QED BY <1>5, <2>1, <2>2, <2>3 DEF AgentStep
<1> QED BY <1>1, <1>2, <1>3, <1>4, <1>5 DEF RunsNext

\* Every reachable state has the declared types, for any number of runs.
THEOREM RunsTypeCorrect == RunsSpec => []RunsTypeOK
<1>1. RunsInit => RunsTypeOK
  BY DEF RunsInit, RunsTypeOK, Agents, TaskStep, Terminal
<1>2. RunsTypeOK /\ [RunsNext]_runVars => RunsTypeOK'
  BY RunsTypeInductive
<1> QED BY <1>1, <1>2, PTL DEF RunsSpec

----------------------------------------------------------------------------------
(* A run is taken once. *)

\* Taking a run leaves TakenInv true: the claim needs a pending run, which no
\* agent has touched, and the mark of a run that is not pending is crossed.
LEMMA TakenInductive == ASSUME TakenInv, [RunsNext]_runVars PROVE TakenInv'
<1> USE DEF TakenInv, UnstartedIsUntouched, RunIsTakenOnce
<1>0. RunsTypeOK'
  BY RunsTypeInductive
<1> USE DEF RunsTypeOK, Agents, Terminal
<1>1. CASE UNCHANGED runVars
  BY <1>1 DEF runVars
<1>2. CASE ClaimPendingRun
  <2>1. PICK r \in Runs : /\ run[r] = "pending"
                          /\ run' = [run EXCEPT ![r] = "running"]
                          /\ agent' = [agent EXCEPT !["local"][r] = "working"]
    BY <1>2 DEF ClaimPendingRun, ClaimFrom, Oldest
  <2> QED BY <1>0, <1>2, <2>1 DEF ClaimPendingRun, ClaimFrom
<1>3. ASSUME NEW r \in Runs, Command(r) PROVE TakenInv'
  BY <1>0, <1>3 DEF Command
<1>4. ASSUME NEW r \in Runs, TaskStepOf(r) \/ TaskDies(r) PROVE TakenInv'
  <2>1. CASE CheckPending(r)
    BY <1>0, <2>1 DEF CheckPending
  <2>2. CASE Invoke(r)
    BY <1>0, <2>2 DEF Invoke
  <2>3. CASE CallEnds(r)
    BY <1>0, <2>3 DEF CallEnds
  <2>4. CASE Refresh(r)
    BY <1>0, <2>4 DEF Refresh
  <2>5. CASE StoreOutcome(r)
    BY <1>0, <2>5 DEF StoreOutcome, Closes
  <2>6. CASE TaskDies(r)
    BY <1>0, <2>6 DEF TaskDies
  <2> QED BY <1>4, <2>1, <2>2, <2>3, <2>4, <2>5, <2>6 DEF TaskStepOf
<1>5. ASSUME NEW r \in Runs, NEW x \in Agents, AgentStep(x, r) \/ AgentQuits(x, r)
      PROVE TakenInv'
  <2>1. CASE FinishRun(x, r)
    BY <1>0, <2>1 DEF FinishRun, AgentGoes
  <2>2. CASE SaveRun(x, r)
    BY <1>0, <2>2 DEF SaveRun, AgentGoes, Closes
  <2>3. CASE AgentQuits(x, r)
    BY <1>0, <2>3 DEF AgentQuits, AgentGoes
  <2> QED BY <1>5, <2>1, <2>2, <2>3 DEF AgentStep
<1> QED BY <1>1, <1>2, <1>3, <1>4, <1>5 DEF RunsNext

\* "Atomically claim", for any number of runs: the remote and the local agent
\* work on the same run only when the claim fell between the task's check and
\* its mark.
THEOREM RunTakenOnce == RunsSpec => []RunIsTakenOnce
<1>1. RunsInit => TakenInv
  BY DEF RunsInit, TakenInv, RunsTypeOK, UnstartedIsUntouched, RunIsTakenOnce, Agents,
         TaskStep, Terminal
<1>2. TakenInv /\ [RunsNext]_runVars => TakenInv'
  BY TakenInductive
<1>3. TakenInv => RunIsTakenOnce
  BY DEF TakenInv
<1> QED BY <1>1, <1>2, <1>3, PTL DEF RunsSpec

----------------------------------------------------------------------------------
(* A run is closed once. *)

\* One more closer of r leaves the others' runs alone, and one of r that is not
\* alone makes the run disorderly.
LEMMA JoiningKeeps ==
  ASSUME ClosedInv, NEW r \in Runs, NEW c, Joined(r),
         Closing(r)' = Closing(r) \cup {c},
         \A q \in Runs \ {r} : Closing(q)' = Closing(q),
         run[r] \notin Terminal,
         UNCHANGED <<run, crossed, closed>>
  PROVE  OneCloser'
BY DEF ClosedInv, OneCloser, Orderly, Joined

\* A closer of r closes it and is gone.
LEMMA ClosingKeeps ==
  ASSUME ClosedInv, NEW r \in Runs, NEW c \in Closing(r), NEW s \in Terminal, Closes(r, s),
         Closing(r)' = Closing(r) \ {c},
         \A q \in Runs \ {r} : Closing(q)' = Closing(q),
         UNCHANGED <<crossed, together>>
  PROVE  OneCloser'
<1> USE DEF ClosedInv, RunsTypeOK, OneCloser, Orderly, Closes
<1>1. ASSUME NEW q \in Runs, Orderly(q), q # r
      PROVE  /\ closed'[q] = closed[q]
             /\ run'[q] = run[q]
             /\ Closing(q)' = Closing(q)
  BY <1>1
<1>2. Orderly(r) => /\ Closing(r)' = {}
                    /\ closed'[r] = 1
                    /\ run'[r] = s
  BY DEF Terminal
<1> QED BY <1>1, <1>2

\* A step that adds no closer and closes nothing.
LEMMA QuietKeeps ==
  ASSUME ClosedInv,
         \A q \in Runs : Closing(q)' \subseteq Closing(q),
         \A q \in Runs : Orderly(q)' /\ run[q] \in Terminal => run'[q] \in Terminal,
         crossed \subseteq crossed',
         UNCHANGED <<closed, together>>
  PROVE  OneCloser'
<1>1. ASSUME NEW q \in Runs, Orderly(q)'
      PROVE  /\ \A x, y \in Closing(q)' : x = y
             /\ closed'[q] # 0 => Closing(q)' = {} /\ run'[q] \in Terminal
             /\ closed'[q] # 2
  <2>1. Orderly(q)
    BY <1>1 DEF Orderly
  <2>2. Closing(q)' \subseteq Closing(q) /\ closed'[q] = closed[q]
    OBVIOUS
  <2> QED BY <1>1, <2>1, <2>2 DEF ClosedInv, OneCloser
<1> QED BY <1>1 DEF OneCloser

\* Every step leaves ClosedInv true.
LEMMA ClosedInductive == ASSUME ClosedInv, [RunsNext]_runVars PROVE ClosedInv'
<1>0. RunsTypeOK'
  BY RunsTypeInductive DEF ClosedInv
<1> SUFFICES OneCloser'
  BY <1>0 DEF ClosedInv
<1> USE DEF ClosedInv, RunsTypeOK, Agents, Terminal, Closing, TaskStep
<1>1. CASE UNCHANGED runVars
  BY <1>1 DEF runVars, OneCloser, Orderly
<1>2. CASE ClaimPendingRun
  <2>1. PICK r \in Runs : /\ run[r] = "pending"
                          /\ run' = [run EXCEPT ![r] = "running"]
                          /\ agent' = [agent EXCEPT !["local"][r] = "working"]
    BY <1>2 DEF ClaimPendingRun, ClaimFrom, Oldest
  <2>2. UNCHANGED <<task, crossed, together, closed>>
    BY <1>2 DEF ClaimPendingRun, ClaimFrom
  <2> QED BY <2>1, <2>2, QuietKeeps
<1>3. ASSUME NEW r \in Runs, Command(r) PROVE OneCloser'
  <2>1. \A q \in Runs : Closing(q)' \subseteq Closing(q)
    BY <1>3 DEF Command
  <2> QED BY <1>3, <2>1, QuietKeeps DEF Command
<1>4. ASSUME NEW r \in Runs, TaskStepOf(r) \/ TaskDies(r) PROVE OneCloser'
  <2>1. CASE CheckPending(r)
    BY <2>1, QuietKeeps DEF CheckPending, TaskGoes
  <2>2. CASE Invoke(r)
    BY <2>2, QuietKeeps DEF Invoke, TaskGoes, Orderly
  <2>3. CASE CallEnds(r)
    BY <2>3, QuietKeeps DEF CallEnds, TaskGoes
  <2>4. CASE Refresh(r)
    <3>1. CASE run[r] = "running"
      BY <2>4, <3>1, JoiningKeeps DEF Refresh, TaskGoes
    <3>2. CASE run[r] # "running"
      BY <2>4, <3>2, QuietKeeps DEF Refresh, TaskGoes
    <3> QED BY <3>1, <3>2
  <2>5. CASE StoreOutcome(r)
    BY <2>5, ClosingKeeps DEF StoreOutcome, TaskGoes
  <2>6. CASE TaskDies(r)
    BY <2>6, QuietKeeps DEF TaskDies, TaskGoes
  <2> QED BY <1>4, <2>1, <2>2, <2>3, <2>4, <2>5, <2>6 DEF TaskStepOf
<1>5. ASSUME NEW r \in Runs, NEW x \in Agents, AgentStep(x, r) \/ AgentQuits(x, r)
      PROVE OneCloser'
  <2>1. CASE FinishRun(x, r)
    <3>1. CASE run[r] \in Terminal
      BY <2>1, <3>1, QuietKeeps DEF FinishRun, AgentGoes
    <3>2. CASE run[r] \notin Terminal
      <4>1. /\ AgentGoes(x, r, "closing")
            /\ Joined(r)
            /\ UNCHANGED <<run, task, crossed, closed>>
        BY <2>1, <3>2 DEF FinishRun
      <4>2. Closing(r)' = Closing(r) \cup {x}
        BY <4>1 DEF AgentGoes
      <4>3. \A q \in Runs \ {r} : Closing(q)' = Closing(q)
        BY <4>1 DEF AgentGoes
      <4> QED BY <3>2, <4>1, <4>2, <4>3, JoiningKeeps
    <3> QED BY <3>1, <3>2
  <2>2. CASE SaveRun(x, r)
    BY <2>2, ClosingKeeps DEF SaveRun, AgentGoes
  <2>3. CASE AgentQuits(x, r)
    BY <2>3, QuietKeeps DEF AgentQuits, AgentGoes
  <2> QED BY <1>5, <2>1, <2>2, <2>3 DEF AgentStep
<1> QED BY <1>1, <1>2, <1>3, <1>4, <1>5 DEF RunsNext

\* A run is closed a second time only after two of its closers had read it
\* unfinished, or after the task put a claimed run back to running.
THEOREM RunClosedOnce == RunsSpec => []RunIsClosedOnce
<1>1. RunsInit => ClosedInv
  BY DEF RunsInit, ClosedInv, RunsTypeOK, OneCloser, Closing, Agents, TaskStep, Terminal
<1>2. ClosedInv /\ [RunsNext]_runVars => ClosedInv'
  BY ClosedInductive
<1>3. ClosedInv => RunIsClosedOnce
  BY DEF ClosedInv, OneCloser, Orderly, RunIsClosedOnce
<1> QED BY <1>1, <1>2, <1>3, PTL DEF RunsSpec

--------------------------------------------------------------------------------
(* Uploads. *)

\* The type invariant is inductive.
LEMMA MediaTypeStep == ASSUME MediaTypeOK, [MediaNext]_mediaVars PROVE MediaTypeOK'
<1>. USE DEF MediaTypeOK, uploadVars, assetVars, sweepVars, mediaVars, AllDeleters, Deletion, NoDeletion
<1>1. CASE UNCHANGED mediaVars
  BY <1>1
<1>2. CASE PutObject \/ Expire
  BY <1>2 DEF PutObject, Expire
<1>3. ASSUME NEW f \in Finalizers, StartFinalize(f) PROVE MediaTypeOK'
  BY <1>3 DEF StartFinalize, Reasons
<1>4. ASSUME NEW f \in Finalizers, Inspect(f) PROVE MediaTypeOK'
  BY <1>4 DEF Inspect
<1>5. ASSUME NEW f \in Finalizers, Register(f) PROVE MediaTypeOK'
  <2>1. CASE \E a \in Assets : Mint(f, a)
    BY <2>1 DEF Mint, Reasons
  <2>2. CASE finalizing' = [finalizing EXCEPT ![f] = "idle"]
             /\ UNCHANGED <<uploadVars, assetVars, sweepVars, raced, slipped>>
    BY <2>2
  <2>. QED BY <1>5, <2>1, <2>2 DEF Register
<1>6. CASE Reap
  BY <1>6 DEF Reap, Choose, ClearObject, DeleteAssetRow
<1>7. CASE Scan
  BY <1>7 DEF Scan
<1>8. ASSUME NEW d \in AllDeleters, NEW a \in Assets, CheckPosts(d, a) PROVE MediaTypeOK'
  <2>1. deleting' \in [AllDeleters -> Deletion]
    BY <1>8 DEF CheckPosts, TakeUp
  <2>. QED BY <1>8, <2>1 DEF CheckPosts, TakeUp, Reasons
<1>9. ASSUME NEW d \in AllDeleters, Unlink(d) \/ DeletionDies(d) PROVE MediaTypeOK'
  <2>1. deleting[d] \in Deletion
    OBVIOUS
  <2>2. [deleting[d] EXCEPT !.step = "unlinked"] \in Deletion
    BY <2>1
  <2>3. deleting' \in [AllDeleters -> Deletion]
    BY <1>9, <2>2 DEF Unlink, DeletionDies
  <2>. QED BY <1>9, <2>3 DEF Unlink, DeletionDies
<1>10. ASSUME NEW d \in AllDeleters, DeleteAsset(d) PROVE MediaTypeOK'
  BY <1>10 DEF DeleteAsset
<1>11. ASSUME NEW a \in Assets, Attach(a) \/ SchedulePost(a) \/ ReleasePost(a) \/ Detach(a)
       PROVE  MediaTypeOK'
  BY <1>11 DEF Attach, SchedulePost, ReleasePost, Detach, Uses
<1>. QED BY <1>1, <1>2, <1>3, <1>4, <1>5, <1>6, <1>7, <1>8, <1>9, <1>10, <1>11 DEF MediaNext

LEMMA MediaTypeInit == ASSUME MediaInit PROVE MediaTypeOK
BY DEF MediaInit, MediaTypeOK, AllDeleters, Deletion, NoDeletion

\* The upload and its asset, for any number of finalize calls, deletions and
\* assets, keep their types.
THEOREM MediaTypes == MediaSpec => []MediaTypeOK
<1>1. MediaInit => MediaTypeOK
  BY MediaTypeInit
<1>2. MediaTypeOK /\ [MediaNext]_mediaVars => MediaTypeOK'
  BY MediaTypeStep
<1>. QED BY <1>1, <1>2, PTL DEF MediaSpec

-------------------------------------------------------------------------------
(* One asset, with its bytes. *)

\* While the row is there it points at the one asset, if there is one.
AssetIsTargets ==
  /\ \A a, b \in assets : a = b
  /\ upload # "deleted" => assets = target
  /\ upload = "open" => assets = {}

\* Nobody works on the bytes of an asset that was registered in time, alone:
\* the call that would, or the sweep, began before there was an asset.
BytesAreSafe ==
  raced = {} =>
    /\ assets # {} => stored
    /\ \A f, g \in Finalizers : finalizing[f] # "idle" /\ finalizing[g] # "idle" => f = g
    /\ \A f \in Finalizers : finalizing[f] # "idle" => assets = {}
    /\ \A f \in Finalizers : finalizing[f] = "valid" => stored \/ expired
    /\ \A d \in AllDeleters : deleting[d] = NoDeletion
    /\ reaping # "idle" => assets = {}

SweepIsLate == reaping # "idle" => expired

UploadInv == AssetIsTargets /\ BytesAreSafe /\ SweepIsLate

\* Every step leaves UploadInv true.
LEMMA UploadStep ==
  ASSUME MediaTypeOK, UploadInv, [MediaNext]_mediaVars PROVE UploadInv'
<1>. USE DEF MediaTypeOK, UploadInv, uploadVars, assetVars, sweepVars, mediaVars
<1>1. CASE UNCHANGED mediaVars
  BY <1>1 DEF AssetIsTargets, BytesAreSafe, SweepIsLate
<1>2. CASE PutObject \/ Expire
  BY <1>2 DEF PutObject, Expire, AssetIsTargets, BytesAreSafe, SweepIsLate
<1>3. ASSUME NEW f \in Finalizers, StartFinalize(f) PROVE UploadInv'
  <2>1. AssetIsTargets' /\ SweepIsLate'
    BY <1>3 DEF StartFinalize, AssetIsTargets, SweepIsLate
  <2>2. raced' = {} => raced = {} /\ \A g \in Finalizers : finalizing[g] = "idle"
    BY <1>3 DEF StartFinalize
  <2>3. BytesAreSafe'
    BY <1>3, <2>2 DEF StartFinalize, BytesAreSafe, AssetIsTargets
  <2>. QED BY <2>1, <2>3
<1>4. ASSUME NEW f \in Finalizers, Inspect(f) PROVE UploadInv'
  BY <1>4 DEF Inspect, AssetIsTargets, BytesAreSafe, SweepIsLate
<1>5. ASSUME NEW f \in Finalizers, Register(f) PROVE UploadInv'
  <2>1. ASSUME NEW a \in Assets, Mint(f, a), upload # "deleted", target = {},
               finalizing[f] = "valid"
        PROVE  UploadInv'
    <3>1. AssetIsTargets' /\ SweepIsLate'
      BY <2>1 DEF Mint, AssetIsTargets, SweepIsLate
    <3>2. raced' = {} => raced = {} /\ ~expired
      BY <2>1 DEF Mint
    <3>3. BytesAreSafe'
      BY <2>1, <3>2 DEF Mint, BytesAreSafe, SweepIsLate
    <3>. QED BY <3>1, <3>3
  <2>2. CASE finalizing' = [finalizing EXCEPT ![f] = "idle"]
             /\ UNCHANGED <<uploadVars, assetVars, sweepVars, raced, slipped>>
    BY <2>2 DEF AssetIsTargets, BytesAreSafe, SweepIsLate
  <2>. QED BY <1>5, <2>1, <2>2 DEF Register
<1>6. CASE Reap
  BY <1>6 DEF Reap, Choose, ClearObject, DeleteAssetRow, AssetIsTargets, BytesAreSafe, SweepIsLate
<1>7. CASE Scan
  BY <1>7 DEF Scan, AssetIsTargets, BytesAreSafe, SweepIsLate
<1>8. ASSUME NEW d \in AllDeleters, NEW a \in Assets, CheckPosts(d, a) PROVE UploadInv'
  <2>1. AssetIsTargets' /\ SweepIsLate'
    BY <1>8 DEF CheckPosts, TakeUp, AssetIsTargets, SweepIsLate
  <2>2. raced' = {} => raced = {} /\ deleting' = deleting
    BY <1>8 DEF CheckPosts, TakeUp
  <2>3. BytesAreSafe'
    BY <1>8, <2>2 DEF CheckPosts, TakeUp, BytesAreSafe
  <2>. QED BY <2>1, <2>3
<1>9. ASSUME NEW d \in AllDeleters, Unlink(d) \/ DeleteAsset(d) \/ DeletionDies(d)
      PROVE  UploadInv'
  <2>1. raced' = raced /\ raced # {}
    BY <1>9 DEF Unlink, DeleteAsset, DeletionDies, BytesAreSafe, NoDeletion
  <2>2. AssetIsTargets' /\ SweepIsLate'
    BY <1>9 DEF Unlink, DeleteAsset, DeletionDies, AssetIsTargets, SweepIsLate
  <2>. QED BY <2>1, <2>2 DEF BytesAreSafe
<1>10. ASSUME NEW a \in Assets, Attach(a) \/ SchedulePost(a) \/ ReleasePost(a) \/ Detach(a)
       PROVE  UploadInv'
  BY <1>10 DEF Attach, SchedulePost, ReleasePost, Detach, Uses, AssetIsTargets, BytesAreSafe,
               SweepIsLate
<1>. QED BY <1>1, <1>2, <1>3, <1>4, <1>5, <1>6, <1>7, <1>8, <1>9, <1>10 DEF MediaNext

\* UploadIsWhole: however many finalize calls work on one upload there is one
\* asset at its key, and its bytes are there unless a race that raced names
\* took them.
THEOREM UploadStaysWhole == MediaSpec => []UploadIsWhole
<1>1. MediaInit => UploadInv
  BY DEF MediaInit, UploadInv, AssetIsTargets, BytesAreSafe, SweepIsLate
<1>2. MediaTypeOK /\ UploadInv /\ [MediaNext]_mediaVars => UploadInv'
  BY UploadStep
<1>3. UploadInv => UploadIsWhole
  <2>1. ASSUME UploadInv PROVE OneAssetPerUpload
    <3>1. assets = {} \/ \E a : assets = {a}
      BY <2>1 DEF UploadInv, AssetIsTargets
    <3>2. Cardinality(assets) = 0 \/ Cardinality(assets) = 1
      BY <3>1, FS_EmptySet, FS_Singleton
    <3>. QED BY <3>2 DEF OneAssetPerUpload
  <2>2. UploadInv => AssetsAreBacked
    BY DEF UploadInv, BytesAreSafe, AssetsAreBacked
  <2>. QED BY <2>1, <2>2 DEF UploadIsWhole
<1>. QED BY <1>1, <1>2, <1>3, MediaTypes, PTL DEF MediaSpec

-------------------------------------------------------------------------------
(* What a post is about to publish. *)

\* A deletion that is under way has passed over scheduled assets, or their
\* posts were scheduled behind its back.
DeletionsPassedOver ==
  \A d \in AllDeleters : \A a \in deleting[d].asset : use[a] = "scheduled" => a \in slipped

\* Every step leaves DeletionsPassedOver true and scheduled media in place.
LEMMA MediaKeptStep ==
  ASSUME MediaTypeOK, DeletionsPassedOver, [MediaNext]_mediaVars
  PROVE  /\ DeletionsPassedOver'
         /\ [\A a \in assets : use[a] = "scheduled" /\ a \notin slipped => a \in assets']_mediaVars
<1>. USE DEF MediaTypeOK, uploadVars, assetVars, sweepVars, mediaVars
<1>0. SUFFICES DeletionsPassedOver'
               /\ \A a \in assets : use[a] = "scheduled" /\ a \notin slipped => a \in assets'
  OBVIOUS
<1>1. CASE UNCHANGED <<deleting, assets, use, slipped>>
  BY <1>1 DEF DeletionsPassedOver
<1>2. ASSUME NEW f \in Finalizers, NEW a \in Assets, Mint(f, a)
      PROVE  UNCHANGED <<deleting, use, slipped>> /\ assets \subseteq assets'
  BY <1>2 DEF Mint
<1>3. ASSUME NEW f \in Finalizers, StartFinalize(f) \/ Inspect(f) \/ Register(f)
      PROVE  UNCHANGED <<deleting, use, slipped>> /\ assets \subseteq assets'
  BY <1>2, <1>3 DEF StartFinalize, Inspect, Register
<1>4. CASE UNCHANGED <<deleting, use, slipped>> /\ assets \subseteq assets'
  BY <1>4 DEF DeletionsPassedOver
<1>5. CASE PutObject \/ Expire \/ Reap \/ Scan
  BY <1>1, <1>5 DEF PutObject, Expire, Reap, Choose, ClearObject, DeleteAssetRow, Scan
<1>6. ASSUME NEW d \in AllDeleters, NEW a \in Assets, CheckPosts(d, a)
      PROVE  DeletionsPassedOver' /\ UNCHANGED assets
  <2>1. /\ UNCHANGED <<assets, use, slipped>>
        /\ \/ deleting' = deleting
           \/ use[a] # "scheduled" /\ deleting' = [deleting EXCEPT ![d] = [step |-> "checked", asset |-> {a}]]
    BY <1>6 DEF CheckPosts, TakeUp
  <2>. QED BY <2>1 DEF DeletionsPassedOver
<1>7. ASSUME NEW d \in AllDeleters, Unlink(d) \/ DeletionDies(d)
      PROVE  DeletionsPassedOver' /\ UNCHANGED assets
  <2>1. /\ UNCHANGED <<assets, use, slipped>>
        /\ \A e \in AllDeleters : deleting'[e].asset \subseteq deleting[e].asset
    BY <1>7 DEF Unlink, DeletionDies, NoDeletion, Deletion
  <2>. QED BY <2>1 DEF DeletionsPassedOver
<1>8. ASSUME NEW d \in AllDeleters, DeleteAsset(d)
      PROVE  /\ DeletionsPassedOver'
             /\ \A a \in assets : use[a] = "scheduled" /\ a \notin slipped => a \in assets'
  <2>1. /\ assets' = assets \ deleting[d].asset
        /\ use' = [a \in Assets |-> IF a \in deleting[d].asset THEN "none" ELSE use[a]]
        /\ deleting' = [deleting EXCEPT ![d] = NoDeletion]
        /\ slipped' = slipped
    BY <1>8 DEF DeleteAsset
  <2>2. \A e \in AllDeleters : deleting'[e].asset \subseteq deleting[e].asset
    BY <2>1 DEF NoDeletion, Deletion
  <2>3. \A e \in AllDeleters : deleting[e].asset \subseteq Assets
    BY DEF Deletion
  <2>. QED BY <2>1, <2>2, <2>3 DEF DeletionsPassedOver
<1>9. ASSUME NEW a \in Assets, Attach(a) \/ SchedulePost(a) \/ ReleasePost(a) \/ Detach(a)
      PROVE  DeletionsPassedOver' /\ UNCHANGED assets
  <2>1. PICK u \in {"none", "attached", "scheduled"} : Uses(a, u)
    BY <1>9 DEF Attach, SchedulePost, ReleasePost, Detach
  <2>2. /\ UNCHANGED <<assets, deleting>>
        /\ use' = [use EXCEPT ![a] = u]
        /\ slipped \subseteq slipped'
        /\ u = "scheduled" /\ (\E d \in AllDeleters : a \in deleting[d].asset) => a \in slipped'
    BY <2>1 DEF Uses
  <2>3. \A d \in AllDeleters : deleting[d].asset \subseteq Assets
    BY DEF Deletion
  <2>. QED BY <2>2, <2>3 DEF DeletionsPassedOver
<1>. QED BY <1>1, <1>3, <1>4, <1>5, <1>6, <1>7, <1>8, <1>9 DEF MediaNext

\* ScheduledMediaKept: no step deletes an asset that a post is about to publish,
\* unless the post was scheduled after the deletion had looked.
THEOREM MediaIsKept == MediaSpec => ScheduledMediaKept
<1>1. MediaInit => DeletionsPassedOver
  BY DEF MediaInit, DeletionsPassedOver, NoDeletion
<1>2. MediaTypeOK /\ DeletionsPassedOver /\ [MediaNext]_mediaVars
        => /\ DeletionsPassedOver'
           /\ [\A a \in assets : use[a] = "scheduled" /\ a \notin slipped => a \in assets']_mediaVars
  BY MediaKeptStep
<1>. QED BY <1>1, <1>2, MediaTypes, PTL DEF MediaSpec, ScheduledMediaKept

-------------------------------------------------------------------------------
(* The requests together. *)

\* Each component behaves as if it were alone, whatever the others do.
LEMMA RequestsParts == Spec => ApiSpec /\ MediaSpec /\ RunsSpec
<1>1. Init => ApiInit /\ MediaInit /\ RunsInit
  BY DEF Init
<1>2. [Next]_allVars => [ApiNext]_apiVars /\ [MediaNext]_mediaVars /\ [RunsNext]_runVars
  BY DEF Next, allVars
<1> QED
  BY <1>1, <1>2, PTL DEF Spec, ApiSpec, MediaSpec, RunsSpec

\* POST /posts, uploads and runs of the agent stay in their types.
THEOREM RequestsTypes == Spec => []RequestsTypeOK
<1>1. ApiTypeOK /\ MediaTypeOK /\ RunsTypeOK => RequestsTypeOK
  BY DEF RequestsTypeOK
<1> QED
  BY <1>1, RequestsParts, ApiTypeCorrect, MediaTypes, RunsTypeCorrect, PTL
===============================================================================
