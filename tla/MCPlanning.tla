------------------------------- MODULE MCPlanning -------------------------------
(***************************************************************************)
(* A post before, at and after its publication: the slots of a channel,    *)
(* the editor, the requests that put it on a platform, and its metrics,    *)
(* checked in one run.                                                     *)
(* The components share no state here, so the behaviours of each are       *)
(* explored while the others stay as they began; `focus', chosen at the    *)
(* start, says which one moves.                                            *)
(***************************************************************************)
EXTENDS SlotQueue, Editor, PlatformCalls, AnalyticsSync, TLC

VARIABLE focus

On(component) == focus = component /\ UNCHANGED focus

PlanningInit ==
  /\ focus \in {"slots", "editor", "platform", "analytics"}
  /\ Init
  /\ EditorInit
  /\ PlatformInit
  /\ AnalyticsInit
  /\ focus # "slots" => status = [p \in Posts |-> "draft"]
  /\ focus # "editor" => row = [a \in Accounts |-> "draft"]
  /\ focus # "platform" => kind = "mastodon"
  /\ focus # "analytics" => platform = "youtube" /\ wide = {}

PlanningNext ==
  \/ On("slots") /\ Next /\ UNCHANGED <<editorVars, platformVars, analyticsVars>>
  \/ On("editor") /\ EditorNext /\ UNCHANGED <<vars, platformVars, analyticsVars>>
  \/ On("platform") /\ PlatformNext /\ UNCHANGED <<vars, editorVars, analyticsVars>>
  \/ On("analytics") /\ AnalyticsNext /\ UNCHANGED <<vars, editorVars, platformVars>>

PlanningSpec ==
  PlanningInit /\ [][PlanningNext]_<<focus, vars, editorVars, platformVars, analyticsVars>>

\* Every variable of the components has the values its module declares.
PlanningTypeOK == TypeOK /\ EditorTypeOK /\ PlatformTypeOK /\ AnalyticsTypeOK

MCSymmetry ==
  Permutations(Posts) \cup Permutations(Accounts) \cup Permutations(Savers)
    \cup Permutations(Contents)
===============================================================================
