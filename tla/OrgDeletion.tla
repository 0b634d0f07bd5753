------------------------------- MODULE OrgDeletion -------------------------------
(***************************************************************************)
(* The deletion of an organisation (src/apps/organizations): owners ask    *)
(* for it, cancel it or have it at once, and a background task carries it   *)
(* out when the grace period is over.  Each handler makes two writes, the   *)
(* task reads first and deletes later, and nothing is locked.               *)
(***************************************************************************)
EXTENDS Naturals

CONSTANTS
  Owners,     \* owners' requests that may be outstanding at once
  Members,    \* the other members of the organisation
  Grace,      \* DELETION_GRACE, in days
  LastDay,    \* bound: the day on which owners make their last request
  MaxOrgDeaths   \* bound: processes that die

ASSUME OrgAssumption ==
  /\ Grace \in Nat \ {0}
  /\ LastDay \in Nat
  /\ MaxOrgDeaths \in Nat

VARIABLES
  org,      \* "there" or "gone"
  due,      \* deletion_scheduled_for; 0 when there is none
  queued,   \* the days for which execute_scheduled_org_deletion is queued
  today,
  asking,   \* what each owner's request does next
  purge,    \* what the task does next
  limbo,    \* members whose organisation is gone and who have no new one
  orgDeaths,
  \* history
  late      \* the owners changed their mind after the task had looked

orgVars == <<org, due, queued, today, asking, purge, limbo, orgDeaths, late>>

End == LastDay + Grace   \* bound: the last day

OrgTypeOK ==
  /\ org \in {"there", "gone"}
  /\ due \in 0 .. End
  /\ queued \subseteq 1 .. End
  /\ today \in 1 .. End
  /\ asking \in [Owners -> {"idle", "enqueue", "clear", "delete", "settle"}]
  /\ purge \in [step : {"idle", "delete", "settle"}, task : SUBSET (1 .. End)]
  /\ limbo \subseteq Members
  /\ orgDeaths \in 0 .. MaxOrgDeaths
  /\ late \in BOOLEAN

NoPurge == [step |-> "idle", task |-> {}]

OrgInit ==
  /\ org = "there"
  /\ due = 0
  /\ queued = {}
  /\ today = 1
  /\ asking = [o \in Owners |-> "idle"]
  /\ purge = NoPurge
  /\ limbo = {}
  /\ orgDeaths = 0
  /\ late = FALSE

\* A change of mind is late when the task has looked and not yet deleted.
Overtakes == late' = (late \/ purge.step = "delete")

\* hard_delete: whoever comes second finds no organisation and no members.
HardDelete ==
  /\ org' = "gone"
  /\ limbo' = IF org = "there" THEN Members ELSE limbo

----------------------------------------------------------------------------------
(* The owners' requests. *)

\* schedule_deletion: the dates are saved, then the task is queued.
ScheduleDeletion(o) ==
  /\ asking[o] = "idle"
  /\ org = "there"
  /\ today < LastDay
  /\ due' = today + Grace
  /\ asking' = [asking EXCEPT ![o] = "enqueue"]
  /\ Overtakes
  /\ UNCHANGED <<org, queued, today, purge, limbo, orgDeaths>>

EnqueueTask(o) ==
  /\ asking[o] = "enqueue"
  /\ queued' = queued \cup {today + Grace}
  /\ asking' = [asking EXCEPT ![o] = "idle"]
  /\ UNCHANGED <<org, due, today, purge, limbo, orgDeaths, late>>

\* cancel_deletion: the queued tasks are dropped, then the dates cleared.
CancelDeletion(o) ==
  /\ asking[o] = "idle"
  /\ org = "there"
  /\ today < LastDay
  /\ queued' = {}
  /\ asking' = [asking EXCEPT ![o] = "clear"]
  /\ UNCHANGED <<org, due, today, purge, limbo, orgDeaths, late>>

ClearDates(o) ==
  /\ asking[o] = "clear"
  /\ due' = 0
  /\ asking' = [asking EXCEPT ![o] = "idle"]
  /\ Overtakes
  /\ UNCHANGED <<org, queued, today, purge, limbo, orgDeaths>>

\* delete_now drops the tasks, deletes, and settles the members.
DeleteNow(o) ==
  /\ \/ /\ asking[o] = "idle"
        /\ org = "there"
        /\ today < LastDay
        /\ queued' = {}
        /\ asking' = [asking EXCEPT ![o] = "delete"]
        /\ UNCHANGED <<org, limbo>>
     \/ /\ asking[o] = "delete"
        /\ HardDelete
        /\ asking' = [asking EXCEPT ![o] = IF org = "there" THEN "settle" ELSE "idle"]
        /\ UNCHANGED queued
     \/ /\ asking[o] = "settle"
        /\ limbo = {}
        /\ asking' = [asking EXCEPT ![o] = "idle"]
        /\ UNCHANGED <<org, queued, limbo>>
  /\ UNCHANGED <<due, today, purge, orgDeaths, late>>

----------------------------------------------------------------------------------
(* execute_scheduled_org_deletion *)

RunWhen(standing) ==
  /\ purge = NoPurge
  /\ \E t \in queued :
       /\ t <= today
       /\ \/ /\ org = "there" /\ standing
             /\ purge' = [step |-> "delete", task |-> {t}]
             /\ UNCHANGED queued
          \/ /\ ~(org = "there" /\ standing)
             /\ queued' = queued \ {t}
             /\ UNCHANGED purge
  /\ late' = FALSE
  /\ UNCHANGED <<org, due, today, asking, limbo, orgDeaths>>

\* Mutant: the task trusts its own date.
RunAnyDate == RunWhen(due # 0)

\* It looks again: deleted or cancelled meanwhile, or postponed, and it stops.
RunTask == RunWhen(due # 0 /\ due <= today)

PurgeOrg ==
  /\ purge.step = "delete"
  /\ HardDelete
  /\ purge' = [purge EXCEPT !.step = "settle"]
  /\ UNCHANGED <<due, queued, today, asking, orgDeaths, late>>

\* A new organisation for one of the members, by the process that deleted theirs.
SettleMember ==
  /\ purge.step = "settle" \/ \E o \in Owners : asking[o] = "settle"
  /\ \E m \in limbo : limbo' = limbo \ {m}
  /\ UNCHANGED <<org, due, queued, today, asking, purge, orgDeaths, late>>

EndTask ==
  /\ purge.step = "settle"
  /\ limbo = {}
  /\ queued' = queued \ purge.task
  /\ purge' = NoPurge
  /\ UNCHANGED <<org, due, today, asking, limbo, orgDeaths, late>>

\* A request or the task dies; the queue runs the task again.
Dies ==
  /\ orgDeaths < MaxOrgDeaths
  /\ orgDeaths' = orgDeaths + 1
  /\ \/ \E o \in Owners :
          /\ asking[o] # "idle"
          /\ asking' = [asking EXCEPT ![o] = "idle"]
          /\ UNCHANGED purge
     \/ /\ purge # NoPurge
        /\ purge' = NoPurge
        /\ UNCHANGED asking
  /\ UNCHANGED <<org, due, queued, today, limbo, late>>

\* From the last day of requests on, those that are open end first.
DayPasses ==
  /\ today < End
  /\ today < LastDay \/ \A o \in Owners : asking[o] = "idle"
  /\ today' = today + 1
  /\ UNCHANGED <<org, due, queued, asking, purge, limbo, orgDeaths, late>>

----------------------------------------------------------------------------------
OwnerStep(o) ==
  \/ ScheduleDeletion(o)
  \/ EnqueueTask(o)
  \/ CancelDeletion(o)
  \/ ClearDates(o)
  \/ DeleteNow(o)

PurgeStep == RunTask \/ PurgeOrg \/ SettleMember \/ EndTask

OrgNext ==
  \/ \E o \in Owners : OwnerStep(o)
  \/ PurgeStep
  \/ Dies
  \/ DayPasses

OrgSpec == OrgInit /\ [][OrgNext]_orgVars

\* What a request has begun it ends, the task runs, and days go by; owners are
\* free not to ask.
FinishAsking(o) == asking[o] # "idle" /\ OwnerStep(o)

----------------------------------------------------------------------------------
(* Properties. *)

\* The task deletes the organisation with a request that has stood for the whole
\* grace period, unless the owners changed their mind after it had looked.
DeletesWhatStands ==
  [][purge.step = "delete" /\ org = "there" /\ purge'.step = "settle"
       => late \/ (due # 0 /\ due <= today)]_orgVars

\* An organisation is deleted when it was asked for and only then: the task
\* deletes what stands, and a request that nobody cancels ends with the
\* organisation gone and every other member settled, unless a process died.
DeletedAsAsked ==
  /\ DeletesWhatStands
  /\ due # 0 ~> due = 0 \/ (org = "gone" /\ limbo = {}) \/ orgDeaths > 0

==================================================================================
