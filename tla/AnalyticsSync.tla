------------------------------- MODULE AnalyticsSync -------------------------------
(***************************************************************************)
(* The metrics of one account and one of its posts (src/apps/analytics/    *)
(* tasks.py): an hourly cron and the backfill of a connect or a reconnect, *)
(* each on the copy of the account it read when it began.                  *)
(*                                                                         *)
(* A grant is wide when its scopes reach the account's metrics.  The calls *)
(* for one account are a step, as are those for the post: what happens     *)
(* while they are under way happens before or after them.                  *)
(***************************************************************************)
EXTENDS Integers

CONSTANTS
  Platforms,      \* "dated", "totals" (lifetime totals only) and "youtube"
  LastSyncDay,    \* bound
  RecentDays,     \* _ACCOUNT_METRICS_RECENT_DAYS
  Cadence,        \* post_sync_interval, in days
  MaxReconnects   \* bound

ASSUME AnalyticsAssumption ==
  /\ Platforms \subseteq {"dated", "totals", "youtube"}
  /\ LastSyncDay \in Nat
  /\ RecentDays \in Nat \ {0}
  /\ Cadence \in Nat \ {0}
  /\ MaxReconnects \in Nat

VARIABLES
  platform,
  posted,     \* the account has a published post
  today,
  grant,      \* the tokens of the row, counted
  wide,       \* grants that reach the account's metrics
  flagged,    \* analytics_needs_reconnect
  queued,     \* backfill tasks
  sync,       \* what the cron and the backfill do, and what they have read
  rows,       \* days with AccountInsightsSnapshot rows
  totalOf,    \* by day: the day of the run that wrote its live total, or NoTotal
  counters,   \* days since the Data API wrote rows of the post
  batched,    \* days since the batched Analytics call did
  \* history
  asked,      \* days since the Data API was asked for the post
  passed,     \* the cron has gone over the post today
  heard,      \* the last grant a backfill came through with, or was denied
  misflagged  \* the flag was set on the word of another grant's copy

accountRow == <<platform, posted, grant, wide>>
metricRows == <<rows, totalOf>>
postRows == <<counters, batched, asked, passed>>
analyticsVars == <<accountRow, metricRows, postRows, today, flagged, queued, sync, heard, misflagged>>

Syncs == {"cron", "backfill"}
Grants == 1 .. MaxReconnects + 1
SyncDays == 1 - RecentDays .. LastSyncDay
NoTotal == -RecentDays
Older(n) == IF n < Cadence THEN n + 1 ELSE n

Copies == [step : {"account", "videos", "post", "counters"}, grant : Grants,
           flagged : BOOLEAN, day : 0 .. LastSyncDay, force : BOOLEAN]
Resting == [step |-> "idle"]

AnalyticsTypeOK ==
  /\ platform \in Platforms /\ posted \in BOOLEAN
  /\ today \in 0 .. LastSyncDay
  /\ grant \in Grants /\ wide \subseteq Grants
  /\ flagged \in BOOLEAN /\ passed \in BOOLEAN /\ misflagged \in BOOLEAN
  /\ queued \in 0 .. MaxReconnects + 1
  /\ \A s \in Syncs : sync[s] = Resting \/ sync[s] \in Copies
  /\ rows \subseteq SyncDays
  /\ totalOf \in [SyncDays -> {NoTotal} \cup 0 .. LastSyncDay]
  /\ {counters, batched, asked} \subseteq 0 .. Cadence
  /\ heard \in {0} \cup Grants

AnalyticsInit ==
  /\ platform \in Platforms
  /\ posted = (platform = "youtube")
  /\ today = 0
  /\ grant = 1
  /\ wide \in SUBSET {1}
  /\ flagged = FALSE
  /\ queued = 1
  /\ sync = [s \in Syncs |-> Resting]
  /\ rows = {}
  /\ totalOf = [d \in SyncDays |-> NoTotal]
  /\ counters = Cadence /\ batched = Cadence /\ asked = Cadence
  /\ passed = FALSE
  /\ heard = 0
  /\ misflagged = FALSE

At(s, step) == sync[s].step = step
Goto(s, step) == sync' = [sync EXCEPT ![s].step = step]

\* The account as it is now, and what the run is to do with it.
Copy(s, step, day, force) ==
  sync' = [sync EXCEPT ![s] =
    [step |-> step, grant |-> grant, flagged |-> flagged, day |-> day, force |-> force]]

-----------------------------------------------------------------------------------
\* sync_all_account_analytics.  A flagged account, and one that has its rows of
\* today, is passed over, unless it has no followers yet (Meta only).
CronBegins ==
  /\ sync["cron"] = Resting
  /\ \E empty \in IF platform = "dated" THEN BOOLEAN ELSE {FALSE} :
       Copy("cron", IF ~flagged /\ (today \notin rows \/ empty) THEN "account" ELSE "post",
            today, empty)
  /\ UNCHANGED <<accountRow, metricRows, postRows, today, flagged, queued, heard, misflagged>>

\* Mutant: a backfill leaves the days alone that have rows.
BackfillBeginsLazily ==
  /\ sync["backfill"] = Resting
  /\ queued > 0
  /\ queued' = queued - 1
  /\ Copy("backfill", "account", today, FALSE)
  /\ UNCHANGED <<accountRow, metricRows, postRows, today, flagged, heard, misflagged>>

\* backfill_account_analytics asks for today again: the grant may reach further.
BackfillBegins ==
  /\ sync["backfill"] = Resting
  /\ queued > 0
  /\ queued' = queued - 1
  /\ Copy("backfill", "account", today, TRUE)
  /\ UNCHANGED <<accountRow, metricRows, postRows, today, flagged, heard, misflagged>>

\* The call fails for want of a scope.  A replaced token may be denied anything.
Denied(s) == sync[s].grant \notin wide \/ sync[s].grant # grant

\* _mark_needs_reconnect, on the copy.
MarkNeedsReconnect(s) ==
  /\ flagged' = (flagged \/ ~sync[s].flagged)
  /\ misflagged' = (misflagged \/ (~sync[s].flagged /\ sync[s].grant # grant))

MaybeMark(s) ==
  \/ Denied(s) /\ MarkNeedsReconnect(s)
  \/ UNCHANGED <<flagged, misflagged>>     \* another failure

\* A platform with lifetime totals has no past to ask for.
Days(s) == IF platform = "totals" THEN {sync[s].day} ELSE sync[s].day - RecentDays + 1 .. sync[s].day

\* Days that have their rows are passed over, except the day of a forced run.
Wanted(s) == {d \in Days(s) : d \notin rows \/ (d = sync[s].day /\ sync[s].force)}

\* Lifetime totals are the rows of the day, a live total is written to the day
\* of the run: the days whose rows hold what is so now.
TotalDays(s, got, live) ==
  IF platform = "totals" THEN got ELSE IF live THEN {sync[s].day} ELSE {}

\* The backfill learns what the grant is worth.
Heard(s) == heard' = IF s = "backfill" THEN sync[s].grant ELSE heard

\* The rows of the days in got, and the total if the platform sent one.
Write(s, got, live) ==
  LET total == TotalDays(s, got, live)
  IN  /\ rows' = rows \cup got \cup total
      /\ totalOf' = [d \in SyncDays |-> IF d \in total THEN sync[s].day ELSE totalOf[d]]

\* _sync_account_metrics.  The platform may lag and send nothing for a day; the
\* first call that fails ends it, and the total is not written.
FetchAccount(s) ==
  /\ At(s, "account")
  /\ \E got \in SUBSET Wanted(s) :
       \/ /\ sync[s].grant \in wide \/ Wanted(s) = {}
          /\ \E live \in IF platform = "dated" /\ Wanted(s) # {} THEN BOOLEAN ELSE {FALSE} :
               Write(s, got, live)
          /\ Goto(s, IF platform = "youtube" THEN "videos" ELSE "post")
          /\ Heard(s)
          /\ UNCHANGED <<flagged, misflagged>>
       \/ /\ got # Wanted(s)
          /\ got = {} \/ sync[s].grant \in wide
          /\ Write(s, got, FALSE)
          /\ Goto(s, "post")
          /\ \/ Denied(s) /\ MarkNeedsReconnect(s) /\ Heard(s)
             \/ UNCHANGED <<flagged, misflagged, heard>>     \* another failure
  /\ UNCHANGED <<accountRow, postRows, today, queued>>

\* _sync_youtube_post_analytics.
FetchVideos(s) ==
  /\ At(s, "videos")
  /\ \/ MaybeMark(s) /\ UNCHANGED batched
     \/ /\ sync[s].grant \in wide
        /\ posted
        /\ batched' = 0
        /\ UNCHANGED <<flagged, misflagged>>
  /\ Goto(s, "post")
  /\ UNCHANGED <<accountRow, metricRows, counters, asked, passed, today, queued, heard>>

\* _post_cadence_due: rows of the batched call do not count.
CadenceDue == counters >= Cadence

\* The loop comes to the post, whose account is read anew.  The backfill asks
\* for every post, the cron for those that are due.
ReachPost(s) ==
  /\ At(s, "post")
  /\ IF posted /\ (s = "backfill" \/ CadenceDue)
       THEN Copy(s, "counters", sync[s].day, FALSE) /\ UNCHANGED passed
       ELSE /\ sync' = [sync EXCEPT ![s] = Resting]
            /\ passed' = (passed \/ (posted /\ s = "cron"))
  /\ UNCHANGED <<accountRow, metricRows, counters, batched, asked, today, flagged, queued,
                 heard, misflagged>>

\* _sync_post_metrics, and the end of the run.
SyncPost(s) ==
  /\ At(s, "counters")
  /\ sync' = [sync EXCEPT ![s] = Resting]
  /\ passed' = (passed \/ s = "cron")
  /\ asked' = 0
  /\ \/ counters' = 0 /\ UNCHANGED <<flagged, misflagged>>
     \/ UNCHANGED counters /\ MaybeMark(s)
  /\ UNCHANGED <<accountRow, metricRows, batched, today, queued, heard>>

\* The person connects again: the flag is cleared and a backfill queued.
Reconnect ==
  /\ grant <= MaxReconnects
  /\ grant' = grant + 1
  /\ wide' \in {wide, wide \cup {grant + 1}}
  /\ flagged' = FALSE
  /\ misflagged' = FALSE
  /\ queued' = queued + 1
  /\ UNCHANGED <<platform, posted, metricRows, postRows, today, sync, heard>>

DayPasses ==
  /\ today < LastSyncDay
  /\ today' = today + 1
  /\ counters' = Older(counters)
  /\ batched' = Older(batched)
  /\ asked' = Older(asked)
  /\ passed' = FALSE
  /\ UNCHANGED <<accountRow, metricRows, flagged, queued, sync, heard, misflagged>>

AnalyticsNext ==
  \/ CronBegins
  \/ BackfillBegins
  \/ \E s \in Syncs : FetchAccount(s) \/ FetchVideos(s) \/ ReachPost(s) \/ SyncPost(s)
  \/ Reconnect
  \/ DayPasses

AnalyticsSpec == AnalyticsInit /\ [][AnalyticsNext]_analyticsVars

-----------------------------------------------------------------------------------
(* Properties. *)

\* The flag speaks of the grant the account has: a person is not asked to renew
\* a wide grant, unless a run that held an older copy said so, and is asked to
\* renew a narrow one once its backfill is over, unless something else failed.
FlagSpeaksOfGrant ==
  /\ flagged /\ grant \in wide => misflagged
  /\ grant \notin wide /\ heard = grant => flagged

\* "Never into a backfilled past date": the total a day is shown with is what a
\* run of that day saw.
NoHistoryIsMadeUp == \A d \in SyncDays : totalOf[d] \in {NoTotal, d}

\* The batched writes do not starve the Data API: when the cron has gone over
\* the post, it was asked for within its cadence.
PostKeepsPace == passed => asked < Cadence

\* What the pages show is sound.
AnalyticsIsHonest == FlagSpeaksOfGrant /\ NoHistoryIsMadeUp /\ PostKeepsPace

===================================================================================
