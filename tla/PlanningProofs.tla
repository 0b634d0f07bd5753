----------------------------- MODULE PlanningProofs -----------------------------
(***************************************************************************)
(* Proofs about a post before and after its publication.  AnalyticsSync,   *)
(* for any reconnections, days and cadence: the flag, the totals and the   *)
(* pace.  Editor, for any accounts, contents and number of savers: what is *)
(* approved is what was reviewed.  SlotQueue, for any rows, queues and     *)
(* posting slots: the search, the ladder and what they do to other rows.   *)
(* PlatformCalls, for any media, retries and polls: what an attempt leaves.*)
(***************************************************************************)
EXTENDS MCPlanning, SequenceTheorems, FiniteSetTheorems, WellFoundedInduction, TLAPS

---------------------------------------------------------------------------------
(* AnalyticsSync. *)

AnalyticsShape ==
  /\ platform \in Platforms /\ posted \in BOOLEAN
  /\ today \in 0 .. LastSyncDay
  /\ grant \in Grants /\ wide \subseteq 1 .. grant
  /\ flagged \in BOOLEAN /\ passed \in BOOLEAN /\ misflagged \in BOOLEAN
  /\ queued \in 0 .. grant
  /\ sync \in [Syncs -> Copies \cup {Resting}]
  /\ rows \subseteq SyncDays
  /\ totalOf \in [SyncDays -> {NoTotal} \cup 0 .. LastSyncDay]
  /\ counters \in 0 .. Cadence /\ batched \in 0 .. Cadence /\ asked \in 0 .. Cadence
  /\ heard \in 0 .. grant

\* A copy is of the present grant or of an earlier one; the flag it saw is still
\* there while the grant is the same; the backfill asks for its own day.
CopiesAreOfGrants ==
  \A s \in Syncs : sync[s] # Resting =>
    /\ sync[s].grant \in 1 .. grant
    /\ sync[s].flagged /\ sync[s].grant = grant => flagged
    /\ s = "backfill" /\ sync[s].step = "account" => sync[s].force

\* The Data API was asked no earlier than it last answered.
AskedAsWritten == asked <= counters

AnalyticsInv == AnalyticsShape /\ CopiesAreOfGrants /\ AskedAsWritten /\ AnalyticsIsHonest

LEMMA AnalyticsFacts ==
  /\ LastSyncDay \in Nat /\ RecentDays \in Nat \ {0} /\ Cadence \in Nat \ {0} /\ MaxReconnects \in Nat
  /\ Syncs = {"cron", "backfill"}
  /\ Resting \notin Copies /\ Resting.step = "idle"
  /\ \A x \in Copies :
       /\ x.step \in {"account", "videos", "post", "counters"} /\ x.grant \in Grants
       /\ x.flagged \in BOOLEAN /\ x.day \in 0 .. LastSyncDay /\ x.force \in BOOLEAN
<1>1. Resting.step = "idle"
  BY DEF Resting
<1>2. \A x \in Copies :
       /\ x.step \in {"account", "videos", "post", "counters"} /\ x.grant \in Grants
       /\ x.flagged \in BOOLEAN /\ x.day \in 0 .. LastSyncDay /\ x.force \in BOOLEAN
  BY DEF Copies
<1> QED  BY <1>1, <1>2, AnalyticsAssumption DEF Syncs

\* A run that is at a step has a copy.
LEMMA AtHasCopy ==
  ASSUME AnalyticsShape, NEW s \in Syncs, sync[s].step # "idle"
  PROVE  sync[s] \in Copies /\ sync[s] # Resting
BY AnalyticsFacts DEF AnalyticsShape

\* A run that begins, or comes to a post, reads the row.
LEMMA CopyReads ==
  ASSUME AnalyticsShape, CopiesAreOfGrants, NEW s \in Syncs,
         NEW step \in {"account", "videos", "post", "counters"},
         NEW day \in 0 .. LastSyncDay, NEW force \in BOOLEAN,
         s = "backfill" /\ step = "account" => force,
         Copy(s, step, day, force), UNCHANGED <<grant, flagged>>
  PROVE  sync' \in [Syncs -> Copies \cup {Resting}] /\ CopiesAreOfGrants'
<1> DEFINE x == [step |-> step, grant |-> grant, flagged |-> flagged, day |-> day, force |-> force]
<1>1. x \in Copies /\ x.grant = grant /\ x.flagged = flagged /\ x.step = step /\ x.force = force
  BY DEF Copies, AnalyticsShape
<1>2. sync' = [sync EXCEPT ![s] = x]
  BY DEF Copy
<1> HIDE DEF x
<1>3. sync' \in [Syncs -> Copies \cup {Resting}]
  BY <1>1, <1>2 DEF AnalyticsShape
<1>4. sync'[s] = x /\ \A r \in Syncs : r # s => sync'[r] = sync[r]
  BY <1>2 DEF AnalyticsShape
<1>5. grant \in 1 .. grant
  BY AnalyticsFacts DEF AnalyticsShape, Grants
<1> QED  BY <1>1, <1>3, <1>4, <1>5 DEF CopiesAreOfGrants

\* A run that goes on, or ends, keeps what it has read.
LEMMA GotoKeeps ==
  ASSUME AnalyticsShape, CopiesAreOfGrants, NEW s \in Syncs, sync[s].step # "idle",
         \/ \E step \in {"videos", "post", "counters"} : Goto(s, step)
         \/ sync' = [sync EXCEPT ![s] = Resting],
         UNCHANGED grant, flagged => flagged'
  PROVE  sync' \in [Syncs -> Copies \cup {Resting}] /\ CopiesAreOfGrants'
<1>1. sync[s] \in Copies /\ sync[s] # Resting
  BY AtHasCopy
<1>2. CASE sync' = [sync EXCEPT ![s] = Resting]
  BY <1>2 DEF AnalyticsShape, CopiesAreOfGrants
<1>3. ASSUME NEW step \in {"videos", "post", "counters"}, Goto(s, step)
      PROVE  sync' \in [Syncs -> Copies \cup {Resting}] /\ CopiesAreOfGrants'
  <2> DEFINE x == [sync[s] EXCEPT !.step = step]
  <2>1. x \in Copies /\ x.grant = sync[s].grant /\ x.flagged = sync[s].flagged /\ x.step = step
    BY <1>1 DEF Copies
  <2>2. sync' = [sync EXCEPT ![s] = x]
    BY <1>3 DEF Goto
  <2> HIDE DEF x
  <2>3. sync' \in [Syncs -> Copies \cup {Resting}]
    BY <2>1, <2>2 DEF AnalyticsShape
  <2>4. sync'[s] = x /\ \A r \in Syncs : r # s => sync'[r] = sync[r]
    BY <2>2 DEF AnalyticsShape
  <2> QED  BY <1>1, <1>3, <2>1, <2>3, <2>4 DEF CopiesAreOfGrants
<1> QED  BY <1>2, <1>3

\* The flag is raised on the word of the copy's grant, or as a mistake.
LEMMA MarkSpeaks ==
  ASSUME AnalyticsShape, CopiesAreOfGrants, FlagSpeaksOfGrant, NEW s \in Syncs, sync[s].step # "idle",
         \/ Denied(s) /\ MarkNeedsReconnect(s)
         \/ UNCHANGED <<flagged, misflagged>>,
         UNCHANGED <<grant, wide>>
  PROVE  /\ flagged' \in BOOLEAN /\ misflagged' \in BOOLEAN
         /\ flagged => flagged'
         /\ flagged' /\ grant \in wide => misflagged'
         /\ Denied(s) /\ MarkNeedsReconnect(s) /\ grant \notin wide /\ sync[s].grant = grant => flagged'
<1>1. sync[s] # Resting /\ sync[s].flagged \in BOOLEAN
  BY AtHasCopy, AnalyticsFacts
<1>2. CASE UNCHANGED <<flagged, misflagged>> /\ ~(Denied(s) /\ MarkNeedsReconnect(s))
  BY <1>2 DEF FlagSpeaksOfGrant, AnalyticsShape
<1>3. CASE Denied(s) /\ MarkNeedsReconnect(s)
  BY <1>1, <1>3 DEF FlagSpeaksOfGrant, AnalyticsShape, CopiesAreOfGrants, Denied, MarkNeedsReconnect
<1> QED  BY <1>2, <1>3

LEMMA WriteKeeps ==
  ASSUME AnalyticsShape, NoHistoryIsMadeUp, NEW s \in Syncs, sync[s].step # "idle",
         NEW got \in SUBSET Wanted(s), NEW live \in BOOLEAN, Write(s, got, live)
  PROVE  /\ rows' \subseteq SyncDays
         /\ totalOf' \in [SyncDays -> {NoTotal} \cup 0 .. LastSyncDay]
         /\ NoHistoryIsMadeUp'
<1> DEFINE total == TotalDays(s, got, live)
<1>1. sync[s].day \in 0 .. LastSyncDay
  BY AtHasCopy, AnalyticsFacts
<1>2. sync[s].day \in SyncDays
  BY <1>1, AnalyticsFacts DEF SyncDays
<1>3. got \subseteq SyncDays /\ (platform = "totals" => got \subseteq {sync[s].day})
  BY <1>1, <1>2, AnalyticsFacts DEF Wanted, Days, SyncDays
<1>4. total \subseteq {sync[s].day} /\ total \subseteq SyncDays
  BY <1>2, <1>3 DEF TotalDays
<1>5. /\ rows' = rows \cup got \cup total
      /\ totalOf' = [d \in SyncDays |-> IF d \in total THEN sync[s].day ELSE totalOf[d]]
  BY DEF Write
<1> HIDE DEF total
<1>6. rows' \subseteq SyncDays
  BY <1>3, <1>4, <1>5 DEF AnalyticsShape
<1>7. totalOf' \in [SyncDays -> {NoTotal} \cup 0 .. LastSyncDay]
  BY <1>1, <1>5 DEF AnalyticsShape
<1>8. NoHistoryIsMadeUp'
  BY <1>4, <1>5 DEF NoHistoryIsMadeUp
<1> QED  BY <1>6, <1>7, <1>8

LEMMA AnalyticsStarts == AnalyticsInit => AnalyticsInv
<1> SUFFICES ASSUME AnalyticsInit PROVE AnalyticsInv
  OBVIOUS
<1> USE AnalyticsFacts DEF AnalyticsInit
<1>1. AnalyticsShape
  <2>1. sync \in [Syncs -> Copies \cup {Resting}] /\ totalOf \in [SyncDays -> {NoTotal} \cup 0 .. LastSyncDay]
    OBVIOUS
  <2>2. grant \in Grants /\ wide \subseteq 1 .. grant /\ queued \in 0 .. grant /\ heard \in 0 .. grant
    BY DEF Grants
  <2>3. counters \in 0 .. Cadence /\ batched \in 0 .. Cadence /\ asked \in 0 .. Cadence /\ today \in 0 .. LastSyncDay
    OBVIOUS
  <2>4. posted \in BOOLEAN
    <3>1. CASE platform = "youtube"
      BY <3>1
    <3>2. CASE platform # "youtube"
      BY <3>2
    <3> QED  BY <3>1, <3>2
  <2>5. flagged \in BOOLEAN /\ passed \in BOOLEAN /\ misflagged \in BOOLEAN /\ rows \subseteq SyncDays
    OBVIOUS
  <2> QED  BY <2>1, <2>2, <2>3, <2>4, <2>5 DEF AnalyticsShape
<1>2. CopiesAreOfGrants /\ AskedAsWritten
  BY DEF CopiesAreOfGrants, AskedAsWritten
<1>3. AnalyticsIsHonest
  BY DEF AnalyticsIsHonest, FlagSpeaksOfGrant, NoHistoryIsMadeUp, PostKeepsPace
<1> QED  BY <1>1, <1>2, <1>3 DEF AnalyticsInv

LEMMA AnalyticsStep == AnalyticsInv /\ [AnalyticsNext]_analyticsVars => AnalyticsInv'
<1> SUFFICES ASSUME AnalyticsInv, [AnalyticsNext]_analyticsVars PROVE AnalyticsInv'
  OBVIOUS
<1> USE DEF AnalyticsInv, AnalyticsIsHonest
<1>0. /\ \A d \in 0 .. LastSyncDay : d \in 0 .. LastSyncDay
      /\ today \in 0 .. LastSyncDay
  BY DEF AnalyticsShape
<1>1. CASE UNCHANGED analyticsVars
  BY <1>1 DEF analyticsVars, accountRow, metricRows, postRows, AnalyticsShape, CopiesAreOfGrants,
              AskedAsWritten, FlagSpeaksOfGrant, NoHistoryIsMadeUp, PostKeepsPace
<1>2. CASE CronBegins
  <2>1. /\ "cron" \in Syncs
        /\ UNCHANGED <<accountRow, metricRows, postRows, today, flagged, queued, heard, misflagged>>
        /\ \E empty \in BOOLEAN :
             Copy("cron", IF ~flagged /\ (today \notin rows \/ empty) THEN "account" ELSE "post",
                  today, empty)
    BY <1>2, AnalyticsFacts DEF CronBegins
  <2>2. sync' \in [Syncs -> Copies \cup {Resting}] /\ CopiesAreOfGrants'
    BY <1>0, <2>1, CopyReads DEF accountRow
  <2> QED  BY <2>1, <2>2 DEF accountRow, metricRows, postRows, AnalyticsShape, AskedAsWritten,
                             FlagSpeaksOfGrant, NoHistoryIsMadeUp, PostKeepsPace
<1>3. CASE BackfillBegins
  <2>1. /\ "backfill" \in Syncs /\ queued > 0 /\ queued' = queued - 1
        /\ UNCHANGED <<accountRow, metricRows, postRows, today, flagged, heard, misflagged>>
        /\ Copy("backfill", "account", today, TRUE)
    BY <1>3, AnalyticsFacts DEF BackfillBegins
  <2>2. sync' \in [Syncs -> Copies \cup {Resting}] /\ CopiesAreOfGrants'
    BY <1>0, <2>1, CopyReads DEF accountRow
  <2>3. queued' \in 0 .. grant
    BY <2>1, AnalyticsFacts DEF AnalyticsShape, Grants
  <2> QED  BY <2>1, <2>2, <2>3 DEF accountRow, metricRows, postRows, AnalyticsShape, AskedAsWritten,
                             FlagSpeaksOfGrant, NoHistoryIsMadeUp, PostKeepsPace
<1>4. ASSUME NEW s \in Syncs, FetchAccount(s) PROVE AnalyticsInv'
  <2>1. sync[s].step = "account" /\ UNCHANGED <<accountRow, postRows, today, queued>>
    BY <1>4 DEF FetchAccount, At
  <2>2. sync[s] \in Copies /\ sync[s] # Resting
    BY <2>1, AtHasCopy
  <2>3. PICK got \in SUBSET Wanted(s) :
          \/ /\ sync[s].grant \in wide \/ Wanted(s) = {}
             /\ \E live \in BOOLEAN : Write(s, got, live)
             /\ \E step \in {"videos", "post", "counters"} : Goto(s, step)
             /\ Heard(s)
             /\ UNCHANGED <<flagged, misflagged>>
          \/ /\ Write(s, got, FALSE)
             /\ \E step \in {"videos", "post", "counters"} : Goto(s, step)
             /\ \/ Denied(s) /\ MarkNeedsReconnect(s) /\ Heard(s)
                \/ UNCHANGED <<flagged, misflagged, heard>>
    BY <1>4 DEF FetchAccount
  <2>4. /\ rows' \subseteq SyncDays
        /\ totalOf' \in [SyncDays -> {NoTotal} \cup 0 .. LastSyncDay]
        /\ NoHistoryIsMadeUp'
    BY <2>1, <2>3, WriteKeeps
  <2>5. /\ flagged' \in BOOLEAN /\ misflagged' \in BOOLEAN
        /\ flagged => flagged'
        /\ flagged' /\ grant \in wide => misflagged'
        /\ Denied(s) /\ MarkNeedsReconnect(s) /\ grant \notin wide /\ sync[s].grant = grant => flagged'
    BY <2>1, <2>3, MarkSpeaks DEF accountRow
  <2>6. sync' \in [Syncs -> Copies \cup {Resting}] /\ CopiesAreOfGrants'
    BY <2>1, <2>3, <2>5, GotoKeeps DEF accountRow
  <2>7. s = "backfill" => Wanted(s) # {}
    <3>1. s = "backfill" => sync[s].force /\ sync[s].day \in 0 .. LastSyncDay
      BY <2>1, <2>2, AnalyticsFacts DEF CopiesAreOfGrants
    <3>2. s = "backfill" => sync[s].day \in Days(s)
      BY <3>1, AnalyticsFacts DEF Days
    <3> QED  BY <3>1, <3>2 DEF Wanted
  <2>8. heard' \in 0 .. grant
    <3>1. sync[s].grant \in 1 .. grant
      BY <2>2 DEF CopiesAreOfGrants
    <3>2. grant \in Nat /\ heard \in 0 .. grant
      BY AnalyticsFacts DEF AnalyticsShape, Grants
    <3>3. heard' = heard \/ heard' = sync[s].grant
      BY <2>3 DEF Heard
    <3>4. sync[s].grant \in 0 .. grant
      BY <3>1, <3>2
    <3> QED  BY <3>2, <3>3, <3>4
  <2>9. grant \notin wide /\ heard' = grant => flagged'
    <3>1. CASE heard' = heard
      BY <2>5, <3>1 DEF FlagSpeaksOfGrant
    <3>2. CASE heard' # heard
      BY <2>3, <2>5, <2>7, <3>2 DEF Heard
    <3> QED  BY <3>1, <3>2
  <2>10. FlagSpeaksOfGrant'
    BY <2>1, <2>5, <2>9 DEF FlagSpeaksOfGrant, accountRow
  <2> QED  BY <2>1, <2>4, <2>5, <2>6, <2>8, <2>10
           DEF accountRow, postRows, AnalyticsShape, AskedAsWritten, PostKeepsPace
<1>5. ASSUME NEW s \in Syncs, FetchVideos(s) PROVE AnalyticsInv'
  <2>1. /\ sync[s].step = "videos" /\ Goto(s, "post")
        /\ UNCHANGED <<accountRow, metricRows, counters, asked, passed, today, queued, heard>>
        /\ \/ Denied(s) /\ MarkNeedsReconnect(s)
           \/ UNCHANGED <<flagged, misflagged>>
        /\ batched' \in {0, batched}
    BY <1>5 DEF FetchVideos, At, MaybeMark
  <2>2. /\ flagged' \in BOOLEAN /\ misflagged' \in BOOLEAN
        /\ flagged => flagged'
        /\ flagged' /\ grant \in wide => misflagged'
    BY <2>1, MarkSpeaks DEF accountRow
  <2>3. sync' \in [Syncs -> Copies \cup {Resting}] /\ CopiesAreOfGrants'
    BY <2>1, <2>2, GotoKeeps DEF accountRow
  <2>4. batched' \in 0 .. Cadence
    BY <2>1, AnalyticsFacts DEF AnalyticsShape
  <2>5. FlagSpeaksOfGrant'
    BY <2>1, <2>2 DEF FlagSpeaksOfGrant, accountRow
  <2> QED  BY <2>1, <2>2, <2>3, <2>4, <2>5
           DEF accountRow, metricRows, AnalyticsShape, AskedAsWritten, NoHistoryIsMadeUp, PostKeepsPace
<1>6. ASSUME NEW s \in Syncs, ReachPost(s) PROVE AnalyticsInv'
  <2>1. /\ sync[s].step = "post"
        /\ UNCHANGED <<accountRow, metricRows, counters, batched, asked, today, flagged, queued,
                       heard, misflagged>>
        /\ \/ Copy(s, "counters", sync[s].day, FALSE) /\ UNCHANGED passed
           \/ /\ sync' = [sync EXCEPT ![s] = Resting]
              /\ passed' = (passed \/ (posted /\ s = "cron"))
              /\ ~(posted /\ (s = "backfill" \/ CadenceDue))
    BY <1>6 DEF ReachPost, At
  <2>2. sync[s] \in Copies /\ sync[s].day \in 0 .. LastSyncDay
    BY <2>1, AtHasCopy, AnalyticsFacts
  <2>3. sync' \in [Syncs -> Copies \cup {Resting}] /\ CopiesAreOfGrants'
    <3>1. CASE Copy(s, "counters", sync[s].day, FALSE)
      BY <2>1, <2>2, <3>1, CopyReads DEF accountRow
    <3>2. CASE sync' = [sync EXCEPT ![s] = Resting]
      BY <2>1, <3>2, GotoKeeps DEF accountRow
    <3> QED  BY <2>1, <3>1, <3>2
  <2>4. passed' \in BOOLEAN
    <3>1. CASE passed' = passed
      BY <3>1 DEF AnalyticsShape
    <3>2. CASE passed' = (passed \/ (posted /\ s = "cron"))
      BY <3>2 DEF AnalyticsShape
    <3> QED  BY <2>1, <3>1, <3>2
  <2>5. passed' => passed \/ (posted /\ s = "cron" /\ ~CadenceDue)
    BY <2>1, AnalyticsFacts
  <2>6. ~CadenceDue => asked < Cadence
    BY AnalyticsFacts DEF CadenceDue, AskedAsWritten, AnalyticsShape
  <2>7. PostKeepsPace'
    BY <2>1, <2>5, <2>6 DEF PostKeepsPace
  <2> QED  BY <2>1, <2>3, <2>4, <2>7
           DEF accountRow, metricRows, AnalyticsShape, AskedAsWritten, NoHistoryIsMadeUp, FlagSpeaksOfGrant
<1>7. ASSUME NEW s \in Syncs, SyncPost(s) PROVE AnalyticsInv'
  <2>1. /\ sync[s].step = "counters" /\ sync' = [sync EXCEPT ![s] = Resting]
        /\ passed' = (passed \/ s = "cron") /\ asked' = 0 /\ counters' \in {0, counters}
        /\ UNCHANGED <<accountRow, metricRows, batched, today, queued, heard>>
        /\ \/ Denied(s) /\ MarkNeedsReconnect(s)
           \/ UNCHANGED <<flagged, misflagged>>
    BY <1>7 DEF SyncPost, At, MaybeMark
  <2>2. /\ flagged' \in BOOLEAN /\ misflagged' \in BOOLEAN
        /\ flagged => flagged'
        /\ flagged' /\ grant \in wide => misflagged'
    BY <2>1, MarkSpeaks DEF accountRow
  <2>3. sync' \in [Syncs -> Copies \cup {Resting}] /\ CopiesAreOfGrants'
    BY <2>1, <2>2, GotoKeeps DEF accountRow
  <2>4. counters' \in 0 .. Cadence /\ asked' \in 0 .. Cadence /\ AskedAsWritten' /\ PostKeepsPace'
    BY <2>1, AnalyticsFacts DEF AnalyticsShape, AskedAsWritten, PostKeepsPace
  <2>5. FlagSpeaksOfGrant'
    BY <2>1, <2>2 DEF FlagSpeaksOfGrant, accountRow
  <2>6. passed' \in BOOLEAN
    BY <2>1 DEF AnalyticsShape
  <2> QED  BY <2>1, <2>2, <2>3, <2>4, <2>5, <2>6
           DEF accountRow, metricRows, AnalyticsShape, NoHistoryIsMadeUp
<1>8. CASE Reconnect
  <2>1. /\ grant <= MaxReconnects /\ grant' = grant + 1 /\ grant \in Nat
        /\ wide' \in {wide, wide \cup {grant + 1}}
        /\ flagged' = FALSE /\ misflagged' = FALSE /\ queued' = queued + 1
        /\ UNCHANGED <<platform, posted, metricRows, postRows, today, sync, heard>>
    BY <1>8, AnalyticsFacts DEF Reconnect, AnalyticsShape, Grants
  <2>2. grant' \in Grants /\ wide' \subseteq 1 .. grant' /\ queued' \in 0 .. grant' /\ heard' \in 0 .. grant'
    BY <2>1, AnalyticsFacts DEF AnalyticsShape, Grants
  <2>3. heard' # grant'
    BY <2>1 DEF AnalyticsShape
  <2>4. CopiesAreOfGrants'
    BY <2>1 DEF CopiesAreOfGrants
  <2> QED  BY <2>1, <2>2, <2>3, <2>4
           DEF metricRows, postRows, AnalyticsShape, AskedAsWritten, FlagSpeaksOfGrant, NoHistoryIsMadeUp, PostKeepsPace
<1>9. CASE DayPasses
  <2>1. /\ today < LastSyncDay /\ today' = today + 1
        /\ counters' = Older(counters) /\ batched' = Older(batched) /\ asked' = Older(asked)
        /\ passed' = FALSE
        /\ UNCHANGED <<accountRow, metricRows, flagged, queued, sync, heard, misflagged>>
    BY <1>9 DEF DayPasses
  <2>2. /\ today' \in 0 .. LastSyncDay
        /\ counters' \in 0 .. Cadence /\ batched' \in 0 .. Cadence /\ asked' \in 0 .. Cadence
        /\ asked' <= counters'
    BY <2>1, AnalyticsFacts DEF AnalyticsShape, Older, AskedAsWritten
  <2> QED  BY <2>1, <2>2
           DEF accountRow, metricRows, AnalyticsShape, AskedAsWritten, CopiesAreOfGrants,
               FlagSpeaksOfGrant, NoHistoryIsMadeUp, PostKeepsPace
<1> QED  BY <1>1, <1>2, <1>3, <1>4, <1>5, <1>6, <1>7, <1>8, <1>9 DEF AnalyticsNext

\* The flag speaks of the grant the account has, a day's total is what a run of
\* that day saw, and the post is asked for within its cadence, whichever runs
\* overlap a reconnection.
THEOREM AnalyticsStaysHonest == AnalyticsSpec => []AnalyticsIsHonest
<1>1. AnalyticsSpec => []AnalyticsInv
  BY AnalyticsStarts, AnalyticsStep, PTL DEF AnalyticsSpec
<1>2. AnalyticsInv => AnalyticsIsHonest
  BY DEF AnalyticsInv
<1> QED  BY <1>1, <1>2, PTL

\* The rows and copies of a sync are what the module says.
THEOREM AnalyticsTypes == AnalyticsSpec => []AnalyticsTypeOK
<1>1. AnalyticsSpec => []AnalyticsInv
  BY AnalyticsStarts, AnalyticsStep, PTL DEF AnalyticsSpec
<1>2. AnalyticsInv => AnalyticsTypeOK
  BY AnalyticsFacts DEF AnalyticsInv, AnalyticsShape, AnalyticsTypeOK, Grants
<1> QED  BY <1>1, <1>2, PTL

---------------------------------------------------------------------------------
(* Editor. *)

\* A save whose change of the content nothing has answered yet: it comes to its
\* revert, or to the end that names the approved rows.  A save that schedules
\* has reverted when it moves its rows.
Unreverted(e) ==
  /\ save[e].changed
  /\ \/ save[e].step \in {"sync", "revert"}
     \/ save[e].step = "move" /\ save[e].action # "schedule"

Stands(a) == reviewed[a] = content \/ a \in doubtful

\* A save that has not written yet remembers one content.
SavesRemember == \A e \in Savers : save[e].step = "write" => \E c \in Contents : save[e].orig = {c}

\* An approved row stands as reviewed or a save is going to answer for it; a
\* held row, which no save sends back, stands.
ApprovalsStand ==
  \A a \in Accounts :
    /\ row[a] = "approved" => Stands(a) \/ \E e \in Savers : Unreverted(e)
    /\ row[a] = "on_hold" => Stands(a)

EditorInv == EditorTypeOK /\ SavesRemember /\ ApprovalsStand

SaveRecords == [step : SaveSteps, action : SaveActions, orig : SUBSET Contents,
                changed : BOOLEAN, scope : SUBSET Accounts, sent : SUBSET Accounts]

\* What a step does to the request that takes it.
LEMMA SaveSets ==
  ASSUME EditorTypeOK, SavesRemember, NEW e \in Savers, NEW x \in SaveRecords,
         save' = [save EXCEPT ![e] = x],
         x.step = "write" => \E c \in Contents : x.orig = {c}
  PROVE  /\ save' \in [Savers -> SaveRecords] /\ SavesRemember'
         /\ save'[e] = x /\ \A d \in Savers \ {e} : save'[d] = save[d]
<1>1. save' \in [Savers -> SaveRecords]
  BY DEF EditorTypeOK, SaveRecords
<1>2. save'[e] = x /\ \A d \in Savers \ {e} : save'[d] = save[d]
  BY DEF EditorTypeOK, SaveRecords
<1> QED  BY <1>1, <1>2 DEF SavesRemember

LEMMA NotSavingIsOne ==
  /\ NotSaving \in SaveRecords /\ NotSaving.step = "idle" /\ NotSaving.changed = FALSE
BY DEF NotSaving, SaveRecords, SaveSteps, SaveActions

\* A request that settles.
LEMMA SettledSets ==
  ASSUME EditorTypeOK, SavesRemember, NEW e \in Savers, Settled(e)
  PROVE  /\ save' \in [Savers -> SaveRecords] /\ SavesRemember'
         /\ \A d \in Savers \ {e} : save'[d] = save[d]
<1>1. NotSaving.step # "write"
  BY NotSavingIsOne
<1> HIDE DEF NotSaving
<1> QED  BY <1>1, SaveSets, NotSavingIsOne DEF Settled

LEMMA EditorStarts == EditorInit => EditorInv
<1> SUFFICES ASSUME EditorInit PROVE EditorInv
  OBVIOUS
<1>1. save \in [Savers -> SaveRecords] /\ \A e \in Savers : save[e] = NotSaving
  BY NotSavingIsOne DEF EditorInit
<1>2. EditorTypeOK
  BY <1>1, EditorAssumption DEF EditorInit, EditorTypeOK, SaveRecords, Status
<1>3. SavesRemember
  BY <1>1, NotSavingIsOne DEF SavesRemember
<1>4. ApprovalsStand
  BY DEF EditorInit, ApprovalsStand
<1> QED  BY <1>2, <1>3, <1>4 DEF EditorInv

LEMMA LoadPostKeeps ==
  ASSUME EditorInv, NEW e \in Savers, NEW action \in SaveActions, LoadPost(e, action)
  PROVE  EditorInv'
<1> DEFINE x == [NotSaving EXCEPT !.step = "write", !.action = action, !.orig = {content}]
<1>0. content \in Contents /\ EditorTypeOK /\ SavesRemember
  BY DEF EditorInv, EditorTypeOK
<1>1. x \in SaveRecords /\ x.step = "write" /\ x.orig = {content}
  BY <1>0 DEF NotSaving, SaveRecords, SaveSteps, SaveActions
<1>2. /\ save[e].step = "idle" /\ saves < MaxSaves /\ saves' = saves + 1 /\ save' = [save EXCEPT ![e] = x]
      /\ UNCHANGED <<content, row, broken, reviewed, doubtful>>
  BY DEF LoadPost
<1> HIDE DEF x
<1>3. /\ save' \in [Savers -> SaveRecords] /\ SavesRemember'
      /\ \A d \in Savers \ {e} : save'[d] = save[d]
  BY <1>0, <1>1, <1>2, SaveSets
<1>4. saves' \in 0 .. MaxSaves
  BY <1>0, <1>2, EditorAssumption DEF EditorTypeOK
<1>5. EditorTypeOK'
  BY <1>0, <1>2, <1>3, <1>4 DEF EditorTypeOK, SaveRecords
<1>6. \A d \in Savers : Unreverted(d) => Unreverted(d)'
  BY <1>2, <1>3 DEF Unreverted
<1>7. ApprovalsStand'
  BY <1>2, <1>6 DEF EditorInv, ApprovalsStand, Stands
<1> QED  BY <1>3, <1>5, <1>7 DEF EditorInv

LEMMA WriteContentKeeps ==
  ASSUME EditorInv, NEW e \in Savers, NEW new \in Contents, WriteContent(e, new)
  PROVE  EditorInv'
<1> DEFINE changed == new \notin save[e].orig
           x == [save[e] EXCEPT !.step = "sync", !.orig = {}, !.changed = changed]
<1>0. EditorTypeOK /\ SavesRemember /\ ApprovalsStand /\ save[e] \in SaveRecords
  BY DEF EditorInv, EditorTypeOK, SaveRecords
<1>1. x \in SaveRecords /\ x.step = "sync" /\ x.changed = changed
  BY <1>0 DEF SaveRecords, SaveSteps
<1>2. /\ save[e].step = "write" /\ content' = new
      /\ save' = [save EXCEPT ![e] = x]
      /\ doubtful' = IF content \notin save[e].orig THEN Accounts
                     ELSE IF new # content THEN doubtful \cup RowsIn({"on_hold"}) ELSE doubtful
      /\ UNCHANGED <<row, saves, broken, reviewed>>
  BY DEF WriteContent
<1>3. changed \in BOOLEAN
  OBVIOUS
<1> HIDE DEF x
<1>4. /\ save' \in [Savers -> SaveRecords] /\ SavesRemember'
      /\ save'[e] = x /\ \A d \in Savers \ {e} : save'[d] = save[d]
  BY <1>0, <1>1, <1>2, SaveSets
<1>5. doubtful' \subseteq Accounts
  BY <1>0, <1>2 DEF EditorTypeOK, RowsIn
<1>6. EditorTypeOK'
  BY <1>0, <1>2, <1>4, <1>5 DEF EditorTypeOK, SaveRecords
<1>7. \A d \in Savers : Unreverted(d) => Unreverted(d)'
  BY <1>2, <1>4 DEF Unreverted
<1>8. ApprovalsStand'
  <2>1. CASE content \notin save[e].orig
    BY <1>2, <2>1 DEF ApprovalsStand, Stands
  <2>2. CASE content \in save[e].orig /\ new = content
    BY <1>0, <1>2, <1>7, <2>2 DEF ApprovalsStand, Stands
  <2>3. CASE content \in save[e].orig /\ new # content
    <3>1. changed
      BY <1>0, <1>2, <2>3 DEF SavesRemember
    <3>2. Unreverted(e)'
      BY <1>1, <1>4, <3>1 DEF Unreverted
    <3> QED  BY <1>2, <2>3, <3>2 DEF ApprovalsStand, Stands, RowsIn
  <2> QED  BY <2>1, <2>2, <2>3
<1> QED  BY <1>4, <1>6, <1>8 DEF EditorInv

LEMMA SyncRowsKeeps ==
  ASSUME EditorInv, NEW e \in Savers, NEW selected \in SUBSET Accounts,
         NEW scope \in SUBSET Accounts, SyncRows(e, selected, scope)
  PROVE  EditorInv'
<1> DEFINE after == CASE save[e].action = "queue" -> "move"
                      [] save[e].action \in {"submit", "resubmit"} -> "move"
                      [] OTHER -> "revert"
           x == [save[e] EXCEPT !.step = after, !.scope = scope]
<1>0. EditorTypeOK /\ SavesRemember /\ ApprovalsStand /\ save[e] \in SaveRecords
  BY DEF EditorInv, EditorTypeOK, SaveRecords
<1>1. after \in {"move", "revert"} /\ (after = "move" => save[e].action # "schedule")
  OBVIOUS
<1>2. /\ save[e].step = "sync" /\ save' = [save EXCEPT ![e] = x]
      /\ UNCHANGED <<content, saves, broken, doubtful>>
      /\ reviewed' = [a \in Accounts |-> IF row'[a] = "none" THEN NeverReviewed ELSE reviewed[a]]
  BY DEF SyncRows
<1>3. row' \in [Accounts -> Status \cup {"none"}]
  BY <1>0 DEF SyncRows, EditorTypeOK, Status
<1>4. \A a \in Accounts : row'[a] \in {"approved", "on_hold"} => row'[a] = row[a]
  BY DEF SyncRows
<1>5. \A a \in Accounts : row'[a] # "none" => reviewed'[a] = reviewed[a]
  BY <1>2
<1> HIDE DEF after
<1>6. x \in SaveRecords /\ x.step = after /\ x.changed = save[e].changed /\ x.action = save[e].action
  BY <1>0, <1>1 DEF SaveRecords, SaveSteps
<1> HIDE DEF x
<1>7. /\ save' \in [Savers -> SaveRecords] /\ SavesRemember'
      /\ save'[e] = x /\ \A d \in Savers \ {e} : save'[d] = save[d]
  BY <1>0, <1>1, <1>2, <1>6, SaveSets
<1>8. reviewed' \in [Accounts -> Contents \cup {NeverReviewed}]
  BY <1>0, <1>2 DEF EditorTypeOK
<1>9. EditorTypeOK'
  BY <1>0, <1>2, <1>3, <1>7, <1>8 DEF EditorTypeOK, SaveRecords
<1>10. \A d \in Savers : Unreverted(d) => Unreverted(d)'
  BY <1>1, <1>2, <1>6, <1>7 DEF Unreverted
<1>11. ApprovalsStand'
  BY <1>0, <1>2, <1>4, <1>5, <1>10 DEF ApprovalsStand, Stands
<1> QED  BY <1>7, <1>9, <1>11 DEF EditorInv

LEMMA RevertKeeps ==
  ASSUME EditorInv, NEW e \in Savers, Revert(e)
  PROVE  EditorInv'
<1> DEFINE sent == IF save[e].changed THEN RowsIn({"approved"}) ELSE {}
           x == [save[e] EXCEPT !.step = "move", !.sent = sent]
<1>0. EditorTypeOK /\ SavesRemember /\ ApprovalsStand /\ save[e] \in SaveRecords
  BY DEF EditorInv, EditorTypeOK, SaveRecords
<1>1. /\ save[e].step = "revert"
      /\ row' = [a \in Accounts |-> IF a \in sent THEN "pending_review" ELSE row[a]]
      /\ UNCHANGED <<content, saves, broken, reviewed, doubtful>>
      /\ save' = [save EXCEPT ![e] = x] \/ Settled(e)
  BY DEF Revert, RevertWhere
<1>2. sent \subseteq Accounts
  BY DEF RowsIn
<1>3. \A a \in Accounts : row'[a] = "approved" => row[a] = "approved" /\ ~save[e].changed
  BY <1>1 DEF RowsIn
<1>4. \A a \in Accounts : row'[a] = "on_hold" => row[a] = "on_hold"
  BY <1>1
<1>5. row' \in [Accounts -> Status \cup {"none"}]
  BY <1>0, <1>1 DEF EditorTypeOK, Status
<1> HIDE DEF sent
<1>6. x \in SaveRecords /\ x.step = "move"
  BY <1>0, <1>2 DEF SaveRecords, SaveSteps
<1> HIDE DEF x
<1>7. /\ save' \in [Savers -> SaveRecords] /\ SavesRemember'
      /\ \A d \in Savers \ {e} : save'[d] = save[d]
  <2>1. CASE save' = [save EXCEPT ![e] = x]
    BY <1>0, <1>6, <2>1, SaveSets
  <2>2. CASE Settled(e)
    BY <1>0, <2>2, SettledSets
  <2> QED  BY <1>1, <2>1, <2>2
<1>8. EditorTypeOK'
  BY <1>0, <1>1, <1>5, <1>7 DEF EditorTypeOK, SaveRecords
<1>9. \A d \in Savers : Unreverted(d) /\ ~save[e].changed => Unreverted(d)'
  BY <1>7 DEF Unreverted
<1>10. ApprovalsStand'
  BY <1>0, <1>1, <1>3, <1>4, <1>9 DEF ApprovalsStand, Stands
<1> QED  BY <1>7, <1>8, <1>10 DEF EditorInv

\* A save that ends, and takes or leaves its rows.
LEMMA EndKeeps ==
  ASSUME EditorInv, NEW e \in Savers, Settled(e),
         UNCHANGED <<content, reviewed>>,
         doubtful' \in {doubtful, doubtful \cup RowsIn({"approved"})},
         Unreverted(e) => doubtful' = doubtful \cup RowsIn({"approved"}),
         row' \in [Accounts -> Status \cup {"none"}],
         saves' = saves, broken' \in 0 .. MaxBroken,
         \A a \in Accounts : row'[a] \in {"approved", "on_hold"} => row'[a] = row[a]
  PROVE  EditorInv'
<1>0. EditorTypeOK /\ SavesRemember /\ ApprovalsStand
  BY DEF EditorInv
<1>1. /\ save' \in [Savers -> SaveRecords] /\ SavesRemember'
      /\ \A d \in Savers \ {e} : save'[d] = save[d]
  BY <1>0, SettledSets
<1>2. doubtful' \subseteq Accounts
  BY <1>0 DEF EditorTypeOK, RowsIn
<1>3. EditorTypeOK'
  BY <1>0, <1>1, <1>2 DEF EditorTypeOK, SaveRecords
<1>4. \A d \in Savers \ {e} : Unreverted(d) => Unreverted(d)'
  BY <1>1 DEF Unreverted
<1>5. ApprovalsStand'
  BY <1>0, <1>4 DEF ApprovalsStand, Stands, RowsIn
<1> QED  BY <1>1, <1>3, <1>5 DEF EditorInv

\* The people and the publisher, who leave the saves alone.
LEMMA OthersKeep ==
  ASSUME EditorInv, UNCHANGED <<content, save, saves, broken>>,
         row' \in [Accounts -> Status \cup {"none"}],
         reviewed' \in [Accounts -> Contents \cup {NeverReviewed}],
         doubtful' \subseteq Accounts,
         \A a \in Accounts :
           /\ row'[a] = "approved" => \/ row[a] \in {"approved", "on_hold"} /\ (Stands(a) => Stands(a)')
                                      \/ Stands(a)'
           /\ row'[a] = "on_hold" => \/ row[a] = "on_hold" /\ (Stands(a) => Stands(a)')
                                     \/ Stands(a)'
  PROVE  EditorInv'
<1>1. EditorTypeOK'
  BY DEF EditorInv, EditorTypeOK
<1>2. SavesRemember'
  BY DEF EditorInv, SavesRemember
<1>3. \A d \in Savers : Unreverted(d) => Unreverted(d)'
  BY DEF Unreverted
<1>4. ApprovalsStand'
  BY <1>3 DEF EditorInv, ApprovalsStand
<1> QED  BY <1>1, <1>2, <1>4 DEF EditorInv

LEMMA EditorStep == EditorInv /\ [EditorNext]_editorVars => EditorInv'
<1> SUFFICES ASSUME EditorInv, [EditorNext]_editorVars PROVE EditorInv'
  OBVIOUS
<1>0. EditorTypeOK /\ SavesRemember /\ ApprovalsStand
  BY DEF EditorInv
<1>1. CASE UNCHANGED editorVars
  BY <1>0, <1>1, OthersKeep DEF editorVars, EditorTypeOK, Stands
<1>2. ASSUME NEW e \in Savers, NEW action \in SaveActions, LoadPost(e, action) PROVE EditorInv'
  BY <1>2, LoadPostKeeps
<1>3. ASSUME NEW e \in Savers, NEW new \in Contents, WriteContent(e, new) PROVE EditorInv'
  BY <1>3, WriteContentKeeps
<1>4. ASSUME NEW e \in Savers, NEW selected \in SUBSET Accounts,
             NEW scope \in {Accounts} \cup {{a} : a \in Accounts}, SyncRows(e, selected, scope)
      PROVE  EditorInv'
  <2>1. scope \subseteq Accounts
    OBVIOUS
  <2> QED  BY <1>4, <2>1, SyncRowsKeeps
<1>5. ASSUME NEW e \in Savers, Revert(e) PROVE EditorInv'
  BY <1>5, RevertKeeps
<1>6. ASSUME NEW e \in Savers, TransitionChildren(e) PROVE EditorInv'
  <2>1. row' \in [Accounts -> Status \cup {"none"}]
    BY <1>0, <1>6 DEF TransitionChildren, EditorTypeOK, Status
  <2>2. \A a \in Accounts : row'[a] \in {"approved", "on_hold"} => row'[a] = row[a]
    BY <1>6 DEF TransitionChildren
  <2>3. /\ Settled(e) /\ UNCHANGED <<content, saves, broken, reviewed>>
        /\ doubtful' \in {doubtful, doubtful \cup RowsIn({"approved"})}
        /\ Unreverted(e) => doubtful' = doubtful \cup RowsIn({"approved"})
    BY <1>6 DEF TransitionChildren, Unreverted
  <2>4. broken' \in 0 .. MaxBroken
    BY <1>0, <2>3 DEF EditorTypeOK
  <2> QED  BY <2>1, <2>2, <2>3, <2>4, EndKeeps
<1>7. ASSUME NEW e \in Savers, SendToReview(e) PROVE EditorInv'
  <2>1. row' \in [Accounts -> Status \cup {"none"}]
    BY <1>0, <1>7 DEF SendToReview, EditorTypeOK, Status
  <2>2. \A a \in Accounts : row'[a] \in {"approved", "on_hold"} => row'[a] = row[a]
    BY <1>7 DEF SendToReview
  <2>3. /\ Settled(e) /\ UNCHANGED <<content, saves, broken, reviewed>>
        /\ doubtful' \in {doubtful, doubtful \cup RowsIn({"approved"})}
        /\ Unreverted(e) => doubtful' = doubtful \cup RowsIn({"approved"})
    BY <1>7 DEF SendToReview, Unreverted
  <2>4. broken' \in 0 .. MaxBroken
    BY <1>0, <2>3 DEF EditorTypeOK
  <2> QED  BY <2>1, <2>2, <2>3, <2>4, EndKeeps
<1>8. ASSUME NEW e \in Savers, BreakOff(e) PROVE EditorInv'
  <2>1. row' \in [Accounts -> Status \cup {"none"}]
    BY <1>0, <1>8 DEF BreakOff, EditorTypeOK
  <2>2. \A a \in Accounts : row'[a] \in {"approved", "on_hold"} => row'[a] = row[a]
    BY <1>8 DEF BreakOff
  <2>3. /\ Settled(e) /\ UNCHANGED <<content, saves, reviewed>>
        /\ doubtful' \in {doubtful, doubtful \cup RowsIn({"approved"})}
        /\ Unreverted(e) => doubtful' = doubtful \cup RowsIn({"approved"})
    BY <1>8 DEF BreakOff, Unreverted
  <2>4. broken' \in 0 .. MaxBroken
    BY <1>0, <1>8, EditorAssumption DEF BreakOff, EditorTypeOK
  <2> QED  BY <2>1, <2>2, <2>3, <2>4, EndKeeps
<1>9. CASE ApprovePost
  <2>1. PICK approved \in SUBSET Accounts :
          /\ row' = [a \in Accounts |-> IF a \in approved THEN "approved" ELSE row[a]]
          /\ Reviewed(approved)
          /\ UNCHANGED <<content, save, saves, broken>>
    <3>1. {a \in RowsIn({"pending_review", "pending_client", "draft", "rejected", "changes_requested"}) :
             MayMove(row[a], "approved")} \in SUBSET Accounts
      BY DEF RowsIn
    <3> QED  BY <1>9, <3>1 DEF ApprovePost
  <2>2. row' \in [Accounts -> Status \cup {"none"}]
    BY <1>0, <2>1 DEF EditorTypeOK, Status
  <2>3. reviewed' \in [Accounts -> Contents \cup {NeverReviewed}] /\ doubtful' \subseteq Accounts
    BY <1>0, <2>1 DEF EditorTypeOK, Reviewed
  <2>4. \A a \in approved : Stands(a)'
    BY <2>1 DEF Reviewed, Stands
  <2>5. \A a \in Accounts \ approved : row'[a] = row[a] /\ (Stands(a) => Stands(a)')
    BY <2>1 DEF Reviewed, Stands
  <2> QED  BY <2>1, <2>2, <2>3, <2>4, <2>5, OthersKeep
<1>10. CASE RejectPost
  <2>1. row' \in [Accounts -> Status \cup {"none"}]
    BY <1>0, <1>10 DEF EditorTypeOK, Status, RejectPost
  <2>2. /\ \A a \in Accounts : row'[a] \in {"approved", "on_hold"} => row'[a] = row[a]
        /\ UNCHANGED <<content, save, saves, broken, reviewed, doubtful>>
    BY <1>10 DEF RejectPost
  <2>3. \A a \in Accounts : Stands(a) => Stands(a)'
    BY <2>2 DEF Stands
  <2> QED  BY <1>0, <2>1, <2>2, <2>3, OthersKeep DEF EditorTypeOK
<1>11. ASSUME NEW b \in Accounts, HoldRow(b) PROVE EditorInv'
  <2>1. /\ row[b] = "approved" /\ row' = [row EXCEPT ![b] = "on_hold"]
        /\ doubtful' = IF \E e \in Savers : Pending(e) THEN doubtful \cup {b} ELSE doubtful
        /\ UNCHANGED <<content, save, saves, broken, reviewed>>
    BY <1>11 DEF HoldRow
  <2>2. row' \in [Accounts -> Status \cup {"none"}]
    BY <1>0, <2>1 DEF EditorTypeOK, Status
  <2>3. doubtful' \subseteq Accounts /\ reviewed' \in [Accounts -> Contents \cup {NeverReviewed}]
    BY <1>0, <2>1 DEF EditorTypeOK
  <2>4. \A a \in Accounts : Stands(a) => Stands(a)'
    BY <2>1 DEF Stands
  <2>5. \A e \in Savers : Unreverted(e) => Pending(e)
    BY DEF Unreverted, Pending
  <2>6. Stands(b)'
    BY <1>0, <2>1, <2>4, <2>5 DEF ApprovalsStand, Stands
  <2>7. \A a \in Accounts \ {b} : row'[a] = row[a]
    BY <1>0, <2>1 DEF EditorTypeOK
  <2> QED  BY <2>1, <2>2, <2>3, <2>4, <2>6, <2>7, OthersKeep
<1>12. ASSUME NEW b \in Accounts, ResumeRow(b) PROVE EditorInv'
  <2>1. /\ row[b] = "on_hold" /\ row' = [row EXCEPT ![b] = "approved"]
        /\ UNCHANGED <<content, save, saves, broken, reviewed, doubtful>>
    BY <1>12 DEF ResumeRow
  <2>2. row' \in [Accounts -> Status \cup {"none"}]
    BY <1>0, <2>1 DEF EditorTypeOK, Status
  <2>3. \A a \in Accounts : Stands(a) => Stands(a)'
    BY <2>1 DEF Stands
  <2>4. row'[b] = "approved" /\ \A a \in Accounts \ {b} : row'[a] = row[a]
    BY <1>0, <2>1 DEF EditorTypeOK
  <2>5. doubtful' \subseteq Accounts /\ reviewed' \in [Accounts -> Contents \cup {NeverReviewed}]
    BY <1>0, <2>1 DEF EditorTypeOK
  <2> QED  BY <2>1, <2>2, <2>3, <2>4, <2>5, OthersKeep
<1>13. ASSUME NEW b \in Accounts, NEW s \in {"draft", "scheduled", "publishing", "published", "none"},
              row' = [row EXCEPT ![b] = s],
              reviewed' \in {reviewed, [reviewed EXCEPT ![b] = NeverReviewed]},
              UNCHANGED <<content, save, saves, broken, doubtful>>
       PROVE  EditorInv'
  <2>1. row' \in [Accounts -> Status \cup {"none"}]
    BY <1>0, <1>13 DEF EditorTypeOK, Status
  <2>2. doubtful' \subseteq Accounts /\ reviewed' \in [Accounts -> Contents \cup {NeverReviewed}]
    BY <1>0, <1>13 DEF EditorTypeOK
  <2>3. row'[b] \notin {"approved", "on_hold"}
    BY <1>0, <1>13 DEF EditorTypeOK
  <2>4. \A a \in Accounts \ {b} : row'[a] = row[a] /\ reviewed'[a] = reviewed[a]
    BY <1>0, <1>13 DEF EditorTypeOK
  <2>5. \A a \in Accounts \ {b} : Stands(a) => Stands(a)'
    BY <1>13, <2>4 DEF Stands
  <2> QED  BY <1>13, <2>1, <2>2, <2>3, <2>4, <2>5, OthersKeep
<1>14. ASSUME NEW b \in Accounts, NEW target \in {"draft", "scheduled"}, TransitionChild(b, target) PROVE EditorInv'
  BY <1>13, <1>14 DEF TransitionChild
<1>15. ASSUME NEW b \in Accounts, DeleteRow(b) PROVE EditorInv'
  BY <1>13, <1>15 DEF DeleteRow
<1>16. ASSUME NEW b \in Accounts, PublishRow(b) PROVE EditorInv'
  BY <1>13, <1>16 DEF PublishRow
<1> QED  BY <1>1, <1>2, <1>3, <1>4, <1>5, <1>6, <1>7, <1>8, <1>9, <1>10, <1>11, <1>12, <1>14, <1>15, <1>16
         DEF EditorNext, SaveStep

\* A row under review goes nowhere but by a decision.
LEMMA ReviewIsDecided ==
  /\ ~MayMove("pending_review", "scheduled") /\ ~MayMove("pending_review", "draft")
BY DEF MayMove, CanTransition, ValidTransitions, Status

\* What a step schedules stands as reviewed, or another save that is under way
\* has changed the content.
LEMMA ScheduledAsReviewed ==
  ASSUME EditorInv, EditorNext, NEW a \in Accounts,
         row[a] \in {"approved", "pending_review"}, row'[a] = "scheduled"
  PROVE  \/ reviewed[a] = content \/ a \in doubtful'
         \/ \E e \in Savers : Pending(e) /\ save'[e] = save[e]
<1>0. EditorTypeOK /\ SavesRemember /\ ApprovalsStand
  BY DEF EditorInv
<1>1. \A e \in Savers : Unreverted(e) => Pending(e)
  BY DEF Unreverted, Pending
<1>2. \/ \E e \in Savers : TransitionChildren(e)
      \/ \E b \in Accounts : TransitionChild(b, "scheduled")
  <2>1. \A e \in Savers, action \in SaveActions : ~LoadPost(e, action)
    BY DEF LoadPost
  <2>2. \A e \in Savers, new \in Contents : ~WriteContent(e, new)
    BY DEF WriteContent
  <2>3. \A e \in Savers, selected \in SUBSET Accounts, scope \in {Accounts} \cup {{b} : b \in Accounts} :
          ~SyncRows(e, selected, scope)
    BY DEF SyncRows
  <2>4. \A e \in Savers : ~Revert(e) /\ ~SendToReview(e) /\ ~BreakOff(e)
    BY DEF Revert, RevertWhere, SendToReview, BreakOff
  <2>5. ~ApprovePost /\ ~RejectPost
    BY DEF ApprovePost, RejectPost
  <2>6. \A b \in Accounts : ~HoldRow(b) /\ ~ResumeRow(b) /\ ~DeleteRow(b) /\ ~TransitionChild(b, "draft")
    BY <1>0 DEF HoldRow, ResumeRow, DeleteRow, TransitionChild, EditorTypeOK
  <2>7. \A b \in Accounts : ~PublishRow(b)
    BY <1>0 DEF PublishRow, EditorTypeOK
  <2> QED  BY <2>1, <2>2, <2>3, <2>4, <2>5, <2>6, <2>7 DEF EditorNext, SaveStep
<1>3. ASSUME NEW e \in Savers, TransitionChildren(e)
      PROVE  \/ reviewed[a] = content \/ a \in doubtful'
             \/ \E d \in Savers : Pending(d) /\ save'[d] = save[d]
  <2>1. Moves(a)
    BY <1>3 DEF TransitionChildren
  <2>2. row[a] = "approved"
    BY <2>1, ReviewIsDecided DEF Moves
  <2>3. Stands(a) \/ \E d \in Savers : Unreverted(d)
    BY <1>0, <2>2 DEF ApprovalsStand
  <2>4. doubtful \subseteq doubtful' /\ (Unreverted(e) => a \in doubtful')
    BY <1>3, <2>2 DEF TransitionChildren, Unreverted, RowsIn
  <2>5. \A d \in Savers \ {e} : save'[d] = save[d]
    BY <1>0, <1>3, SettledSets DEF TransitionChildren
  <2> QED  BY <1>1, <2>3, <2>4, <2>5 DEF Stands
<1>4. ASSUME NEW b \in Accounts, TransitionChild(b, "scheduled")
      PROVE  \/ reviewed[a] = content \/ a \in doubtful'
             \/ \E d \in Savers : Pending(d) /\ save'[d] = save[d]
  <2>1. MayMove(row[b], "scheduled") /\ UNCHANGED <<save, doubtful>> /\ row' = [row EXCEPT ![b] = "scheduled"]
    BY <1>4 DEF TransitionChild
  <2>2. a = b
    BY <1>0, <2>1 DEF EditorTypeOK
  <2>3. row[a] = "approved"
    BY <2>1, <2>2, ReviewIsDecided
  <2> QED  BY <1>0, <1>1, <2>1, <2>3 DEF ApprovalsStand, Stands
<1> QED  BY <1>2, <1>3, <1>4

\* A row that stands approved, or that a save schedules, has the content it was
\* approved with, whichever saves and decisions overlap.
THEOREM ApprovedStaysReviewed == EditorSpec => ApprovedAsReviewed
<1>1. EditorSpec => []EditorInv
  BY EditorStarts, EditorStep, PTL DEF EditorSpec
<1>2. EditorInv => \A a \in Accounts : row[a] = "approved" => AsReviewed(a)
  BY DEF EditorInv, ApprovalsStand, Stands, AsReviewed, Unreverted, Pending
<1> DEFINE Scheduled ==
      \A a \in Accounts :
        row[a] \in {"approved", "pending_review"} /\ row'[a] = "scheduled"
          => reviewed[a] = content \/ a \in doubtful'
             \/ \E e \in Savers : Pending(e) /\ save'[e] = save[e]
<1>3. EditorInv /\ [EditorNext]_editorVars => [Scheduled]_editorVars
  BY ScheduledAsReviewed DEF editorVars
<1> QED  BY <1>1, <1>2, <1>3, PTL DEF EditorSpec, ApprovedAsReviewed

\* The saves and rows of the editor are what the module says.
THEOREM EditorTypes == EditorSpec => []EditorTypeOK
<1>1. EditorSpec => []EditorInv
  BY EditorStarts, EditorStep, PTL DEF EditorSpec
<1>2. EditorInv => EditorTypeOK
  BY DEF EditorInv
<1> QED  BY <1>1, <1>2, PTL

---------------------------------------------------------------------------------
(* Induction, for a set of numbers. *)

\* A set of numbers has a least.
LEMMA LeastExists ==
  ASSUME NEW T, T \subseteq Nat, T # {}
  PROVE  \E n \in T : \A m \in T : n <= m
<1> DEFINE F == {0 .. n : n \in T}
<1>1. IsWellFoundedOn(StrictSubsetOrdering(Nat), FiniteSubsetsOf(Nat))
  BY FS_StrictSubsetOrderingWellFounded
<1>2. F \subseteq FiniteSubsetsOf(Nat) /\ F # {}
  <2>1. \A n \in T : IsFiniteSet(0 .. n) /\ 0 .. n \subseteq Nat
    BY FS_Interval
  <2> QED  BY <2>1 DEF FiniteSubsetsOf
<1>3. \E x \in F : \A y \in F : <<y, x>> \notin StrictSubsetOrdering(Nat)
  <2> HIDE DEF F
  <2> QED  BY <1>1, <1>2, WFMin
<1>4. PICK n \in T : \A m \in T : <<0 .. m, 0 .. n>> \notin StrictSubsetOrdering(Nat)
  BY <1>3
<1>5. ASSUME NEW m \in T, m < n PROVE FALSE
  <2>1. 0 .. m \subseteq 0 .. n /\ 0 .. m # 0 .. n /\ 0 .. m \in SUBSET Nat /\ 0 .. n \in SUBSET Nat
    <3>1. n \in 0 .. n /\ n \notin 0 .. m
      BY <1>5
    <3> QED  BY <1>5, <3>1
  <2> QED  BY <1>4, <2>1 DEF StrictSubsetOrdering
<1> QED  BY <1>5

\* What holds at 0, and at the next number wherever it holds, holds up to n.
LEMMA UpTo ==
  ASSUME NEW T, NEW n \in Nat, 0 \in T, \A k \in 0 .. n - 1 : k \in T => k + 1 \in T
  PROVE  0 .. n \subseteq T
<1> DEFINE U == (0 .. n) \ T
<1> SUFFICES ASSUME U # {} PROVE FALSE
  OBVIOUS
<1>1. U \subseteq Nat
  OBVIOUS
<1>2. PICK k \in U : \A m \in U : k <= m
  <2> HIDE DEF U
  <2> QED  BY <1>1, LeastExists
<1>3. k \in 0 .. n /\ k \notin T /\ k # 0
  BY <1>2
<1>4. k - 1 \in 0 .. n - 1 /\ k - 1 \in T
  BY <1>2, <1>3
<1> QED  BY <1>3, <1>4

---------------------------------------------------------------------------------
(* SlotQueue: the search for a slot. *)

LEMMA GridIsNat == \A t \in Grid : t \in Nat
BY SlotQueueAssumption

LEMMA EarliestFacts ==
  ASSUME NEW S, S \subseteq 1 .. Horizon
  PROVE  /\ Earliest(S) \in S \cup {Never}
         /\ Earliest(S) = Never <=> S = {}
         /\ \A t \in S : Earliest(S) <= t
<1>1. CASE S = {}
  BY <1>1 DEF Earliest, Never
<1>2. CASE S # {}
  <2>1. S \subseteq Nat
    BY SlotQueueAssumption
  <2>2. \E n \in S : \A m \in S : n <= m
    BY <1>2, <2>1, LeastExists
  <2>3. Min(S) \in S /\ \A t \in S : Min(S) <= t
    BY <2>2 DEF Min
  <2>4. \A t \in S : t # 0
    BY SlotQueueAssumption
  <2> QED  BY <1>2, <2>3, <2>4 DEF Earliest, Never
<1> QED  BY <1>1, <1>2

LEMMA OccupiedFacts ==
  ASSUME TypeOK, NEW p \in Posts
  PROVE  Occupied(p) \subseteq now + 1 .. Horizon /\ IsFiniteSet(Occupied(p))
<1>1. Occupied(p) \subseteq now + 1 .. Horizon
  BY SlotQueueAssumption DEF Occupied, SlotsOf, Upcoming, TypeOK, Never
<1>2. IsFiniteSet(now + 1 .. Horizon)
  BY FS_Interval, SlotQueueAssumption DEF TypeOK
<1> QED  BY <1>1, <1>2, FS_Subset

\* The bounded search finds what a search of every posting slot would find.
LEMMA GapIsFirst ==
  ASSUME TypeOK, NEW p \in Posts
  PROVE  NextGap(p) = Earliest({t \in Grid : t > now} \ Occupied(p))
<1> DEFINE O == Occupied(p)
           G == {t \in Grid : t > now} \ O
           C == Candidates(Cardinality(O) + 1) \ O
<1>1. O \subseteq 1 .. Horizon /\ IsFiniteSet(O) /\ Cardinality(O) \in Nat
  BY OccupiedFacts, FS_CardinalityType, SlotQueueAssumption DEF TypeOK
<1>2. G \subseteq 1 .. Horizon /\ C \subseteq G
  BY SlotQueueAssumption DEF Candidates
<1>3. CASE G = {}
  BY <1>2, <1>3 DEF NextGap
<1>4. CASE G # {}
  <2> DEFINE t == Earliest(G)
  <2>1. t \in G /\ \A u \in G : t <= u
    <3> HIDE DEF G
    <3> QED  BY <1>2, <1>4, EarliestFacts
  <2>2. {u \in Grid : now < u /\ u < t} \subseteq O
    <3>1. t \in Nat /\ \A u \in Grid : u \in Nat
      <4>1. \A u \in Grid : u \in Nat
        BY SlotQueueAssumption
      <4>2. t \in Grid
        BY <2>1
      <4> HIDE DEF t
      <4> QED  BY <4>1, <4>2
    <3>2. ASSUME NEW u \in Grid, now < u, u < t, u \notin O PROVE FALSE
      <4>1. now \in Nat /\ u \in Nat
        BY <3>1 DEF TypeOK
      <4>2. u \in G
        BY <3>2, <4>1
      <4>3. t <= u
        BY <2>1, <4>2
      <4> HIDE DEF t
      <4> QED  BY <3>1, <3>2, <4>1, <4>3
    <3> QED  BY <3>2
  <2>3. Cardinality({u \in Grid : now < u /\ u < t}) <= Cardinality(O)
        /\ Cardinality({u \in Grid : now < u /\ u < t}) \in Nat
    <3> HIDE DEF O, t
    <3> QED  BY <1>1, <2>2, FS_Subset, FS_CardinalityType
  <2>4. t \in C
    <3> HIDE DEF O
    <3> QED  BY <1>1, <2>1, <2>3 DEF Candidates
  <2>5. C \subseteq 1 .. Horizon /\ C # {}
    BY <1>2, <2>4
  <2>6. Earliest(C) \in C /\ Earliest(C) <= t
    <3> HIDE DEF C, t
    <3> QED  BY <2>4, <2>5, EarliestFacts
  <2>7. t <= Earliest(C) /\ t \in 1 .. Horizon /\ Earliest(C) \in 1 .. Horizon
    <3> HIDE DEF C, G
    <3> QED  BY <1>2, <2>1, <2>6
  <2>8. Earliest(C) = t
    <3> HIDE DEF C, t
    <3> QED  BY <2>6, <2>7, SlotQueueAssumption
  <2> QED  BY <2>8 DEF NextGap
<1> QED  BY <1>3, <1>4

LEMMA GapIsFree ==
  ASSUME TypeOK, NEW p \in Posts
  PROVE  /\ NextGap(p) \in {Never} \cup Grid
         /\ NextGap(p) \notin Occupied(p)
<1>1. {t \in Grid : t > now} \ Occupied(p) \subseteq 1 .. Horizon
  BY SlotQueueAssumption
<1>2. NextGap(p) \in ({t \in Grid : t > now} \ Occupied(p)) \cup {Never}
  <2> DEFINE G == {t \in Grid : t > now} \ Occupied(p)
  <2>1. NextGap(p) = Earliest(G)
    BY GapIsFirst
  <2>2. Earliest(G) \in G \cup {Never}
    <3> HIDE DEF G
    <3> QED  BY <1>1, EarliestFacts DEF G
  <2> QED  BY <2>1, <2>2
<1>3. Never \notin Occupied(p)
  BY OccupiedFacts, SlotQueueAssumption DEF TypeOK, Never
<1> QED  BY <1>2, <1>3

---------------------------------------------------------------------------------
(* SlotQueue: the ladder. *)

LEMMA WindowFacts ==
  ASSUME TypeOK, NEW p \in Posts, NEW q \in Queues
  PROVE  /\ Window(p, q) \subseteq Grid /\ Window(p, q) \subseteq now + 1 .. Horizon
         /\ Earliest(Window(p, q)) \in Window(p, q) \cup {Never}
         /\ \A t \in Window(p, q) : Earliest(Window(p, q)) <= t
         /\ \A a \in Movers(p, q) :
              /\ a \in Posts \ {p} /\ slot[a] \in Window(p, q) /\ slot[a] \in Occupied(p)
              /\ ~Protected(a) /\ slot[a] \in Nat /\ slot[a] > now
<1>1. Window(p, q) \subseteq Grid /\ Window(p, q) \subseteq now + 1 .. Horizon
  <2>1. ASSUME NEW t \in Window(p, q) PROVE t \in Grid /\ t > now
    BY <2>1 DEF Window, Candidates
  <2>2. ASSUME NEW t \in Grid, t > now PROVE t \in now + 1 .. Horizon
    BY <2>2, SlotQueueAssumption DEF TypeOK
  <2> QED  BY <2>1, <2>2
<1>2. Window(p, q) \subseteq 1 .. Horizon
  BY <1>1, SlotQueueAssumption
<1>3. ASSUME NEW a \in Movers(p, q)
      PROVE  /\ a \in Posts \ {p} /\ slot[a] \in Window(p, q) /\ slot[a] \in Occupied(p)
             /\ ~Protected(a) /\ slot[a] \in Nat /\ slot[a] > now
  BY <1>3, SlotQueueAssumption DEF Movers, Movable, Occupied, SlotsOf, Upcoming, TypeOK, Never
<1> QED  BY <1>1, <1>2, <1>3, EarliestFacts

Before(a, p, q, turn) == {c \in Movers(p, q) : turn[c] < turn[a]}

\* The instants a mover steps over.
Avoided(a, p, q, turn, land) ==
  Fixed(p, q) \cup {Earliest(Window(p, q))} \cup {land[b] : b \in Before(a, p, q, turn)}

LEMMA LandingFacts ==
  ASSUME NEW t, NEW avoid
  PROVE  /\ Landing(t, avoid) \in {Never} \cup Grid
         /\ Landing(t, avoid) # Never => Landing(t, avoid) > t /\ Landing(t, avoid) \notin avoid
         /\ \A u \in Grid : u > t /\ u \notin avoid => Landing(t, avoid) # Never /\ Landing(t, avoid) <= u
<1>1. {u \in Grid : u > t} \ avoid \subseteq 1 .. Horizon
  BY SlotQueueAssumption
<1> QED  BY <1>1, EarliestFacts DEF Landing

\* The recursion by which the ladder is defined has a solution, and it is that one.
LEMMA LadderRecursion ==
  ASSUME TypeOK, NEW p \in Posts, NEW q \in Queues, NEW turn \in Turns(p, q)
  PROVE  Ladder(p, q, turn) =
           [a \in Movers(p, q) |-> Landing(slot[a], Avoided(a, p, q, turn, Ladder(p, q, turn)))]
<1> DEFINE S == Movers(p, q)
           n == Cardinality(S)
           D == {Never} \cup Grid
           Lands(g, a) == g[a] = Landing(slot[a], Avoided(a, p, q, turn, g))
           T == {k \in Nat : \E g \in [S -> D] : \A a \in S : turn[a] <= k => Lands(g, a)}
<1>1. n \in Nat /\ turn \in [S -> 1 .. n]
  <2>1. IsFiniteSet(S)
    <3>1. S \subseteq Posts
      BY WindowFacts
    <3> QED  BY <3>1, FS_Subset, SlotQueueAssumption
  <2> QED  BY <2>1, FS_CardinalityType DEF Turns, Bijection, Injection
<1>2. 0 \in T
  <2>1. [a \in S |-> Never] \in [S -> D]
    OBVIOUS
  <2>2. \A a \in S : ~(turn[a] <= 0)
    BY <1>1
  <2> QED  BY <2>1, <2>2
<1>3. ASSUME NEW k \in Nat, k \in T PROVE k + 1 \in T
  <2>1. PICK g \in [S -> D] : \A a \in S : turn[a] <= k => Lands(g, a)
    BY <1>3
  <2> DEFINE h == [a \in S |-> IF turn[a] <= k THEN g[a]
                               ELSE Landing(slot[a], Avoided(a, p, q, turn, g))]
  <2>2. h \in [S -> D]
    BY LandingFacts
  <2>3. ASSUME NEW a \in S, turn[a] <= k + 1 PROVE Avoided(a, p, q, turn, h) = Avoided(a, p, q, turn, g)
    <3>1. \A b \in Before(a, p, q, turn) : h[b] = g[b]
      BY <1>1, <2>3 DEF Before
    <3> QED  BY <3>1 DEF Avoided
  <2>4. ASSUME NEW a \in S, turn[a] <= k + 1 PROVE Lands(h, a)
    BY <2>1, <2>3, <2>4
  <2>5. \E f \in [S -> D] : \A a \in S : turn[a] <= k + 1 => Lands(f, a)
    <3> HIDE DEF h, Lands, S, D
    <3> QED  BY <2>2, <2>4
  <2> HIDE DEF Lands, S, D
  <2> QED  BY <2>5
<1>4. n \in T
  <2>1. 0 .. n \subseteq T
    <3> HIDE DEF T, n
    <3> QED  BY <1>1, <1>2, <1>3, UpTo
  <2> QED  BY <1>1, <2>1
<1>5. PICK g \in [S -> D] : \A a \in S : turn[a] <= n => Lands(g, a)
  BY <1>4
<1>6. \A a \in S : Lands(g, a)
  BY <1>1, <1>5
<1>7. g = [a \in S |-> Landing(slot[a], Avoided(a, p, q, turn, g))]
  BY <1>6
<1> QED  BY <1>7 DEF Ladder, Avoided, Before

LEMMA LadderFacts ==
  ASSUME TypeOK, NEW p \in Posts, NEW q \in Queues, NEW turn \in Turns(p, q)
  PROVE  LET land == Ladder(p, q, turn)
         IN  /\ land \in [Movers(p, q) -> {Never} \cup Grid]
             /\ \A a \in Movers(p, q) :
                  land[a] # Never =>
                    /\ land[a] > slot[a]
                    /\ land[a] \notin Fixed(p, q)
                    /\ land[a] # Earliest(Window(p, q))
                    /\ \A b \in Movers(p, q) \ {a} : land[b] # land[a]
             /\ \A a \in Movers(p, q), u \in Grid :
                  u > slot[a] /\ u \notin Avoided(a, p, q, turn, land)
                    => land[a] # Never /\ land[a] <= u
<1> DEFINE S == Movers(p, q)
           land == Ladder(p, q, turn)
<1>1. land = [a \in S |-> Landing(slot[a], Avoided(a, p, q, turn, land))]
  BY LadderRecursion
<1> HIDE DEF land
<1>2. \A a \in S : land[a] = Landing(slot[a], Avoided(a, p, q, turn, land))
  BY <1>1
<1>3. land \in [S -> {Never} \cup Grid]
  <2>1. \A a \in S : Landing(slot[a], Avoided(a, p, q, turn, land)) \in {Never} \cup Grid
    BY LandingFacts
  <2> QED  BY <1>1, <2>1
<1>4. ASSUME NEW a \in S, land[a] # Never
      PROVE  land[a] > slot[a] /\ land[a] \notin Avoided(a, p, q, turn, land)
  BY <1>2, <1>4, LandingFacts
<1>5. ASSUME NEW a \in S, NEW b \in S \ {a}, land[a] # Never PROVE land[b] # land[a]
  <2>1. turn[a] \in Int /\ turn[b] \in Int /\ turn[a] # turn[b]
    <3>1. turn \in [S -> 1 .. Cardinality(S)] /\ \A c, d \in S : turn[c] = turn[d] => c = d
      BY DEF Turns, Bijection, Injection, IsInjective
    <3> QED  BY <3>1
  <2>2. CASE turn[b] < turn[a]
    <3>1. b \in Before(a, p, q, turn)
      BY <2>2 DEF Before
    <3> QED  BY <1>4, <1>5, <3>1 DEF Avoided
  <2>3. CASE turn[a] < turn[b]
    <3>1. a \in Before(b, p, q, turn)
      BY <2>3 DEF Before
    <3>2. land[b] # Never => land[b] # land[a]
      BY <1>4, <3>1 DEF Avoided
    <3> QED  BY <1>5, <3>2
  <2> QED  BY <2>1, <2>2, <2>3
<1>6. ASSUME NEW a \in S, NEW u \in Grid, u > slot[a], u \notin Avoided(a, p, q, turn, land)
      PROVE  land[a] # Never /\ land[a] <= u
  BY <1>2, <1>6, LandingFacts
<1>7. \A a \in S : land[a] # Never =>
        land[a] \notin Fixed(p, q) /\ land[a] # Earliest(Window(p, q))
  BY <1>4 DEF Avoided
<1> QED  BY <1>3, <1>4, <1>5, <1>6, <1>7 DEF land

\* A mover that shares its instant with no other is not overtaken.
LEMMA LadderOrder ==
  ASSUME TypeOK, NEW p \in Posts, NEW q \in Queues, NEW turn \in Turns(p, q),
         \A a \in Movers(p, q) : Ladder(p, q, turn)[a] # Never,
         NEW a \in Movers(p, q), Alone(a, p, q)
  PROVE  \A b \in Movers(p, q) :
           slot[a] < slot[b] => Ladder(p, q, turn)[a] < Ladder(p, q, turn)[b]
<1> DEFINE S == Movers(p, q)
           land == Ladder(p, q, turn)
           Overtaking == {b \in S : slot[a] < slot[b] /\ ~(land[a] < land[b])}
<1>1. /\ land \in [S -> {Never} \cup Grid]
      /\ \A c \in S : /\ land[c] > slot[c] /\ land[c] \notin Fixed(p, q)
                      /\ land[c] # Earliest(Window(p, q))
                      /\ \A b \in S \ {c} : land[b] # land[c]
      /\ \A c \in S, u \in Grid :
           u > slot[c] /\ u \notin Avoided(c, p, q, turn, land) => land[c] # Never /\ land[c] <= u
  BY LadderFacts
<1>2. \A c \in S : slot[c] \in Window(p, q) /\ slot[c] \in Grid /\ slot[c] \in Nat /\ slot[c] > now
                   /\ land[c] \in Nat /\ slot[c] \notin Fixed(p, q)
  <2>1. \A t \in Grid : t \in Nat
    BY SlotQueueAssumption
  <2>2. \A c \in S : slot[c] \in SlotsOf(S)
    BY DEF SlotsOf
  <2>3. \A c \in S : slot[c] \notin Fixed(p, q)
    BY <2>2 DEF Fixed
  <2>4. \A c \in S : land[c] \in Grid
    BY <1>1
  <2>5. \A c \in S : slot[c] \in Window(p, q) /\ slot[c] \in Grid /\ slot[c] \in Nat /\ slot[c] > now
    BY WindowFacts
  <2> HIDE DEF land, S
  <2> QED  BY <2>1, <2>3, <2>4, <2>5
<1>3. \A t \in Window(p, q) : Earliest(Window(p, q)) <= t
  BY WindowFacts
<1>4. \A c, d \in S : turn[c] < turn[d] => slot[c] >= slot[d]
  <2>1. ASSUME NEW c \in S, NEW d \in S, turn[c] < turn[d], ~(slot[c] >= slot[d]) PROVE FALSE
    <3>1. slot[d] > slot[c]
      BY <1>2, <2>1
    <3>2. turn[d] < turn[c]
      BY <3>1 DEF Turns
    <3>3. turn[c] \in Int /\ turn[d] \in Int
      BY DEF Turns, Bijection, Injection
    <3> QED  BY <2>1, <3>2, <3>3
  <2> QED  BY <2>1
<1>5. SUFFICES ASSUME Overtaking # {} PROVE FALSE
  OBVIOUS
<1>6. PICK b \in Overtaking : \A c \in Overtaking : slot[b] <= slot[c]
  <2> DEFINE T == {slot[c] : c \in Overtaking}
  <2>1. T \subseteq Nat /\ T # {}
    BY <1>2, <1>5
  <2>2. \E n \in T : \A m \in T : n <= m
    <3> HIDE DEF T
    <3> QED  BY <2>1, LeastExists
  <2> QED  BY <2>2
<1>7. b \in S /\ slot[a] < slot[b] /\ land[b] <= land[a]
  <2>1. b \in S /\ slot[a] < slot[b] /\ ~(land[a] < land[b])
    BY <1>6
  <2>2. land[a] \in Nat /\ land[b] \in Nat
    BY <1>2, <2>1
  <2> HIDE DEF land, S
  <2> QED  BY <2>1, <2>2
<1> HIDE DEF land
<1>8. slot[b] \in Avoided(a, p, q, turn, land)
  <2>1. slot[b] > slot[a] /\ slot[b] \in Grid
    BY <1>2, <1>7
  <2>2. SUFFICES ASSUME slot[b] \notin Avoided(a, p, q, turn, land) PROVE FALSE
    OBVIOUS
  <2>3. land[a] <= slot[b]
    BY <1>1, <2>1, <2>2
  <2>4. land[b] > slot[b]
    BY <1>1, <1>7
  <2> QED  BY <1>2, <1>7, <2>3, <2>4
<1>9. slot[b] # Earliest(Window(p, q))
  <2>1. Earliest(Window(p, q)) <= slot[a]
    BY <1>2, <1>3
  <2>2. Earliest(Window(p, q)) \in Nat
    <3>1. Earliest(Window(p, q)) \in Window(p, q) \cup {Never} /\ Window(p, q) \subseteq Grid
      BY WindowFacts
    <3>2. Grid \subseteq Nat /\ Never \in Nat
      BY SlotQueueAssumption DEF Never
    <3> QED  BY <3>1, <3>2
  <2> QED  BY <1>2, <1>7, <2>1, <2>2
<1>10. PICK c \in Before(a, p, q, turn) : slot[b] = land[c]
  BY <1>2, <1>7, <1>8, <1>9 DEF Avoided
<1>11. c \in S /\ turn[c] < turn[a] /\ c # a
  <2>1. turn[a] \in Int
    BY DEF Turns, Bijection, Injection
  <2> QED  BY <1>10, <2>1 DEF Before
<1>12. slot[c] > slot[a]
  BY <1>2, <1>4, <1>11 DEF Alone
<1>13. slot[c] < slot[b]
  BY <1>1, <1>2, <1>10, <1>11
<1>14. land[a] < land[c]
  <2>1. c \notin Overtaking
    BY <1>2, <1>6, <1>7, <1>11, <1>13
  <2> QED  BY <1>11, <1>12, <2>1 DEF land
<1>15. land[b] > slot[b]
  BY <1>1, <1>7
<1> QED  BY <1>2, <1>7, <1>10, <1>11, <1>14, <1>15

---------------------------------------------------------------------------------
(* SlotQueue: what a placement does to the other rows. *)

Instants == {Never} \cup 1 .. Horizon

\* Rows meet after p was placed only where rows met before.
KeepsApart(times, p) ==
  \A a, b \in Posts :
    a # b /\ times[a] = times[b] /\ times[a] > now /\ (a = p \/ ~Protected(a)) /\ (b = p \/ ~Protected(b))
      => \E c, d \in Posts : c # d /\ slot[c] = times[a] /\ slot[d] = times[a] /\ ~Protected(c) /\ ~Protected(d)

\* A row put on an instant nobody else holds.
LEMMA FreeKeepsApart ==
  ASSUME TypeOK, NEW p \in Posts, NEW t \in Instants, t \notin Occupied(p)
  PROVE  KeepsApart([slot EXCEPT ![p] = t], p)
<1> DEFINE times == [slot EXCEPT ![p] = t]
<1>1. times[p] = t /\ \A r \in Posts \ {p} : times[r] = slot[r]
  BY DEF TypeOK
<1>2. \A r \in Posts \ {p} : ~Protected(r) /\ slot[r] > now => slot[r] \in Occupied(p)
  BY DEF Occupied, SlotsOf, Upcoming
<1> HIDE DEF times
<1>3. ASSUME NEW a \in Posts, NEW b \in Posts, a # b, times[a] = times[b], times[a] > now,
             a = p \/ ~Protected(a), b = p \/ ~Protected(b)
      PROVE  \E c, d \in Posts :
               c # d /\ slot[c] = times[a] /\ slot[d] = times[a] /\ ~Protected(c) /\ ~Protected(d)
  <2>1. CASE a = p
    BY <1>1, <1>2, <1>3, <2>1
  <2>2. CASE b = p
    BY <1>1, <1>2, <1>3, <2>2
  <2>3. CASE a # p /\ b # p
    BY <1>1, <1>3, <2>3
  <2> QED  BY <2>1, <2>2, <2>3
<1> QED  BY <1>3 DEF KeepsApart, times

\* The rows after p was put at the top of q, if none lost its time.
LEMMA TopsFacts ==
  ASSUME TypeOK, NEW p \in Posts, NEW q \in Queues, NEW times \in Tops(p, q),
         \A r \in Posts : times[r] = Never => r # p /\ slot[r] = Never
  PROVE  /\ times \in [Posts -> Instants]
         /\ \A r \in Posts \ {p} : r \notin Movers(p, q) => times[r] = slot[r]
         /\ \A a, b \in Movers(p, q) :
              /\ times[a] >= slot[a]
              /\ slot[a] < slot[b] /\ Alone(a, p, q) => times[a] < times[b]
         /\ KeepsApart(times, p)
<1> DEFINE first == Earliest(Window(p, q))
           S == Movers(p, q)
<1>1. Grid \subseteq Instants /\ first \in Instants /\ NextGap(p) \in Instants
      /\ NextGap(p) \notin Occupied(p)
  BY WindowFacts, GapIsFree, SlotQueueAssumption DEF Instants
<1>2. slot \in [Posts -> Instants] /\ now \in Nat
  BY DEF TypeOK, Instants
<1>3. \A a \in S : a \in Posts \ {p} /\ slot[a] \in Window(p, q) /\ slot[a] \in Occupied(p)
                   /\ ~Protected(a) /\ slot[a] \in Nat /\ slot[a] > now
  BY WindowFacts
<1>4. CASE first \notin SlotsOf(Movable(p, q))
  <2> DEFINE t == IF first \in Occupied(p) THEN NextGap(p) ELSE first
  <2>1. times = [slot EXCEPT ![p] = t]
    BY <1>4 DEF Tops
  <2>2. t \in Instants /\ t \notin Occupied(p)
    BY <1>1
  <2> HIDE DEF t
  <2>3. KeepsApart(times, p)
    BY <2>1, <2>2, FreeKeepsApart
  <2>4. \A r \in Posts \ {p} : times[r] = slot[r]
    BY <1>2, <2>1
  <2>5. times \in [Posts -> Instants]
    BY <1>2, <2>1, <2>2
  <2> QED  BY <1>3, <2>3, <2>4, <2>5
<1>5. CASE first \in SlotsOf(Movable(p, q))
  <2>1. PICK turn \in Turns(p, q) : times = Moved(p, first, Ladder(p, q, turn))
    BY <1>5 DEF Tops
  <2> DEFINE land == Ladder(p, q, turn)
  <2>2. /\ land \in [S -> {Never} \cup Grid]
        /\ \A a \in S : land[a] # Never =>
             /\ land[a] > slot[a] /\ land[a] \notin Fixed(p, q) /\ land[a] # first
             /\ \A b \in S \ {a} : land[b] # land[a]
    BY LadderFacts
  <2> HIDE DEF land
  <2>3. times = [r \in Posts |-> IF r = p THEN first ELSE IF r \in S THEN land[r] ELSE slot[r]]
    BY <2>1, <2>2 DEF Moved, land
  <2>4. times[p] = first /\ (\A a \in S : times[a] = land[a])
        /\ \A r \in Posts \ {p} : r \notin S => times[r] = slot[r]
    BY <1>3, <2>3
  <2>5. \A a \in S : land[a] # Never /\ land[a] \in Nat
    <3>1. ASSUME NEW a \in S, land[a] = Never PROVE FALSE
      <4>1. a \in Posts /\ slot[a] > now /\ times[a] = Never
        BY <1>3, <2>4, <3>1
      <4> HIDE DEF S
      <4> QED  BY <1>2, <4>1 DEF Never
    <3>2. \A a \in S : land[a] \in Grid
      BY <2>2, <3>1
    <3>3. \A t \in Grid : t \in Nat
      BY GridIsNat
    <3> HIDE DEF S
    <3> QED  BY <3>1, <3>2, <3>3
  <2>6. times \in [Posts -> Instants]
    <3>1. \A a \in S : land[a] \in Instants
      BY <1>1, <2>2 DEF Instants
    <3> HIDE DEF S, first
    <3> QED  BY <1>1, <1>2, <2>3, <3>1
  <2>7. ASSUME NEW a \in S, NEW b \in S
        PROVE  times[a] >= slot[a] /\ (slot[a] < slot[b] /\ Alone(a, p, q) => times[a] < times[b])
    <3>1. land[a] > slot[a]
      BY <2>2, <2>5
    <3>2. slot[a] < slot[b] /\ Alone(a, p, q) => land[a] < land[b]
      BY <2>5, LadderOrder DEF land
    <3> QED  BY <1>3, <2>4, <2>5, <3>1, <3>2
  <2>8. PICK m \in S : slot[m] = first
    <3>1. PICK m \in Movable(p, q) : slot[m] = first
      BY <1>5 DEF SlotsOf
    <3>2. first \in Window(p, q)
      <4>1. first # Never
        BY <3>1, <1>2 DEF Movable, Upcoming, Never
      <4> QED  BY <4>1, WindowFacts
    <3> QED  BY <3>1, <3>2 DEF Movers
  <2> DEFINE Met(t) == \E c, d \in Posts : c # d /\ slot[c] = t /\ slot[d] = t /\ ~Protected(c) /\ ~Protected(d)
  <2>9. ASSUME NEW r \in Posts \ {p}, r \notin S, ~Protected(r), slot[r] > now,
               NEW a \in S \cup {p}, times[a] = slot[r]
        PROVE  Met(slot[r])
    <3>1. slot[r] \in Occupied(p)
      BY <2>9 DEF Occupied, SlotsOf, Upcoming
    <3>2. PICK c \in S : slot[c] = slot[r]
      <4>1. CASE a = p
        BY <2>4, <2>8, <2>9, <4>1
      <4>2. CASE a \in S
        <5>1. slot[r] \notin Fixed(p, q)
          BY <2>2, <2>4, <2>5, <2>9, <4>2
        <5> QED  BY <3>1, <5>1 DEF Fixed, SlotsOf
      <4> QED  BY <2>9, <4>1, <4>2
    <3> HIDE DEF S
    <3> QED  BY <1>3, <2>9, <3>2
  <2>10. ASSUME NEW a \in Posts, NEW b \in Posts, a # b, times[a] = times[b], times[a] > now,
                a = p \/ ~Protected(a), b = p \/ ~Protected(b)
         PROVE  Met(times[a])
    <3>1. CASE a \in S \cup {p} /\ b \in S \cup {p}
      <4>1. CASE a \in S /\ b \in S
        BY <2>2, <2>4, <2>5, <2>10, <4>1
      <4>2. CASE a = p \/ b = p
        BY <2>2, <2>4, <2>5, <2>10, <3>1, <4>2
      <4> QED  BY <3>1, <4>1, <4>2
    <3>2. CASE a \in S \cup {p} /\ b \notin S \cup {p}
      <4>1. times[b] = slot[b] /\ ~Protected(b)
        BY <2>4, <2>10, <3>2
      <4> HIDE DEF Met, S
      <4> QED  BY <2>9, <2>10, <3>2, <4>1
    <3>3. CASE a \notin S \cup {p} /\ b \in S \cup {p}
      <4>1. times[a] = slot[a] /\ ~Protected(a)
        BY <2>4, <2>10, <3>3
      <4> HIDE DEF Met, S
      <4> QED  BY <2>9, <2>10, <3>3, <4>1
    <3>4. CASE a \notin S \cup {p} /\ b \notin S \cup {p}
      <4>1. times[a] = slot[a] /\ times[b] = slot[b] /\ ~Protected(a) /\ ~Protected(b)
        BY <2>4, <2>10, <3>4
      <4> QED  BY <2>10, <4>1
    <3> QED  BY <3>1, <3>2, <3>3, <3>4
  <2>11. KeepsApart(times, p)
    BY <2>10 DEF KeepsApart
  <2>12. \A a, b \in S :
           times[a] >= slot[a] /\ (slot[a] < slot[b] /\ Alone(a, p, q) => times[a] < times[b])
    BY <2>7
  <2>13. \A r \in Posts \ {p} : r \notin S => times[r] = slot[r]
    BY <2>4
  <2> QED  BY <2>6, <2>11, <2>12, <2>13
<1> QED  BY <1>4, <1>5

---------------------------------------------------------------------------------
(* SlotQueue: the steps. *)

\* A row that is being published was due.
PublishingIsPast == \A p \in Posts : status[p] = "publishing" => slot[p] \in 1 .. now

SlotInv == TypeOK /\ PublishingIsPast

\* A slot operation that books.
Books == Timeless' \subseteq Timeless /\ Clashes' \subseteq Clashes

LEMMA PromoteFacts ==
  ASSUME TypeOK, NEW p \in Posts, Promote(p)
  PROVE  /\ status' \in [Posts -> Status]
         /\ \A r \in Posts \ {p} : status'[r] = status[r]
         /\ status'[p] # "publishing" /\ (status[p] = "published" => status'[p] = "published")
<1>1. status' = [status EXCEPT ![p] = IF CanTransition(@, "scheduled") \/ CanTransition(@, "draft")
                                        THEN "scheduled" ELSE @]
  BY DEF Promote
<1>2. "scheduled" \in ValidTransitions["publishing"] /\ ValidTransitions["published"] = {}
  BY DEF ValidTransitions, Status
<1>3. "scheduled" \in Status /\ status \in [Posts -> Status]
  BY DEF Status, TypeOK
<1> QED  BY <1>1, <1>2, <1>3 DEF CanTransition

LEMMA PlaceKeeps ==
  ASSUME SlotInv, NEW p \in Posts, NEW q \in Queues, NEW times, Place(p, q, times),
         times \in [Posts -> Instants], KeepsApart(times, p),
         \A r \in Posts \ {p} : times[r] # slot[r] => ~Protected(r),
         status' \in [Posts -> Status], \A r \in Posts \ {p} : status'[r] = status[r],
         status'[p] # "publishing"
  PROVE  SlotInv' /\ Books
<1>1. slot' = times /\ now' = now /\ entries' \in [Queues -> SUBSET Posts]
  BY DEF Place, SlotInv, TypeOK
<1>2. TypeOK'
  BY <1>1 DEF TypeOK, SlotInv, Instants
<1>3. PublishingIsPast'
  BY <1>1 DEF SlotInv, PublishingIsPast, Protected, ProtectedStatuses
<1>4. Timeless' \subseteq Timeless
  BY <1>1 DEF Timeless, Place
<1>5. \A r \in Posts \ {p} : Protected(r)' <=> Protected(r)
  BY DEF Protected
<1>6. ASSUME NEW t \in Clashes' PROVE t \in Clashes
  <2>1. t \in now + 1 .. Horizon
    BY <1>1, <1>6 DEF Clashes
  <2>2. PICK a \in Posts, b \in Posts : a # b /\ times[a] = t /\ times[b] = t /\ ~Protected(a)' /\ ~Protected(b)'
    BY <1>1, <1>6 DEF Clashes
  <2>3. times[a] > now
    BY <2>1, <2>2 DEF SlotInv, TypeOK
  <2>4. \E c, d \in Posts : c # d /\ slot[c] = t /\ slot[d] = t /\ ~Protected(c) /\ ~Protected(d)
    BY <1>5, <2>2, <2>3 DEF KeepsApart
  <2> QED  BY <2>1, <2>4 DEF Clashes
<1> QED  BY <1>2, <1>3, <1>4, <1>6 DEF SlotInv, Books

\* A row that goes to the next gap, whatever becomes of its status.
LEMMA GapKeeps ==
  ASSUME SlotInv, NEW p \in Posts, NEW q \in Queues, Place(p, q, [slot EXCEPT ![p] = NextGap(p)]),
         status' \in [Posts -> Status], \A r \in Posts \ {p} : status'[r] = status[r],
         status'[p] # "publishing"
  PROVE  SlotInv' /\ Books
<1> DEFINE times == [slot EXCEPT ![p] = NextGap(p)]
<1>1. NextGap(p) \in Instants /\ NextGap(p) \notin Occupied(p)
  BY GapIsFree, SlotQueueAssumption DEF Instants, SlotInv
<1>2. KeepsApart(times, p)
  BY <1>1, FreeKeepsApart DEF SlotInv
<1>3. times \in [Posts -> Instants] /\ \A r \in Posts \ {p} : times[r] = slot[r]
  BY <1>1 DEF SlotInv, TypeOK, Instants
<1>4. \A r \in Posts \ {p} : times[r] # slot[r] => ~Protected(r)
  BY <1>3
<1> QED  BY <1>2, <1>3, <1>4, PlaceKeeps

LEMMA AddToQueueKeeps ==
  ASSUME SlotInv, NEW p \in Posts, NEW q \in Queues, AddToQueue(p, q)
  PROVE  SlotInv' /\ Books
<1>1. /\ status' \in [Posts -> Status]
      /\ \A r \in Posts \ {p} : status'[r] = status[r]
      /\ status'[p] # "publishing" /\ (status[p] = "published" => status'[p] = "published")
  BY PromoteFacts DEF AddToQueue, SlotInv
<1>2. CASE ~Protected(p)
  BY <1>1, <1>2, GapKeeps DEF AddToQueue
<1>3. CASE Protected(p)
  <2>1. UNCHANGED <<slot, entries, now>>
    BY <1>3 DEF AddToQueue
  <2>2. SlotInv'
    BY <1>1, <2>1 DEF SlotInv, TypeOK, PublishingIsPast
  <2>3. status[p] = "published" \/ slot[p] \in 1 .. now
    BY <1>3 DEF Protected, ProtectedStatuses, SlotInv, PublishingIsPast
  <2>4. Timeless' \subseteq Timeless
    BY <1>1, <2>1, <2>3 DEF Timeless, Never
  <2>5. ASSUME NEW t \in Clashes' PROVE t \in Clashes
    <3>1. t \in now + 1 .. Horizon /\ now \in Nat
      BY <2>1, <2>5 DEF Clashes, SlotInv, TypeOK
    <3>2. PICK a \in Posts, b \in Posts :
            a # b /\ slot[a] = t /\ slot[b] = t /\ ~Protected(a)' /\ ~Protected(b)'
      BY <2>1, <2>5 DEF Clashes
    <3>3. a # p /\ b # p
      BY <1>1, <2>3, <3>1, <3>2 DEF Protected, ProtectedStatuses
    <3>4. ~Protected(a) /\ ~Protected(b)
      BY <1>1, <3>2, <3>3 DEF Protected
    <3> QED  BY <3>1, <3>2, <3>4 DEF Clashes
  <2> QED  BY <2>2, <2>4, <2>5 DEF Books
<1> QED  BY <1>2, <1>3

LEMMA ReslotKeeps ==
  ASSUME SlotInv, NEW p \in Posts, NEW q \in Queues, Reslot(p, q)
  PROVE  SlotInv' /\ Books
<1>1. status' = status /\ status[p] # "publishing"
  BY DEF Reslot, Protected, ProtectedStatuses
<1> QED  BY <1>1, GapKeeps DEF Reslot, SlotInv, TypeOK

LEMMA PrioritizeKeeps ==
  ASSUME SlotInv, NEW p \in Posts, NEW q \in Queues, Prioritize(p, q)
  PROVE  SlotInv' /\ Books
<1>1. PICK times \in Tops(p, q) : Place(p, q, times)
  BY DEF Prioritize
<1>2. times \in [Posts -> Instants] /\ KeepsApart(times, p)
      /\ \A r \in Posts \ {p} : r \notin Movers(p, q) => times[r] = slot[r]
  BY <1>1, TopsFacts DEF Place, SlotInv
<1>3. \A r \in Posts \ {p} : times[r] # slot[r] => ~Protected(r)
  BY <1>2 DEF Movers, Movable
<1>4. /\ status' \in [Posts -> Status]
      /\ \A r \in Posts \ {p} : status'[r] = status[r]
      /\ status'[p] # "publishing"
  BY PromoteFacts DEF Prioritize, SlotInv
<1> QED  BY <1>1, <1>2, <1>3, <1>4, PlaceKeeps

LEMMA ReorderKeeps ==
  ASSUME SlotInv, NEW q \in Queues, Reorder(q)
  PROVE  SlotInv' /\ Books
<1> DEFINE kept == {p \in entries[q] : slot[p] # Never /\ ~Protected(p)}
<1>1. PICK from \in Bijection(kept, kept) :
        /\ slot' = [p \in Posts |-> IF p \in kept THEN slot[from[p]] ELSE slot[p]]
        /\ UNCHANGED <<status, entries, now>>
  BY DEF Reorder
<1>2. /\ \A a \in kept : from[a] \in kept
      /\ \A a, b \in kept : a # b => from[a] # from[b]
  BY DEF Bijection, Injection, IsInjective
<1>3. kept \subseteq Posts
  BY DEF SlotInv, TypeOK
<1>4. \A p \in Posts : slot'[p] = IF p \in kept THEN slot[from[p]] ELSE slot[p]
  BY <1>1
<1>5. \A p \in kept : slot[p] # Never /\ ~Protected(p)
  OBVIOUS
<1> HIDE DEF kept
<1>6. TypeOK'
  BY <1>1, <1>2, <1>3 DEF SlotInv, TypeOK
<1>7. PublishingIsPast'
  BY <1>1, <1>4, <1>5 DEF SlotInv, PublishingIsPast, Protected, ProtectedStatuses
<1>8. Timeless' \subseteq Timeless
  BY <1>1, <1>2, <1>4, <1>5 DEF Timeless
<1>9. ASSUME NEW t \in Clashes' PROVE t \in Clashes
  <2>1. t \in now + 1 .. Horizon
    BY <1>1, <1>9 DEF Clashes
  <2>2. PICK a \in Posts, b \in Posts :
          a # b /\ slot'[a] = t /\ slot'[b] = t /\ ~Protected(a) /\ ~Protected(b)
    BY <1>1, <1>9 DEF Clashes, Protected
  <2> DEFINE Was(r) == IF r \in kept THEN from[r] ELSE r
  <2>3. Was(a) \in Posts /\ Was(b) \in Posts /\ Was(a) # Was(b)
    BY <1>2, <1>3, <2>2
  <2>4. slot[Was(a)] = t /\ slot[Was(b)] = t /\ ~Protected(Was(a)) /\ ~Protected(Was(b))
    BY <1>2, <1>4, <1>5, <2>2
  <2> QED  BY <2>1, <2>3, <2>4 DEF Clashes
<1> QED  BY <1>6, <1>7, <1>8, <1>9 DEF SlotInv, Books

\* A row that goes back to draft frees its instant.
LEMMA ToDraftKeeps ==
  ASSUME SlotInv, NEW p \in Posts, ToDraft(p), now' = now, ~Protected(p)
  PROVE  SlotInv' /\ Books
<1>1. /\ \A r \in Posts \ {p} : status'[r] = status[r] /\ slot'[r] = slot[r]
      /\ status'[p] = "draft" /\ slot'[p] = Never
  BY DEF ToDraft, SlotInv, TypeOK
<1>2. SlotInv'
  <2>1. TypeOK'
    BY DEF ToDraft, SlotInv, TypeOK, Status
  <2> QED  BY <1>1, <2>1 DEF SlotInv, PublishingIsPast
<1>3. Timeless' \subseteq Timeless
  BY <1>1 DEF Timeless
<1>4. Clashes' \subseteq Clashes
  <2>1. \A t \in now + 1 .. Horizon : t # Never
    BY DEF Never, SlotInv, TypeOK
  <2> QED  BY <1>1, <2>1 DEF Clashes, Protected
<1> QED  BY <1>2, <1>3, <1>4 DEF Books

LEMMA RemoveEntryKeeps ==
  ASSUME SlotInv, NEW p \in Posts, NEW q \in Queues, RemoveEntry(p, q)
  PROVE  SlotInv' /\ Books
<1>1. CASE ToDraft(p) /\ ~Protected(p)
  BY <1>1, ToDraftKeeps DEF RemoveEntry
<1>2. CASE entries' = [entries EXCEPT ![q] = @ \ {p}] /\ UNCHANGED <<status, slot>>
  <2>1. SlotInv'
    BY <1>2 DEF RemoveEntry, SlotInv, TypeOK, PublishingIsPast
  <2>2. Timeless' = Timeless /\ Clashes' = Clashes
    BY <1>2 DEF RemoveEntry, Timeless, Clashes, Protected
  <2> QED  BY <2>1, <2>2 DEF Books
<1> QED  BY <1>1, <1>2 DEF RemoveEntry

LEMMA SlotOperationKeeps ==
  ASSUME SlotInv, SlotOperation
  PROVE  SlotInv' /\ Books
<1>1. PICK q \in Queues :
        \/ Reorder(q)
        \/ \E p \in Posts : AddToQueue(p, q) \/ Prioritize(p, q) \/ Reslot(p, q) \/ RemoveEntry(p, q)
  BY DEF SlotOperation
<1> QED  BY <1>1, ReorderKeeps, AddToQueueKeeps, PrioritizeKeeps, ReslotKeeps, RemoveEntryKeeps

LEMMA UnlockedKeeps ==
  ASSUME SlotInv, Unlocked
  PROVE  SlotInv'
<1>1. PICK p \in Posts :
        \/ \E t \in now + 1 .. Horizon : Drag(p, t)
        \/ BulkDraft(p) \/ ChipSchedule(p) \/ Claim(p) \/ Publish(p) \/ Fail(p)
  BY DEF Unlocked
<1>2. CASE \E t \in now + 1 .. Horizon : Drag(p, t)
  <2>1. PICK t \in now + 1 .. Horizon : Drag(p, t)
    BY <1>2
  <2>2. t \in 1 .. Horizon
    BY SlotQueueAssumption DEF SlotInv, TypeOK
  <2>3. status' \in [Posts -> Status] /\ status'[p] # "publishing" /\ now' = now
        /\ \A r \in Posts \ {p} : status'[r] = status[r] /\ slot'[r] = slot[r]
    BY <2>1 DEF Drag, SlotInv, TypeOK, Status, ReschedulableStatuses, ImplicitScheduleStatuses
  <2>4. TypeOK'
    BY <2>1, <2>2, <2>3 DEF Drag, SlotInv, TypeOK
  <2> QED  BY <2>3, <2>4 DEF SlotInv, PublishingIsPast
<1>3. CASE BulkDraft(p)
  BY <1>3, ToDraftKeeps DEF BulkDraft
<1>4. CASE ChipSchedule(p)
  BY <1>4 DEF ChipSchedule, SlotInv, TypeOK, Status, PublishingIsPast
<1>5. CASE Claim(p)
  BY <1>5 DEF Claim, SlotInv, TypeOK, Status, PublishingIsPast
<1>6. CASE Publish(p)
  BY <1>6 DEF Publish, SlotInv, TypeOK, Status, PublishingIsPast
<1>7. CASE Fail(p)
  BY <1>7 DEF Fail, SlotInv, TypeOK, Status, PublishingIsPast
<1> QED  BY <1>1, <1>2, <1>3, <1>4, <1>5, <1>6, <1>7

LEMMA SlotsStart == Init => SlotInv
<1> SUFFICES ASSUME Init PROVE SlotInv
  OBVIOUS
<1>1. TypeOK
  BY SlotQueueAssumption DEF Init, TypeOK, Status
<1> QED  BY <1>1 DEF Init, SlotInv, PublishingIsPast

LEMMA SlotsStep == SlotInv /\ [Next]_vars => SlotInv'
<1> SUFFICES ASSUME SlotInv, [Next]_vars PROVE SlotInv'
  OBVIOUS
<1>1. CASE Tick
  <2>1. now + 1 \in 0 .. Horizon /\ \A t \in 1 .. now : t \in 1 .. now + 1
    BY <1>1, SlotQueueAssumption DEF Tick, SlotInv, TypeOK
  <2> QED  BY <1>1, <2>1 DEF Tick, SlotInv, TypeOK, PublishingIsPast
<1>2. CASE UNCHANGED vars
  BY <1>2 DEF vars, SlotInv, TypeOK, PublishingIsPast
<1> QED  BY <1>1, <1>2, SlotOperationKeeps, UnlockedKeeps DEF Next

LEMMA SlotsKeepInv == Spec => []SlotInv
BY SlotsStart, SlotsStep, PTL DEF Spec

\* Every row, slot, entry and instant stays in its type.
THEOREM SlotTypes == Spec => []TypeOK
<1>1. SlotInv => TypeOK
  BY DEF SlotInv
<1> QED  BY <1>1, SlotsKeepInv, PTL

\* For any posts, queues and posting slots, the bounded search for a slot finds
\* the first free one whenever there is one.
THEOREM FirstGap == Spec => []FirstGapIsFound
<1>1. SlotInv => FirstGapIsFound
  BY GapIsFirst DEF SlotInv, FirstGapIsFound
<1> QED  BY <1>1, SlotsKeepInv, PTL

LEMMA LadderKeepsOrder == SlotInv => MoversKeepOrder
<1> SUFFICES ASSUME SlotInv, NEW p \in Posts, NEW q \in Queues, Prioritize(p, q),
                    NEW a \in Movers(p, q), NEW b \in Movers(p, q)
             PROVE  /\ slot'[a] >= slot[a]
                    /\ slot[a] < slot[b] /\ Alone(a, p, q) => slot'[a] < slot'[b]
  BY DEF MoversKeepOrder
<1>1. PICK times \in Tops(p, q) : Place(p, q, times)
  BY DEF Prioritize
<1> QED  BY <1>1, TopsFacts DEF Place, SlotInv

LEMMA HistoryStays == SlotInv /\ Next => NeighboursKeepHistory
<1> SUFFICES ASSUME SlotInv, Next, NEW r \in Posts, Protected(r), slot'[r] # slot[r]
             PROVE  \E q \in Queues : Prioritize(r, q)
  BY DEF NeighboursKeepHistory
<1>1. slot \in [Posts -> {Never} \cup 1 .. Horizon] /\ entries \in [Queues -> SUBSET Posts]
  BY DEF SlotInv, TypeOK
<1>2. ASSUME NEW p \in Posts, NEW q \in Queues, Prioritize(p, q) PROVE r = p
  <2>1. PICK times \in Tops(p, q) : Place(p, q, times)
    BY <1>2 DEF Prioritize
  <2>2. \A s \in Posts \ {p} : s \notin Movers(p, q) => slot'[s] = slot[s]
    BY <2>1, TopsFacts DEF Place, SlotInv
  <2>3. r \notin Movers(p, q)
    BY DEF Movers, Movable
  <2> QED  BY <2>2, <2>3
<1>3. ASSUME NEW p \in Posts, NEW q \in Queues,
             AddToQueue(p, q) \/ Reslot(p, q) \/ RemoveEntry(p, q)
      PROVE  FALSE
  BY <1>1, <1>3 DEF AddToQueue, Reslot, RemoveEntry, ToDraft, Place
<1>4. ASSUME NEW q \in Queues, Reorder(q) PROVE FALSE
  <2>1. r \notin {p \in entries[q] : slot[p] # Never /\ ~Protected(p)}
    OBVIOUS
  <2> QED  BY <1>4, <2>1 DEF Reorder
<1>5. CASE Unlocked
  <2>1. status[r] \notin ReschedulableStatuses
    BY DEF Protected, ProtectedStatuses, ReschedulableStatuses
  <2> QED  BY <1>1, <1>5, <2>1
             DEF Unlocked, Drag, BulkDraft, ToDraft, ChipSchedule, Claim, Publish, Fail
<1>6. CASE SlotOperation
  BY <1>2, <1>3, <1>4, <1>6 DEF SlotOperation
<1>7. ~Tick
  BY DEF Tick
<1> QED  BY <1>5, <1>6, <1>7 DEF Next

\* Whatever the queues, their posting slots and the rows dragged by hand: a slot
\* operation leaves no row scheduled without a time of its own and brings no two
\* rows together, rows that make way keep their order, and history stays.
THEOREM SlotsKept == Spec => SlotsAreKept
<1>1. SlotInv /\ [Next]_vars => [OperationsBook /\ MoversKeepOrder /\ NeighboursKeepHistory]_vars
  <2>1. SlotInv /\ Next => OperationsBook
    BY SlotOperationKeeps DEF OperationsBook, Books
  <2> QED  BY <2>1, LadderKeepsOrder, HistoryStays
<1> QED  BY <1>1, SlotsKeepInv, PTL DEF Spec, SlotsAreKept

\* What is left of "every other occupied queue entry shifts one slot later": where
\* no two rows share an instant, the entries within the window keep their order.
THEOREM OrderInWindow ==
  Spec => [][Clashes = {} =>
               \A p \in Posts, q \in Queues :
                 \A a, b \in Movers(p, q) :
                   slot[a] < slot[b] => slot'[a] < slot'[b] \/ ~Prioritize(p, q)]_vars
<1> DEFINE InOrder ==
      Clashes = {} =>
        \A p \in Posts, q \in Queues :
          \A a, b \in Movers(p, q) :
            slot[a] < slot[b] => slot'[a] < slot'[b] \/ ~Prioritize(p, q)
<1>1. ASSUME SlotInv, Clashes = {}, NEW p \in Posts, NEW q \in Queues, NEW a \in Movers(p, q)
      PROVE  Alone(a, p, q)
  <2>1. SUFFICES ASSUME NEW b \in Movers(p, q) \ {a}, slot[b] = slot[a] PROVE FALSE
    BY DEF Alone
  <2>2. \A r \in {a, b} : r \in Posts /\ ~Protected(r)
    BY <1>1, WindowFacts DEF SlotInv
  <2>3. slot[a] \in now + 1 .. Horizon
    BY <1>1, WindowFacts DEF SlotInv
  <2> QED  BY <1>1, <2>1, <2>2, <2>3 DEF Clashes
<1>2. SlotInv /\ [Next]_vars => [InOrder]_vars
  BY <1>1, LadderKeepsOrder DEF MoversKeepOrder
<1>3. Spec => [][InOrder]_vars
  BY <1>2, SlotsKeepInv, PTL DEF Spec
<1> QED  BY <1>3

---------------------------------------------------------------------------------
(* PlatformCalls: the plans. *)

Requests ==
  [does : {"ask", "stage", "wait", "publish"}, of : Media, strict : BOOLEAN, final : BOOLEAN]

\* Requests before anything is up.
Preludes == {r \in Requests : r.does # "publish"}

\* A request whose failure is ignored.
Quiet(r) == r.does = "ask" /\ ~r.strict /\ ~r.final

\* After the post is up, a plan only asks, and lets nothing that fails matter.
WellMade(plan) ==
  /\ plan \in Seq(Requests)
  /\ Len(plan) > 0
  /\ \A i, j \in 1 .. Len(plan) : plan[i].does = "publish" /\ i < j => Quiet(plan[j])

\* The parts of a sequence of sequences put together.
LEMMA FlattenTyped ==
  ASSUME NEW S, NEW n \in Nat \ {0}, NEW parts \in [1 .. n -> Seq(S)]
  PROVE  FlattenSeq(parts) \in Seq(S)
<1> DEFINE D == 1 .. n
           Joins(g, i) == g[i] = IF i = 1 THEN parts[i] ELSE g[i - 1] \o parts[i]
           T == {k \in Nat : \E g \in [D -> Seq(S)] : \A i \in D : i <= k => Joins(g, i)}
<1>1. 0 \in T
  <2>1. parts \in [D -> Seq(S)] /\ \A i \in D : ~(i <= 0)
    OBVIOUS
  <2> QED  BY <2>1
<1>2. ASSUME NEW k \in 0 .. n - 1, k \in T PROVE k + 1 \in T
  <2>1. PICK g \in [D -> Seq(S)] : \A i \in D : i <= k => Joins(g, i)
    BY <1>2
  <2> DEFINE h == [i \in D |-> IF i <= k THEN g[i]
                               ELSE IF i = 1 THEN parts[i] ELSE g[i - 1] \o parts[i]]
  <2>2. h \in [D -> Seq(S)]
    <3>1. \A i \in D : i # 1 => g[i - 1] \in Seq(S)
      OBVIOUS
    <3>2. \A i \in D : i # 1 => g[i - 1] \o parts[i] \in Seq(S)
      BY <3>1, ConcatProperties
    <3> QED  BY <3>2
  <2>3. ASSUME NEW i \in D, i <= k + 1 PROVE Joins(h, i)
    <3>1. CASE i <= k
      <4>1. i # 1 => h[i - 1] = g[i - 1]
        BY <3>1
      <4> QED  BY <2>1, <3>1, <4>1
    <3>2. CASE i = k + 1
      <4>1. i # 1 => h[i - 1] = g[i - 1]
        BY <3>2
      <4>2. h[i] = IF i = 1 THEN parts[i] ELSE g[i - 1] \o parts[i]
        BY <3>2
      <4> QED  BY <4>1, <4>2
    <3> QED  BY <2>3, <3>1, <3>2
  <2>4. \E f \in [D -> Seq(S)] : \A i \in D : i <= k + 1 => Joins(f, i)
    <3> HIDE DEF h, Joins, D
    <3> QED  BY <2>2, <2>3
  <2>5. k + 1 \in Nat
    OBVIOUS
  <2> HIDE DEF Joins, D
  <2> QED  BY <2>4, <2>5
<1>3. n \in T
  <2>1. 0 .. n \subseteq T
    <3> HIDE DEF T
    <3> QED  BY <1>1, <1>2, UpTo
  <2> HIDE DEF T
  <2> QED  BY <2>1
<1>4. PICK g \in [D -> Seq(S)] : \A i \in D : Joins(g, i)
  BY <1>3
<1>5. g = [i \in 1 .. n |-> IF i = 1 THEN parts[i] ELSE g[i - 1] \o parts[i]]
  BY <1>4
<1> DEFINE f == CHOOSE f : f = [i \in 1 .. n |-> IF i = 1 THEN parts[i] ELSE f[i - 1] \o parts[i]]
<1>6. f = [i \in 1 .. n |-> IF i = 1 THEN parts[i] ELSE f[i - 1] \o parts[i]]
  BY <1>5
<1>7. \A i \in D : Joins(f, i)
  <2> HIDE DEF f
  <2> QED  BY <1>6
<1>8. n \in {k \in Nat : \A i \in D : i <= k => f[i] \in Seq(S)}
  <2> DEFINE U == {k \in Nat : \A i \in D : i <= k => f[i] \in Seq(S)}
  <2> HIDE DEF f
  <2>1. 0 \in U
    OBVIOUS
  <2>2. ASSUME NEW k \in 0 .. n - 1, k \in U PROVE k + 1 \in U
    <3>1. ASSUME NEW i \in D, i <= k + 1 PROVE f[i] \in Seq(S)
      <4>1. CASE i <= k
        BY <2>2, <4>1
      <4>2. CASE i = k + 1 /\ i = 1
        BY <1>7, <4>2
      <4>3. CASE i = k + 1 /\ i # 1
        <5>1. i - 1 \in D /\ i - 1 <= k
          BY <4>3
        <5>2. f[i - 1] \in Seq(S)
          BY <2>2, <5>1
        <5>3. f[i] = f[i - 1] \o parts[i]
          BY <1>7, <4>3
        <5>4. parts[i] \in Seq(S)
          OBVIOUS
        <5> QED  BY <5>2, <5>3, <5>4, ConcatProperties
      <4> QED  BY <3>1, <4>1, <4>2, <4>3
    <3> QED  BY <2>2, <3>1
  <2>3. 0 .. n \subseteq U
    <3> HIDE DEF U
    <3> QED  BY <2>1, <2>2, UpTo
  <2>4. n \in U
    <3> HIDE DEF U
    <3> QED  BY <2>3
  <2> QED  BY <2>4
<1>9. Len(parts) = n
  OBVIOUS
<1>10. FlattenSeq(parts) = f[n]
  <2>1. FlattenSeq(parts) =
          (CHOOSE f_1 : f_1 = [i \in 1 .. Len(parts) |-> IF i = 1 THEN parts[i] ELSE f_1[i - 1] \o parts[i]])[Len(parts)]
    BY <1>9 DEF FlattenSeq
  <2> QED  BY <1>9, <2>1
<1>11. f[n] \in Seq(S)
  <2>1. n \in D /\ n <= n
    OBVIOUS
  <2> HIDE DEF f
  <2> QED  BY <1>8, <2>1
<1> QED  BY <1>10, <1>11

LEMMA PreludeFirst ==
  ASSUME NEW s \in Seq(Preludes), NEW plan, WellMade(plan)
  PROVE  WellMade(s \o plan)
<1>1. s \in Seq(Requests) /\ plan \in Seq(Requests)
  BY SeqMonotonic DEF WellMade, Preludes
<1>2. /\ s \o plan \in Seq(Requests)
      /\ Len(s \o plan) = Len(s) + Len(plan)
      /\ \A i \in 1 .. Len(s) + Len(plan) :
           (s \o plan)[i] = IF i <= Len(s) THEN s[i] ELSE plan[i - Len(s)]
  BY <1>1, ConcatProperties
<1>3. Len(s) \in Nat /\ Len(plan) \in Nat /\ \A i \in 1 .. Len(s) : s[i].does # "publish"
  BY <1>1, LenProperties, ElementOfSeq DEF Preludes
<1>4. ASSUME NEW i \in 1 .. Len(s) + Len(plan), NEW j \in 1 .. Len(s) + Len(plan),
             (s \o plan)[i].does = "publish", i < j
      PROVE  Quiet((s \o plan)[j])
  <2>1. i > Len(s) /\ j > Len(s)
    BY <1>2, <1>3, <1>4
  <2>2. i - Len(s) \in 1 .. Len(plan) /\ j - Len(s) \in 1 .. Len(plan) /\ i - Len(s) < j - Len(s)
    BY <1>3, <1>4, <2>1
  <2>3. plan[i - Len(s)].does = "publish" /\ (s \o plan)[j] = plan[j - Len(s)]
    BY <1>2, <1>3, <1>4, <2>1
  <2> QED  BY <2>2, <2>3 DEF WellMade
<1> QED  BY <1>2, <1>3, <1>4 DEF WellMade

\* The media before the rest.
LEMMA MediaFirst ==
  /\ \A m \in 1 .. Photos : /\ Stage(m) \in Preludes
                            /\ Request("stage", m, FALSE, FALSE) \in Preludes
  /\ Ask \in Preludes /\ Tell \in Preludes /\ Wait \in Preludes
  /\ Stage(0) \in Preludes /\ Stage(1) \in Preludes /\ TikTokCheck \in Preludes
  /\ PublishForId \in Requests /\ PublishAnyhow \in Requests /\ 0 \in Media /\ 1 \in Media
  /\ Preludes \subseteq Requests
BY PlatformAssumption
   DEF Stage, Ask, Tell, Wait, TikTokCheck, PublishForId, PublishAnyhow, Request, Preludes, Requests, Media

LEMMA ShortSequences ==
  ASSUME NEW S, NEW x \in S, NEW y \in S
  PROVE  <<x>> \in Seq(S) /\ <<x, y>> \in Seq(S)
OBVIOUS

\* What every medium is asked for, before anything is up.
LEMMA EachPrelude ==
  ASSUME NEW parts, parts \in [1 .. Photos -> Seq(Preludes)]
  PROVE  FlattenSeq(parts) \in Seq(Preludes)
BY FlattenTyped, PlatformAssumption

LEMMA PlainPlans ==
  /\ WellMade(FacebookFeed) /\ WellMade(FacebookPhoto) /\ WellMade(FacebookVideo)
  /\ WellMade(InstagramSingle) /\ WellMade(InstagramLoginSingle)
  /\ WellMade(ThreadsText) /\ WellMade(ThreadsMedia)
  /\ WellMade(LinkedInText) /\ WellMade(LinkedInImage) /\ WellMade(LinkedInVideo)
  /\ WellMade(YouTubeVideo) /\ WellMade(TikTokUpload) /\ WellMade(TikTokPull)
  /\ WellMade(PinterestImage) /\ WellMade(PinterestVideo)
  /\ WellMade(GoogleBusinessPost) /\ WellMade(DevToArticle)
<1> USE PlatformAssumption DEF Quiet, Request, Requests, Media, WellMade
<1>1. WellMade(FacebookFeed) /\ WellMade(FacebookPhoto) /\ WellMade(FacebookVideo)
  BY DEF FacebookFeed, FacebookPhoto, FacebookVideo, PublishForId, Tell
<1>2. WellMade(InstagramSingle) /\ WellMade(InstagramLoginSingle)
  BY DEF InstagramSingle, InstagramLoginSingle, Stage, Wait, PublishAnyhow
<1>3. WellMade(ThreadsText) /\ WellMade(ThreadsMedia)
  BY DEF ThreadsText, ThreadsMedia, Ask, Stage, Wait, PublishAnyhow
<1>4. WellMade(LinkedInText) /\ WellMade(LinkedInImage)
  BY DEF LinkedInText, LinkedInImage, Ask, Stage, PublishAnyhow
<1>5. WellMade(LinkedInVideo)
  BY DEF LinkedInVideo, Ask, Stage, Wait, PublishAnyhow
<1>6. WellMade(YouTubeVideo)
  BY DEF YouTubeVideo, Ask, Tell, PublishAnyhow
<1>7. WellMade(TikTokUpload) /\ WellMade(TikTokPull)
  BY DEF TikTokUpload, TikTokPull, TikTokCheck, PublishAnyhow
<1>8. WellMade(PinterestImage) /\ WellMade(PinterestVideo)
  BY DEF PinterestImage, PinterestVideo, Ask, PublishAnyhow
<1>9. WellMade(GoogleBusinessPost) /\ WellMade(DevToArticle)
  BY DEF GoogleBusinessPost, DevToArticle, Ask, PublishAnyhow, PublishForId
<1> QED  BY <1>1, <1>2, <1>3, <1>4, <1>5, <1>6, <1>7, <1>8, <1>9

\* The plans with a request, or two, for every medium.
LEMMA MediaPlans ==
  /\ WellMade(FacebookPhotos) /\ WellMade(MastodonStatus)
  /\ WellMade(InstagramCarousel) /\ WellMade(InstagramLoginCarousel)
  /\ WellMade(ThreadsCarousel) /\ WellMade(BlueskyPost)
<1>1. WellMade(<<PublishForId>>) /\ WellMade(<<PublishAnyhow>>)
  BY PlainPlans DEF FacebookFeed, PinterestImage
<1>2. WellMade(<<Stage(0), Wait, PublishAnyhow>>)
  BY PlatformAssumption
     DEF WellMade, Quiet, Request, Requests, Media, Stage, Wait, PublishAnyhow
<1>3. /\ \A m \in 1 .. Photos : <<Stage(m)>> \in Seq(Preludes) /\ <<Stage(m), Wait>> \in Seq(Preludes)
      /\ \A m \in 1 .. Photos : <<Request("stage", m, FALSE, FALSE)>> \in Seq(Preludes)
      /\ <<Ask>> \in Seq(Preludes) /\ <<Ask, Tell>> \in Seq(Preludes)
  BY MediaFirst, ShortSequences
<1>4. WellMade(FacebookPhotos) /\ WellMade(MastodonStatus)
  <2> DEFINE parts == [m \in 1 .. Photos |-> <<Stage(m)>>]
  <2>1. parts \in [1 .. Photos -> Seq(Preludes)]
    BY <1>3
  <2>2. WellMade(FlattenSeq(parts) \o <<PublishForId>>)
    <3> HIDE DEF parts
    <3> QED  BY <1>1, <2>1, EachPrelude, PreludeFirst
  <2> QED  BY <2>2 DEF FacebookPhotos, MastodonStatus, ForEach
<1>5. WellMade(InstagramCarousel)
  <2> DEFINE parts == [m \in 1 .. Photos |-> <<Stage(m), Wait>>]
  <2>1. parts \in [1 .. Photos -> Seq(Preludes)]
    BY <1>3
  <2>2. WellMade(FlattenSeq(parts) \o <<Stage(0), Wait, PublishAnyhow>>)
    <3> HIDE DEF parts
    <3> QED  BY <1>2, <2>1, EachPrelude, PreludeFirst
  <2> QED  BY <2>2 DEF InstagramCarousel, ForEach
<1>6. WellMade(ThreadsCarousel)
  <2> DEFINE parts == [m \in 1 .. Photos |-> IF m \in Videos THEN <<Stage(m), Wait>> ELSE <<Stage(m)>>]
  <2>1. parts \in [1 .. Photos -> Seq(Preludes)]
    BY <1>3
  <2>2. <<Ask>> \o FlattenSeq(parts) \in Seq(Preludes)
    <3> HIDE DEF parts
    <3> QED  BY <1>3, <2>1, EachPrelude, ConcatProperties
  <2>3. WellMade(<<Ask>> \o FlattenSeq(parts) \o <<Stage(0), Wait, PublishAnyhow>>)
    <3> HIDE DEF parts
    <3> QED  BY <1>2, <2>2, PreludeFirst
  <2> QED  BY <2>3 DEF ThreadsCarousel, ForEach
<1>7. WellMade(BlueskyPost)
  <2> DEFINE parts == [m \in 1 .. Photos |-> <<Request("stage", m, FALSE, FALSE)>>]
  <2>1. parts \in [1 .. Photos -> Seq(Preludes)]
    BY <1>3
  <2>2. <<Ask, Tell>> \o FlattenSeq(parts) \in Seq(Preludes)
    <3> HIDE DEF parts
    <3> QED  BY <1>3, <2>1, EachPrelude, ConcatProperties
  <2>3. WellMade(<<Ask, Tell>> \o FlattenSeq(parts) \o <<PublishAnyhow>>)
    <3> HIDE DEF parts
    <3> QED  BY <1>1, <2>2, PreludeFirst
  <2> QED  BY <2>3 DEF BlueskyPost, ForEach
<1> QED  BY <1>4, <1>5, <1>6, <1>7 DEF InstagramLoginCarousel

\* Every kind of post of every provider is made so.
LEMMA PlansAreWellMade == \A k \in DOMAIN Plans : WellMade(Plans[k])
BY PlainPlans, MediaPlans DEF Plans

---------------------------------------------------------------------------------
(* PlatformCalls: the attempts. *)

\* What is left of the plan when its post is up and heard of.
OnlyQuiet == \A j \in at .. Len(Plans[kind]) : Quiet(Plans[kind][j])

\* A post the provider heard of is the present attempt's, which cannot fail any
\* more, and has its media.
HeardPostsStand ==
  \A p \in posts : p.by \notin unheard =>
    /\ p.by = attempt
    /\ phase \in {"published", "dead"} \/ (phase = "calling" /\ OnlyQuiet)
    /\ {p.by} \X p.media \subseteq objects

\* The attempt holds ids of what is there.
StagedIsThere == {attempt} \X staged \subseteq objects

\* A kind that cleans up leaves nothing of an attempt but what the present one holds.
NothingIsLeft ==
  kind \in CleansUp =>
    /\ phase \in {"retry", "failed"} => staged = {}
    /\ \A o \in objects \ strays : o[1] = attempt /\ o[2] \in staged

CallsAreDue ==
  /\ phase = "calling" => at <= Len(Plans[kind])
  /\ phase = "retry" => attempt < Attempts

PlatformInv ==
  PlatformTypeOK /\ CallsAreDue /\ HeardPostsStand /\ StagedIsThere /\ NothingIsLeft

LEMMA PlatformFacts ==
  ASSUME PlatformTypeOK
  PROVE  /\ WellMade(Plans[kind]) /\ Len(Plans[kind]) \in Nat \ {0}
         /\ attempt \in Nat /\ at \in Nat /\ Polls \in Nat \ {0} /\ Attempts \in Nat \ {0}
         /\ polls \in Int
         /\ at <= Len(Plans[kind]) => Current \in Requests
BY PlansAreWellMade, PlatformAssumption, ElementOfSeq, LenProperties
   DEF PlatformTypeOK, WellMade, Current, Numbers

LEMMA PlatformStarts == PlatformInit => PlatformInv
<1> SUFFICES ASSUME PlatformInit PROVE PlatformInv
  OBVIOUS
<1>1. Len(Plans[kind]) \in Nat \ {0}
  BY PlansAreWellMade, LenProperties DEF PlatformInit, WellMade
<1>2. PlatformTypeOK
  BY <1>1, PlatformAssumption DEF PlatformInit, PlatformTypeOK, Numbers
<1> QED
  BY <1>1, <1>2 DEF PlatformInit, PlatformInv, CallsAreDue, HeardPostsStand, StagedIsThere, NothingIsLeft

\* While the present request is not quiet, no post is up that was heard of.
LEMMA NoneHeard ==
  ASSUME PlatformInv, phase = "calling", ~Quiet(Current)
  PROVE  \A p \in posts : p.by \in unheard
<1>1. at \in at .. Len(Plans[kind])
  BY PlatformFacts DEF PlatformInv, CallsAreDue
<1> QED  BY <1>1 DEF PlatformInv, HeardPostsStand, OnlyQuiet, Current

\* The next step, and the result, of an attempt.
LEMMA ProceedKeeps ==
  ASSUME PlatformInv, phase = "calling", Proceed, UNCHANGED <<kind, attempt>>
  PROVE  /\ at' \in 1 .. Len(Plans[kind]) + 1 /\ polls' \in 0 .. Polls - 1
         /\ phase' \in {"calling", "published"}
         /\ CallsAreDue'
         /\ OnlyQuiet => phase' = "published" \/ (phase' = "calling" /\ OnlyQuiet')
<1>1. at \in 1 .. Len(Plans[kind]) /\ Len(Plans[kind]) \in Nat /\ Polls \in Nat \ {0}
  BY PlatformFacts DEF PlatformInv, CallsAreDue, PlatformTypeOK
<1>2. at' = at + 1 /\ polls' = 0
      /\ phase' = IF at = Len(Plans[kind]) THEN "published" ELSE "calling"
  BY DEF Proceed
<1>3. OnlyQuiet => OnlyQuiet'
  BY <1>1, <1>2 DEF OnlyQuiet
<1> QED  BY <1>1, <1>2, <1>3 DEF CallsAreDue

\* The exception ends the attempt; a kind that cleans up comes to its clean-up first.
LEMMA RaiseKeeps ==
  ASSUME PlatformInv, phase = "calling", NEW final \in BOOLEAN, Raise(final), UNCHANGED <<kind, attempt>>
  PROVE  /\ UNCHANGED <<at, polls>>
         /\ phase' \in {"cleaning", "retry", "failed"}
         /\ CallsAreDue'
         /\ kind \in CleansUp => phase' = "cleaning"
<1>1. attempt \in 1 .. Attempts /\ Attempts \in Nat /\ Attempts \in Int /\ attempt \in Int
  BY PlatformFacts DEF PlatformInv, PlatformTypeOK, Numbers
<1> QED  BY <1>1 DEF Raise, GiveUp, CallsAreDue

LEMMA QuestionKeeps ==
  ASSUME PlatformInv, Question
  PROVE  PlatformInv'
<1>1. phase = "calling" /\ UNCHANGED <<kind, attempt, staged, objects, posts, unheard, strays>>
  BY DEF Question, Doing
<1>2. CASE Proceed
  <2>1. /\ at' \in 1 .. Len(Plans[kind]) + 1 /\ polls' \in 0 .. Polls - 1
        /\ phase' \in {"calling", "published"}
        /\ CallsAreDue'
        /\ OnlyQuiet => phase' = "published" \/ (phase' = "calling" /\ OnlyQuiet')
    BY <1>1, <1>2, ProceedKeeps
  <2>2. PlatformTypeOK'
    BY <1>1, <2>1 DEF PlatformInv, PlatformTypeOK
  <2>3. HeardPostsStand'
    BY <1>1, <2>1 DEF PlatformInv, HeardPostsStand
  <2>4. StagedIsThere' /\ NothingIsLeft'
    BY <1>1, <2>1 DEF PlatformInv, StagedIsThere, NothingIsLeft
  <2> QED  BY <2>1, <2>2, <2>3, <2>4 DEF PlatformInv
<1>3. CASE \E final \in BOOLEAN : Raise(final) /\ ~Quiet(Current)
  <2>1. /\ UNCHANGED <<at, polls>>
        /\ phase' \in {"cleaning", "retry", "failed"}
        /\ CallsAreDue'
        /\ kind \in CleansUp => phase' = "cleaning"
    BY <1>1, <1>3, RaiseKeeps
  <2>2. \A p \in posts : p.by \in unheard
    BY <1>1, <1>3, NoneHeard
  <2>3. PlatformTypeOK'
    BY <1>1, <2>1 DEF PlatformInv, PlatformTypeOK
  <2>4. HeardPostsStand' /\ StagedIsThere' /\ NothingIsLeft'
    BY <1>1, <2>1, <2>2 DEF PlatformInv, HeardPostsStand, StagedIsThere, NothingIsLeft
  <2> QED  BY <2>1, <2>3, <2>4 DEF PlatformInv
<1> QED  BY <1>2, <1>3 DEF Question, Quiet

LEMMA StageMediumKeeps ==
  ASSUME PlatformInv, StageMedium
  PROVE  PlatformInv'
<1>1. phase = "calling" /\ Current.does = "stage" /\ UNCHANGED <<kind, attempt, posts, unheard>>
  BY DEF StageMedium, Doing
<1>2. Current.of \in Media /\ Object \in Numbers \X Media /\ Object[1] = attempt /\ Object[2] = Current.of
  BY <1>1, PlatformFacts DEF PlatformInv, CallsAreDue, PlatformTypeOK, Requests, Object
<1>3. \A p \in posts : p.by \in unheard
  BY <1>1, NoneHeard DEF Quiet
<1>4. HeardPostsStand'
  BY <1>1, <1>3 DEF HeardPostsStand
<1>5. /\ at' \in 1 .. Len(Plans[kind]) + 1 /\ polls' \in 0 .. Polls - 1
      /\ phase' \in {"calling", "published", "cleaning", "retry", "failed"}
      /\ CallsAreDue'
      /\ kind \in CleansUp => phase' \notin {"retry", "failed"}
  <2>1. CASE Proceed
    BY <1>1, <2>1, ProceedKeeps
  <2>2. CASE Raise(FALSE)
    BY <1>1, <2>2, RaiseKeeps DEF PlatformInv, PlatformTypeOK
  <2> QED  BY <2>1, <2>2 DEF StageMedium
<1>6. /\ staged' \in {staged, staged \cup {Current.of}}
      /\ objects' \in {objects, objects \cup {Object}}
      /\ staged' # staged => Object \in objects'
      /\ strays' \in {strays, strays \cup {Object}}
      /\ objects' # objects => Current.of \in staged' \/ Object \in strays'
  BY DEF StageMedium
<1>7. PlatformTypeOK'
  BY <1>1, <1>2, <1>5, <1>6 DEF PlatformInv, PlatformTypeOK
<1>8. StagedIsThere'
  <2>1. ASSUME NEW m \in staged' PROVE <<attempt, m>> \in objects'
    BY <1>6 DEF PlatformInv, StagedIsThere, Object
  <2> QED  BY <1>1, <2>1 DEF StagedIsThere
<1>9. NothingIsLeft'
  <2>1. ASSUME NEW o \in objects' \ strays', kind \in CleansUp PROVE o[1] = attempt /\ o[2] \in staged'
    BY <1>2, <1>6, <2>1 DEF PlatformInv, NothingIsLeft
  <2> QED  BY <1>1, <1>5, <2>1 DEF NothingIsLeft
<1> QED  BY <1>4, <1>5, <1>7, <1>8, <1>9 DEF PlatformInv

LEMMA PollKeeps ==
  ASSUME PlatformInv, Poll
  PROVE  PlatformInv'
<1>1. phase = "calling" /\ Current.does = "wait"
      /\ UNCHANGED <<kind, attempt, staged, objects, posts, unheard, strays>>
  BY DEF Poll, PollUntil, Doing
<1>2. \A p \in posts : p.by \in unheard
  BY <1>1, NoneHeard DEF Quiet
<1>3. /\ at' \in 1 .. Len(Plans[kind]) + 1 /\ polls' \in 0 .. Polls - 1
      /\ phase' \in {"calling", "published", "cleaning", "retry", "failed"}
      /\ CallsAreDue'
      /\ kind \in CleansUp => phase' \notin {"retry", "failed"}
  <2>1. CASE Proceed
    BY <1>1, <2>1, ProceedKeeps
  <2>2. CASE Raise(FALSE)
    BY <1>1, <2>2, RaiseKeeps DEF PlatformInv, PlatformTypeOK
  <2>3. CASE polls < Polls - 1 /\ polls' = polls + 1 /\ UNCHANGED <<at, phase>>
    BY <1>1, <2>3, PlatformFacts DEF PlatformInv, PlatformTypeOK, CallsAreDue
  <2> QED  BY <2>1, <2>2, <2>3 DEF Poll, PollUntil
<1>4. PlatformTypeOK'
  BY <1>1, <1>3 DEF PlatformInv, PlatformTypeOK
<1> QED
  BY <1>1, <1>2, <1>3, <1>4 DEF PlatformInv, HeardPostsStand, StagedIsThere, NothingIsLeft

LEMMA PutUpKeeps ==
  ASSUME PlatformInv, PutUp
  PROVE  PlatformInv'
<1> DEFINE post == [by |-> attempt, media |-> staged]
<1>1. phase = "calling" /\ Current.does = "publish"
      /\ UNCHANGED <<kind, attempt, staged, objects, strays>>
  BY DEF PutUp, Doing
<1>2. \A p \in posts : p.by \in unheard
  BY <1>1, NoneHeard DEF Quiet
<1>3. post \in [by : Numbers, media : SUBSET Media] /\ {post.by} \X post.media \subseteq objects
  BY DEF PlatformInv, PlatformTypeOK, StagedIsThere
<1>4. StagedIsThere'
  BY <1>1 DEF PlatformInv, StagedIsThere
<1>5. CASE \E final \in BOOLEAN : Raise(final) /\ (UNCHANGED <<posts, unheard>>
             \/ (posts' = posts \cup {post} /\ unheard' = unheard \cup {attempt}))
  <2>1. /\ UNCHANGED <<at, polls>>
        /\ phase' \in {"cleaning", "retry", "failed"}
        /\ CallsAreDue'
        /\ kind \in CleansUp => phase' = "cleaning"
    BY <1>1, <1>5, RaiseKeeps
  <2>2. posts' \subseteq [by : Numbers, media : SUBSET Media] /\ unheard' \subseteq Numbers
        /\ \A p \in posts' : p.by \in unheard'
    BY <1>2, <1>3, <1>5 DEF PlatformInv, PlatformTypeOK
  <2>3. PlatformTypeOK'
    BY <1>1, <2>1, <2>2 DEF PlatformInv, PlatformTypeOK
  <2>4. NothingIsLeft'
    BY <1>1, <2>1 DEF PlatformInv, NothingIsLeft
  <2> QED  BY <1>4, <2>1, <2>2, <2>3, <2>4 DEF PlatformInv, HeardPostsStand
<1>6. CASE posts' = posts \cup {post} /\ Proceed /\ UNCHANGED unheard
  <2>1. /\ at' \in 1 .. Len(Plans[kind]) + 1 /\ polls' \in 0 .. Polls - 1
        /\ phase' \in {"calling", "published"}
        /\ CallsAreDue'
    BY <1>1, <1>6, ProceedKeeps
  <2>2. OnlyQuiet'
    <3>1. at \in 1 .. Len(Plans[kind]) /\ Len(Plans[kind]) \in Nat /\ at' = at + 1
      BY <1>1, <1>6, PlatformFacts DEF PlatformInv, CallsAreDue, PlatformTypeOK, Proceed
    <3>2. \A j \in 1 .. Len(Plans[kind]) : at < j => Quiet(Plans[kind][j])
      BY <1>1, <3>1, PlatformFacts DEF PlatformInv, WellMade, Current
    <3> QED  BY <1>1, <3>1, <3>2 DEF OnlyQuiet
  <2>3. PlatformTypeOK'
    BY <1>1, <1>3, <1>6, <2>1 DEF PlatformInv, PlatformTypeOK
  <2>4. HeardPostsStand'
    BY <1>1, <1>2, <1>3, <1>6, <2>1, <2>2 DEF HeardPostsStand
  <2>5. NothingIsLeft'
    BY <1>1, <2>1 DEF PlatformInv, NothingIsLeft
  <2> QED  BY <1>4, <2>1, <2>3, <2>4, <2>5 DEF PlatformInv
<1> QED  BY <1>5, <1>6 DEF PutUp

LEMMA DeleteStagedPhotoKeeps ==
  ASSUME PlatformInv, DeleteStagedPhoto
  PROVE  PlatformInv'
<1>1. phase = "cleaning" /\ UNCHANGED <<kind, attempt, at, phase, polls, posts, unheard>>
  BY DEF DeleteStagedPhoto
<1>2. PICK m \in staged :
        /\ staged' = staged \ {m}
        /\ \/ objects' = objects \ {<<attempt, m>>} /\ UNCHANGED strays
           \/ strays' = strays \cup {<<attempt, m>>} /\ UNCHANGED objects
  BY DEF DeleteStagedPhoto
<1>3. \A p \in posts : p.by \in unheard
  BY <1>1 DEF PlatformInv, HeardPostsStand
<1>4. <<attempt, m>> \in Numbers \X Media
  BY <1>2 DEF PlatformInv, PlatformTypeOK
<1>5. PlatformTypeOK'
  BY <1>1, <1>2, <1>4 DEF PlatformInv, PlatformTypeOK
<1>6. HeardPostsStand' /\ CallsAreDue'
  BY <1>1, <1>3 DEF HeardPostsStand, CallsAreDue
<1>7. StagedIsThere'
  <2>1. ASSUME NEW n \in staged' PROVE <<attempt, n>> \in objects'
    BY <1>2 DEF PlatformInv, StagedIsThere
  <2> QED  BY <1>1, <2>1 DEF StagedIsThere
<1>8. NothingIsLeft'
  <2>1. ASSUME NEW o \in objects' \ strays', kind \in CleansUp PROVE o[1] = attempt /\ o[2] \in staged'
    <3>1. o \in objects \ strays /\ o # <<attempt, m>> /\ o \in Numbers \X Media
      BY <1>2, <2>1 DEF PlatformInv, PlatformTypeOK
    <3> QED  BY <1>2, <2>1, <3>1 DEF PlatformInv, NothingIsLeft
  <2> QED  BY <1>1, <2>1 DEF NothingIsLeft
<1> QED  BY <1>5, <1>6, <1>7, <1>8 DEF PlatformInv

LEMMA EndCleanupKeeps ==
  ASSUME PlatformInv, EndCleanup
  PROVE  PlatformInv'
<1>1. attempt \in 1 .. Attempts /\ attempt \in Int /\ Attempts \in Int
  BY PlatformFacts DEF PlatformInv, PlatformTypeOK, Numbers
<1>2. phase = "cleaning" /\ staged = {} /\ phase' \in {"retry", "failed"}
      /\ (phase' = "retry" => attempt # Attempts)
      /\ UNCHANGED <<kind, attempt, at, polls, staged, objects, posts, unheard, strays>>
  BY DEF EndCleanup, GiveUp
<1>3. PlatformTypeOK' /\ CallsAreDue'
  BY <1>1, <1>2 DEF PlatformInv, PlatformTypeOK, CallsAreDue
<1>4. HeardPostsStand'
  BY <1>2 DEF PlatformInv, HeardPostsStand
<1> QED  BY <1>2, <1>3, <1>4 DEF PlatformInv, StagedIsThere, NothingIsLeft

LEMMA RetryKeeps ==
  ASSUME PlatformInv, Retry
  PROVE  PlatformInv'
<1>1. phase = "retry" /\ attempt' = attempt + 1 /\ at' = 1 /\ phase' = "calling" /\ polls' = 0
      /\ staged' = {} /\ UNCHANGED <<kind, objects, posts, unheard, strays>>
  BY DEF Retry
<1>2. attempt' \in Numbers /\ Len(Plans[kind]) \in Nat \ {0} /\ Polls \in Nat \ {0}
  BY <1>1, PlatformFacts DEF PlatformInv, PlatformTypeOK, CallsAreDue, Numbers
<1>3. PlatformTypeOK' /\ CallsAreDue'
  BY <1>1, <1>2 DEF PlatformInv, PlatformTypeOK, CallsAreDue
<1>4. HeardPostsStand'
  BY <1>1 DEF PlatformInv, HeardPostsStand
<1>5. kind \in CleansUp => objects \ strays = {}
  BY <1>1 DEF PlatformInv, NothingIsLeft
<1> QED  BY <1>1, <1>3, <1>4, <1>5 DEF PlatformInv, StagedIsThere, NothingIsLeft

LEMMA WorkerDiesKeeps ==
  ASSUME PlatformInv, WorkerDies
  PROVE  PlatformInv'
BY DEF WorkerDies, PlatformInv, PlatformTypeOK, CallsAreDue, HeardPostsStand, StagedIsThere, NothingIsLeft

LEMMA PlatformStep == PlatformInv /\ [PlatformNext]_platformVars => PlatformInv'
<1> SUFFICES ASSUME PlatformInv, [PlatformNext]_platformVars PROVE PlatformInv'
  OBVIOUS
<1>1. CASE UNCHANGED platformVars
  BY <1>1 DEF platformVars, PlatformInv, PlatformTypeOK, CallsAreDue, HeardPostsStand, OnlyQuiet,
              StagedIsThere, NothingIsLeft
<1> QED
  BY <1>1, QuestionKeeps, StageMediumKeeps, PollKeeps, PutUpKeeps, DeleteStagedPhotoKeeps,
     EndCleanupKeeps, RetryKeeps, WorkerDiesKeeps DEF PlatformNext

LEMMA PlatformKeepsInv == PlatformSpec => []PlatformInv
BY PlatformStarts, PlatformStep, PTL DEF PlatformSpec

\* Every kind, step, poll, object and post stays in its type.
THEOREM PlatformTypes == PlatformSpec => []PlatformTypeOK
<1>1. PlatformInv => PlatformTypeOK
  BY DEF PlatformInv
<1> QED  BY <1>1, PlatformKeepsInv, PTL

\* For any number of photos, videos, retries and polls, of every provider: what
\* is up and heard of is not put up again, called failed or robbed of its media,
\* and a failed attempt leaves nothing behind that could be deleted.
THEOREM AttemptsStayHonest == PlatformSpec => []AttemptsAreHonest
<1>1. PlatformInv => AttemptsAreHonest
  <2> SUFFICES ASSUME PlatformInv PROVE AttemptsAreHonest
    OBVIOUS
  <2>1. attempt \in Nat
    BY PlatformFacts DEF PlatformInv
  <2>2. RepostsAreUnheard
    BY <2>1 DEF PlatformInv, HeardPostsStand, RepostsAreUnheard, Raised
  <2>3. CleanupIsExact
    BY <2>1 DEF PlatformInv, HeardPostsStand, NothingIsLeft, CleanupIsExact, Raised
  <2> QED  BY <2>2, <2>3 DEF AttemptsAreHonest
<1> QED  BY <1>1, PlatformKeepsInv, PTL

---------------------------------------------------------------------------------
(* The post as a whole. *)

allPlanningVars == <<focus, vars, editorVars, platformVars, analyticsVars>>

\* Each component behaves as if it were alone, whatever the others do.
LEMMA PlanningParts == PlanningSpec => Spec /\ EditorSpec /\ PlatformSpec /\ AnalyticsSpec
<1>1. PlanningInit => Init /\ EditorInit /\ PlatformInit /\ AnalyticsInit
  BY DEF PlanningInit
<1>2. [PlanningNext]_allPlanningVars =>
        [Next]_vars /\ [EditorNext]_editorVars /\ [PlatformNext]_platformVars
          /\ [AnalyticsNext]_analyticsVars
  BY DEF PlanningNext, allPlanningVars
<1> QED
  BY <1>1, <1>2, PTL
  DEF PlanningSpec, allPlanningVars, Spec, EditorSpec, PlatformSpec, AnalyticsSpec

\* Slots, editor, requests to the platforms and metrics stay in their types.
THEOREM PlanningTypes == PlanningSpec => []PlanningTypeOK
<1>1. TypeOK /\ EditorTypeOK /\ PlatformTypeOK /\ AnalyticsTypeOK => PlanningTypeOK
  BY DEF PlanningTypeOK
<1> QED
  BY <1>1, PlanningParts, SlotTypes, EditorTypes, PlatformTypes, AnalyticsTypes, PTL

=================================================================================
