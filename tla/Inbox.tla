---------------------------------- MODULE Inbox ----------------------------------
(***************************************************************************)
(* The inbox of one social account (src/apps/inbox): messages come by the  *)
(* polling cycle (tasks.py) and by webhooks (webhooks.py), people and the  *)
(* agent open and answer them (services.py), and the cycle warns of those  *)
(* that wait too long.  The mark that a message was warned of lives in its *)
(* extra column, which polling and edits replace with the platform's.      *)
(*                                                                         *)
(* All messages are of one type; a request that loaded a message writes    *)
(* its status in a later statement.                                        *)
(***************************************************************************)
EXTENDS Naturals

CONSTANTS
  Messages,      \* messages on the platform
  Readers,       \* requests that open or answer a message
  MaxRewrites,   \* bound: rewrites of a message's extra that are counted
  MaxKills       \* bound: cycles and webhook requests that die

ASSUME InboxAssumption == MaxRewrites \in Nat /\ MaxKills \in Nat

VARIABLES
  message,    \* status of each row
  overdue,    \* messages older than target_response_minutes
  flagged,    \* messages with sla_notified in extra
  cycle,      \* what the polling cycle does next, and with which messages
  hooks,      \* messages a webhook request has created and not announced
  reading,    \* what a request has read
  kills,
  \* history
  announced,  \* notices that a message is new
  warned,     \* notices that a message waits too long
  rewritten   \* how often a flagged message lost its flag

inboxVars == <<message, overdue, flagged, cycle, hooks, reading, kills,
               announced, warned, rewritten>>

Waits == {"unread", "open"}
MessageStatus == {"none", "resolved", "archived"} \cup Waits
CycleStep == {"idle", "upsert", "announce", "warn", "flag"}
WarnBound == 1 + MaxRewrites + MaxKills   \* bound: warnings counted

AtRest == [step |-> "idle", todo |-> {}, current |-> {}, backlog |-> FALSE]

InboxTypeOK ==
  /\ message \in [Messages -> MessageStatus]
  /\ overdue \cup flagged \cup hooks \subseteq Messages
  /\ cycle \in [step : CycleStep, todo : SUBSET Messages,
                current : SUBSET Messages, backlog : BOOLEAN]
  /\ reading \in [Readers -> [message : SUBSET Messages, unread : BOOLEAN]]
  /\ kills \in 0 .. MaxKills
  /\ announced \in [Messages -> 0 .. 2]
  /\ warned \in [Messages -> 0 .. WarnBound + 1]
  /\ rewritten \in [Messages -> 0 .. MaxRewrites]

NotReading == [message |-> {}, unread |-> FALSE]

InboxInit ==
  /\ message = [m \in Messages |-> "none"]
  /\ overdue = {}
  /\ flagged = {}
  /\ cycle = AtRest
  /\ hooks = {}
  /\ reading = [q \in Readers |-> NotReading]
  /\ kills = 0
  /\ announced = [m \in Messages |-> 0]
  /\ warned = [m \in Messages |-> 0]
  /\ rewritten = [m \in Messages |-> 0]

Known(m) == message[m] # "none"
Plus(f, m, top) == [f EXCEPT ![m] = IF @ < top THEN @ + 1 ELSE @]

\* extra is replaced by what the platform sends.
CanRewrite(m) == m \in flagged => rewritten[m] < MaxRewrites
Rewrite(m) ==
  /\ CanRewrite(m)
  /\ flagged' = flagged \ {m}
  /\ rewritten' = IF m \in flagged THEN [rewritten EXCEPT ![m] = @ + 1] ELSE rewritten

----------------------------------------------------------------------------------
(* The polling cycle: run_cycle. *)

\* get_messages returns what it returns, old messages among the new.
Fetch ==
  /\ cycle.step = "idle"
  /\ \E found \in SUBSET {m \in Messages : CanRewrite(m)} :
       cycle' = [step |-> "upsert", todo |-> found, current |-> {},
                 backlog |-> \A m \in Messages : ~Known(m)]
  /\ UNCHANGED <<message, overdue, flagged, hooks, reading, kills,
                 announced, warned, rewritten>>

\* The message m of the batch exists: only its columns change.
Update(m) ==
  /\ Known(m)
  /\ Rewrite(m)
  /\ cycle' = [cycle EXCEPT !.todo = @ \ {m}]
  /\ UNCHANGED message

\* It is new: announced, unless it is backlog that is not recent.
Insert(m) ==
  /\ ~Known(m)
  /\ message' = [message EXCEPT ![m] = "unread"]
  /\ \/ cycle' = [cycle EXCEPT !.step = "announce", !.todo = @ \ {m}, !.current = {m}]
     \/ cycle.backlog /\ cycle' = [cycle EXCEPT !.todo = @ \ {m}]
  /\ UNCHANGED <<flagged, rewritten>>

\* Mutant: an update is announced like a creation.
UpsertLoud(m) ==
  /\ cycle.step = "upsert"
  /\ m \in cycle.todo
  /\ message' = [message EXCEPT ![m] = IF Known(m) THEN @ ELSE "unread"]
  /\ cycle' = [cycle EXCEPT !.step = "announce", !.todo = @ \ {m}, !.current = {m}]
  /\ UNCHANGED <<flagged, rewritten, overdue, hooks, reading, kills, announced, warned>>

\* update_or_create under the unique (social_account, platform_message_id).
Upsert(m) ==
  /\ cycle.step = "upsert"
  /\ m \in cycle.todo
  /\ Update(m) \/ Insert(m)
  /\ UNCHANGED <<overdue, hooks, reading, kills, announced, warned>>

Announce ==
  /\ cycle.step = "announce"
  /\ \E m \in cycle.current : announced' = Plus(announced, m, 2)
  /\ cycle' = [cycle EXCEPT !.step = "upsert", !.current = {}]
  /\ UNCHANGED <<message, overdue, flagged, hooks, reading, kills, warned, rewritten>>

\* The cycle goes on to check_sla with the messages in late.
CheckSlaOf(late) ==
  /\ cycle.step = "upsert"
  /\ cycle.todo = {}
  /\ cycle' = [AtRest EXCEPT !.step = "warn", !.todo = late]
  /\ UNCHANGED <<message, overdue, flagged, hooks, reading, kills,
                 announced, warned, rewritten>>

\* Mutants: a message somebody has opened is not late; the flag is not asked.
CheckSlaUnread == CheckSlaOf({m \in overdue \ flagged : message[m] = "unread"})
CheckSlaFlagged == CheckSlaOf({m \in overdue : message[m] \in Waits})

CheckSla == CheckSlaOf({m \in overdue \ flagged : message[m] \in Waits})

Warn(m) ==
  /\ cycle.step = "warn"
  /\ m \in cycle.todo
  /\ warned' = Plus(warned, m, WarnBound + 1)
  /\ cycle' = [cycle EXCEPT !.step = "flag", !.todo = @ \ {m}, !.current = {m}]
  /\ UNCHANGED <<message, overdue, flagged, hooks, reading, kills,
                 announced, rewritten>>

Flag ==
  /\ cycle.step = "flag"
  /\ flagged' = flagged \cup cycle.current
  /\ cycle' = [cycle EXCEPT !.step = "warn", !.current = {}]
  /\ UNCHANGED <<message, overdue, hooks, reading, kills, announced, warned, rewritten>>

EndInboxCycle ==
  /\ cycle.step = "warn"
  /\ cycle.todo = {}
  /\ cycle' = AtRest
  /\ UNCHANGED <<message, overdue, flagged, hooks, reading, kills,
                 announced, warned, rewritten>>

\* The worker dies, and the next cycle starts from nothing.
CycleDies ==
  /\ cycle.step # "idle"
  /\ kills < MaxKills
  /\ kills' = kills + 1
  /\ cycle' = AtRest
  /\ UNCHANGED <<message, overdue, flagged, hooks, reading, announced, warned, rewritten>>

----------------------------------------------------------------------------------
(* Webhooks. *)

\* get_or_create: nothing happens to a message that is there.
ReceiveHook(m) ==
  /\ ~Known(m)
  /\ message' = [message EXCEPT ![m] = "unread"]
  /\ hooks' = hooks \cup {m}
  /\ UNCHANGED <<overdue, flagged, cycle, reading, kills, announced, warned, rewritten>>

AnnounceHook(m) ==
  /\ m \in hooks
  /\ hooks' = hooks \ {m}
  /\ announced' = Plus(announced, m, 2)
  /\ UNCHANGED <<message, overdue, flagged, cycle, reading, kills, warned, rewritten>>

HookDies(m) ==
  /\ m \in hooks
  /\ kills < MaxKills
  /\ kills' = kills + 1
  /\ hooks' = hooks \ {m}
  /\ UNCHANGED <<message, overdue, flagged, cycle, reading, announced, warned, rewritten>>

\* The comment was edited, or removed, on the platform.
EditComment(m) ==
  /\ Known(m)
  /\ Rewrite(m)
  /\ UNCHANGED <<message, overdue, cycle, hooks, reading, kills, announced, warned>>

RemoveComment(m) ==
  /\ Known(m)
  /\ message' = [message EXCEPT ![m] = "archived"]
  /\ UNCHANGED <<overdue, flagged, cycle, hooks, reading, kills,
                 announced, warned, rewritten>>

----------------------------------------------------------------------------------
(* People and the agent. *)

ReadMessage(q, m) ==
  /\ reading[q] = NotReading
  /\ Known(m)
  /\ reading' = [reading EXCEPT ![q] = [message |-> {m}, unread |-> message[m] = "unread"]]
  /\ UNCHANGED <<message, overdue, flagged, cycle, hooks, kills,
                 announced, warned, rewritten>>

\* An unread message is opened; a reply, once the platform took it, resolves
\* the message or opens it, by auto_resolve_on_reply.
WriteMessage(q) ==
  /\ reading[q] # NotReading
  /\ \E m \in reading[q].message :
       \/ message' = [message EXCEPT ![m] = "resolved"]
       \/ reading[q].unread /\ message' = [message EXCEPT ![m] = "open"]
       \/ UNCHANGED message
  /\ reading' = [reading EXCEPT ![q] = NotReading]
  /\ UNCHANGED <<overdue, flagged, cycle, hooks, kills, announced, warned, rewritten>>

\* bulk_action resolve, archive and mark_read: conditional UPDATEs.
BulkAction(m) ==
  /\ \/ message[m] \notin {"none", "archived"} /\ message' = [message EXCEPT ![m] = "resolved"]
     \/ Known(m) /\ message' = [message EXCEPT ![m] = "archived"]
     \/ message[m] = "unread" /\ message' = [message EXCEPT ![m] = "open"]
  /\ UNCHANGED <<overdue, flagged, cycle, hooks, reading, kills,
                 announced, warned, rewritten>>

TimePasses(m) ==
  /\ Known(m)
  /\ m \notin overdue
  /\ overdue' = overdue \cup {m}
  /\ UNCHANGED <<message, flagged, cycle, hooks, reading, kills,
                 announced, warned, rewritten>>

----------------------------------------------------------------------------------
CycleStepTaken ==
  \/ Fetch
  \/ \E m \in Messages : Upsert(m) \/ Warn(m)
  \/ Announce
  \/ CheckSla
  \/ Flag
  \/ EndInboxCycle

InboxNext ==
  \/ CycleStepTaken
  \/ CycleDies
  \/ \E m \in Messages :
       \/ ReceiveHook(m)
       \/ AnnounceHook(m)
       \/ HookDies(m)
       \/ EditComment(m)
       \/ RemoveComment(m)
       \/ BulkAction(m)
       \/ TimePasses(m)
       \/ \E q \in Readers : ReadMessage(q, m)
  \/ \E q \in Readers : WriteMessage(q)

InboxSpec == InboxInit /\ [][InboxNext]_inboxVars

----------------------------------------------------------------------------------
(* Properties. *)

\* Nobody is told twice: a message that both the poll and a webhook bring is
\* announced once, and a late one is warned of once, and once more for each time
\* the platform's payload took the flag from it and each cycle that died before
\* the flag was set.
InboxNoticesBounded ==
  \A m \in Messages : /\ announced[m] <= 1
                      /\ warned[m] <= 1 + rewritten[m] + kills

InboxIsHonest == InboxTypeOK /\ InboxNoticesBounded

\* A message that stays unanswered past its deadline is warned of, whatever
\* dies and however often the message is fetched again.
LateIsWarned ==
  \A m \in Messages :
    message[m] \in Waits /\ m \in overdue ~> warned[m] > 0 \/ message[m] \notin Waits

==================================================================================
