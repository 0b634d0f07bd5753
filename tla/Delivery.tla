--------------------------------- MODULE Delivery ---------------------------------
(***************************************************************************)
(* The deliveries of notifications by email and webhook (src/apps/         *)
(* notifications/engine.py): notify dispatches the first attempt, a sweep  *)
(* retries what failed, each on the copy of the row it read.               *)
(*                                                                         *)
(* The sweep takes the rows that are due in the order of next_retry_at:    *)
(* earlier is that order.                                                  *)
(***************************************************************************)
EXTENDS Integers, Sequences

CONSTANTS
  Deliveries,   \* NotificationDelivery rows
  Notifiers,    \* requests that call notify
  Sweeps,       \* retry_failed_deliveries calls that may overlap
  MaxAttempts,  \* MAX_RETRY_ATTEMPTS
  RetryBatch,   \* RETRY_BATCH_LIMIT
  MaxDeaths     \* bound: processes that die

ASSUME DeliveryAssumption ==
  /\ MaxAttempts \in Nat \ {0}
  /\ RetryBatch \in Nat \ {0}
  /\ MaxDeaths \in Nat

VARIABLES
  sent,      \* status of each row
  tries,     \* attempts
  backoff,   \* rows whose next_retry_at is in the future
  lapsed,    \* rows whose next_retry_at has passed
  earlier,   \* pairs of them whose first was due before the second
  batch,     \* the copies a process has still to dispatch, the first one first
  sending,   \* what the process does with the first
  deaths,
  \* history
  calls,     \* how often the channel was called for a row
  received,  \* rows that reached the user
  shared,    \* rows two processes held copies of
  dropped    \* rows whose process died in an attempt nothing repeats

deliveryVars == <<sent, tries, backoff, lapsed, earlier, batch, sending, deaths,
                  calls, received, shared, dropped>>

Processes == Notifiers \cup Sweeps
Copy == [row : Deliveries, tries : 0 .. MaxAttempts]
CallBound == MaxAttempts + 1   \* bound: calls counted

DeliveryTypeOK ==
  /\ sent \in [Deliveries -> {"none", "pending", "delivered", "failed"}]
  /\ tries \in [Deliveries -> 0 .. MaxAttempts]
  /\ backoff \cup lapsed \subseteq Deliveries
  /\ earlier \subseteq lapsed \X lapsed
  /\ batch \in [Processes -> Seq(Copy)]
  /\ sending \in [Processes -> {"idle", "counted", "accepted", "raised"}]
  /\ deaths \in 0 .. MaxDeaths
  /\ calls \in [Deliveries -> 0 .. CallBound]
  /\ received \cup shared \cup dropped \subseteq Deliveries

DeliveryInit ==
  /\ sent = [d \in Deliveries |-> "none"]
  /\ tries = [d \in Deliveries |-> 0]
  /\ backoff = {}
  /\ lapsed = {}
  /\ earlier = {}
  /\ batch = [p \in Processes |-> <<>>]
  /\ sending = [p \in Processes |-> "idle"]
  /\ deaths = 0
  /\ calls = [d \in Deliveries |-> 0]
  /\ received = {}
  /\ shared = {}
  /\ dropped = {}

Busy(p) == batch[p] # <<>>
Held(d) == {p \in Processes : \E i \in DOMAIN batch[p] : batch[p][i].row = d}
First(p) == Head(batch[p])

CopyOf(d) == [row |-> d, tries |-> tries[d]]

-----------------------------------------------------------------------------------
\* notify creates the row and dispatches it at once.
Notify(p, d) ==
  /\ p \in Notifiers
  /\ ~Busy(p)
  /\ sent[d] = "none"
  /\ sent' = [sent EXCEPT ![d] = "pending"]
  /\ batch' = [batch EXCEPT ![p] = <<CopyOf(d)>>]
  /\ UNCHANGED <<tries, backoff, lapsed, earlier, sending, deaths, calls, received, shared, dropped>>

\* Pending, past next_retry_at, attempts left.
Retryable == {d \in lapsed : sent[d] = "pending" /\ tries[d] < MaxAttempts}

\* The first n of them, or all there are.
FirstRows(rows, n) ==
  /\ \A i, j \in 1 .. n : i < j => <<rows[i], rows[j]>> \in earlier
  /\ \A d \in Retryable : \/ \E i \in 1 .. n : d = rows[i]
                          \/ n = RetryBatch /\ <<rows[n], d>> \in earlier

Query(p) ==
  /\ p \in Sweeps
  /\ ~Busy(p)
  /\ \E n \in 1 .. RetryBatch : \E rows \in [1 .. n -> Retryable] :
       /\ FirstRows(rows, n)
       /\ batch' = [batch EXCEPT ![p] = [i \in 1 .. n |-> CopyOf(rows[i])]]
       /\ shared' = shared \cup {d \in Retryable : Held(d) # {} /\ \E i \in 1 .. n : d = rows[i]}
  /\ UNCHANGED <<sent, tries, backoff, lapsed, earlier, sending, deaths, calls, received, dropped>>

\* The attempt is counted, from the copy, before the channel is called.
Count(p) ==
  LET d == First(p).row
  IN  /\ Busy(p)
      /\ sending[p] = "idle"
      /\ tries' = [tries EXCEPT ![d] = First(p).tries + 1]
      /\ batch' = [batch EXCEPT ![p][1].tries = @ + 1]
      /\ sending' = [sending EXCEPT ![p] = "counted"]
      /\ UNCHANGED <<sent, backoff, lapsed, earlier, deaths, calls, received, shared, dropped>>

\* The channel takes the message, takes it and raises, or refuses it.
Call(p) ==
  LET d == First(p).row
  IN  /\ Busy(p)
      /\ sending[p] = "counted"
      /\ calls' = [calls EXCEPT ![d] = IF @ < CallBound THEN @ + 1 ELSE @]
      /\ \/ received' = received \cup {d} /\ sending' = [sending EXCEPT ![p] = "accepted"]
         \/ received' \in {received, received \cup {d}} /\ sending' = [sending EXCEPT ![p] = "raised"]
      /\ UNCHANGED <<sent, tries, backoff, lapsed, earlier, batch, deaths, shared, dropped>>

\* The dispatch ends with status s; next_retry_at is written or left alone.
EndDispatch(p, s, retry) ==
  LET d == First(p).row
  IN  /\ sent' = [sent EXCEPT ![d] = s]
      /\ backoff' = IF retry THEN backoff \cup {d} ELSE backoff
      /\ lapsed' = IF retry THEN lapsed \ {d} ELSE lapsed
      /\ earlier' = earlier \cap (lapsed' \X lapsed')
      /\ batch' = [batch EXCEPT ![p] = Tail(@)]
      /\ sending' = [sending EXCEPT ![p] = "idle"]
      /\ UNCHANGED <<tries, deaths, calls, received, shared, dropped>>

\* Saved as delivered, or the save raises and the dispatch counts as failed.
SaveDelivered(p) ==
  /\ Busy(p)
  /\ sending[p] = "accepted"
  /\ \/ EndDispatch(p, "delivered", FALSE)
     \/ /\ sending' = [sending EXCEPT ![p] = "raised"]
        /\ UNCHANGED <<sent, tries, backoff, lapsed, earlier, batch, deaths, calls, received, shared, dropped>>

\* Mutant: a failure less is enough to give up.
SaveFailureEarly(p) ==
  /\ Busy(p)
  /\ sending[p] = "raised"
  /\ IF First(p).tries >= MaxAttempts - 1 THEN EndDispatch(p, "failed", FALSE)
     ELSE EndDispatch(p, "pending", TRUE)

\* Mutant: next_retry_at is not written.
SaveFailureUnscheduled(p) ==
  /\ Busy(p)
  /\ sending[p] = "raised"
  /\ EndDispatch(p, IF First(p).tries >= MaxAttempts THEN "failed" ELSE "pending", FALSE)

SaveFailure(p) ==
  LET exhausted == First(p).tries >= MaxAttempts
  IN  /\ Busy(p)
      /\ sending[p] = "raised"
      /\ \/ exhausted /\ EndDispatch(p, "failed", FALSE)
         \/ ~exhausted /\ EndDispatch(p, "pending", TRUE)

Others(d) == lapsed \ {d}

\* RETRY_BACKOFF_MINUTES later: behind every row that is due already.
BecomeDue(d) ==
  /\ d \in backoff
  /\ backoff' = backoff \ {d}
  /\ lapsed' = lapsed \cup {d}
  /\ earlier' = (earlier \cap (Others(d) \X Others(d))) \cup (Others(d) \X {d})
  /\ UNCHANGED <<sent, tries, batch, sending, deaths, calls, received, shared, dropped>>

\* The process dies with its copies.  What it was dispatching comes back only
\* if it is due and has attempts left.
Die(p) ==
  LET d == First(p).row
      repeated == d \in lapsed /\ tries[d] < MaxAttempts
  IN  /\ Busy(p)
      /\ deaths < MaxDeaths
      /\ deaths' = deaths + 1
      /\ batch' = [batch EXCEPT ![p] = <<>>]
      /\ sending' = [sending EXCEPT ![p] = "idle"]
      /\ dropped' = IF repeated THEN dropped ELSE dropped \cup {d}
      /\ UNCHANGED <<sent, tries, backoff, lapsed, earlier, calls, received, shared>>

-----------------------------------------------------------------------------------
Dispatch(p) == Count(p) \/ Call(p) \/ SaveDelivered(p) \/ SaveFailure(p)

DeliveryNext ==
  \/ \E p \in Processes :
       \/ \E d \in Deliveries : Notify(p, d)
       \/ Query(p)
       \/ Dispatch(p)
       \/ Die(p)
  \/ \E d \in Deliveries : BecomeDue(d)

DeliverySpec == DeliveryInit /\ [][DeliveryNext]_deliveryVars

-----------------------------------------------------------------------------------
(* Properties. *)

\* The user is not written to more than MAX_RETRY_ATTEMPTS times, whatever the
\* channel answers and whoever dies, unless two sweeps held the row at once.
AttemptsBounded == \A d \in Deliveries : d \notin shared => calls[d] <= MaxAttempts

\* What the row says is so: a delivered message reached the user, and a failed
\* one was tried MAX_RETRY_ATTEMPTS times, save for attempts that died between
\* the count and the call.
VerdictIsTrue ==
  \A d \in Deliveries :
    /\ sent[d] = "delivered" => d \in received
    /\ sent[d] = "failed" /\ d \notin shared => calls[d] + deaths >= MaxAttempts

\* The row and the person agree: nobody is written to too often, and nothing is
\* called delivered, or given up, that was not.
DeliveryIsHonest == AttemptsBounded /\ VerdictIsTrue

\* Every notification is delivered or given up, through batches that do not
\* hold all that is due, unless a process died in its first attempt (nothing
\* was due yet) or in its last, or two sweeps held the row (the slower one puts
\* a row without attempts back to pending).
DeliverySettles ==
  \A d \in Deliveries :
    sent[d] = "pending" ~> sent[d] \in {"delivered", "failed"} \/ d \in dropped \cup shared

===================================================================================
