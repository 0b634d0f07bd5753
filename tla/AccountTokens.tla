------------------------------ MODULE AccountTokens ------------------------------
(***************************************************************************)
(* The tokens of one social account (src/apps/social_accounts): the health *)
(* check and the publish engine refresh them, each on a copy of the row,   *)
(* and the owner reconnects.  No refresh takes a lock.  The platform       *)
(* rotates: a refresh token works once, and mints the next grant.          *)
(*                                                                         *)
(* A grant is a number; a stored token, or expiry, is that of its grant.   *)
(***************************************************************************)
EXTENDS Naturals

CONSTANTS
  Checks,      \* health checks that may run at once
  Engines,     \* publish attempts that may run at once
  MaxGrants,   \* bound: grants the platform mints
  MaxFailures  \* bound: calls that fail by themselves, and processes that die

ASSUME AccountAssumption ==
  /\ Checks \cap Engines = {}
  /\ MaxGrants \in Nat \ {0}
  /\ MaxFailures \in Nat

VARIABLES
  account,   \* the SocialAccount row
  minted,    \* how many grants there were
  live,      \* the grant whose refresh token the platform takes; 0 when revoked
  soon,      \* grants whose token_expires_at is less than seven days away
  stale,     \* grants whose access token has expired
  holder,    \* what a check or an attempt does next, and its copy of the row
  failures,
  \* history
  strayed    \* why the stored refresh token may be dead

accountVars == <<account, minted, live, soon, stale, holder, failures, strayed>>

Holders == Checks \cup Engines
Grants == 1 .. MaxGrants
ConnectionStatus == {"connected", "token_expiring", "error"}
AccountRow == [access : Grants, refresh : Grants, expiry : Grants, status : ConnectionStatus]
HolderSteps == {"idle", "scheduled", "refresh", "profile", "save"}

AccountTypeOK ==
  /\ account \in AccountRow
  /\ minted \in Grants
  /\ live \in 0 .. minted
  /\ stale \subseteq soon
  /\ soon \subseteq Grants
  /\ holder \in [Holders -> [step : HolderSteps, copy : AccountRow]]
  /\ failures \in 0 .. MaxFailures
  /\ strayed \subseteq {"overlap", "lost", "revoked"}

OfGrant(g, status) == [access |-> g, refresh |-> g, expiry |-> g, status |-> status]
AtEase == [step |-> "idle", copy |-> OfGrant(1, "connected")]

AccountInit ==
  /\ account = OfGrant(1, "connected")
  /\ minted = 1
  /\ live = 1
  /\ soon = {}
  /\ stale = {}
  /\ holder = [h \in Holders |-> AtEase]
  /\ failures = 0
  /\ strayed = {}

Works(g) == g \notin stale /\ live # 0
Continue(h, step, copy) == holder' = [holder EXCEPT ![h] = [step |-> step, copy |-> copy]]
Leaves(h) == holder' = [holder EXCEPT ![h] = AtEase]
FailsAtWill == failures < MaxFailures /\ failures' = failures + 1

----------------------------------------------------------------------------------
(* refresh_token, on a copy. *)

\* The platform takes the live refresh token and mints the next grant.
Mint(grant) ==
  /\ grant = live
  /\ minted < MaxGrants
  /\ minted' = minted + 1
  /\ live' = minted'

\* The answer is lost, and the new refresh token with it; or nothing happened.
RefreshFails(grant) ==
  \/ /\ grant # live
     /\ UNCHANGED <<minted, live, failures, strayed>>
  \/ /\ FailsAtWill
     /\ UNCHANGED <<minted, live, strayed>>
  \/ /\ Mint(grant)
     /\ FailsAtWill
     /\ strayed' = strayed \cup {"lost"}

MintAnswered(grant) ==
  /\ Mint(grant)
  /\ UNCHANGED <<failures, strayed>>

----------------------------------------------------------------------------------
(* check_social_account_health *)

\* schedule_all_health_checks leaves out accounts in error.
ScheduleCheck(h) ==
  /\ holder[h].step = "idle"
  /\ account.status \in {"connected", "token_expiring"}
  /\ Continue(h, "scheduled", AtEase.copy)
  /\ UNCHANGED <<account, minted, live, soon, stale, failures, strayed>>

LoadForCheck(h) ==
  /\ holder[h].step = "scheduled"
  /\ Continue(h, IF account.expiry \in soon THEN "refresh" ELSE "profile", account)
  /\ UNCHANGED <<account, minted, live, soon, stale, failures, strayed>>

RefreshInCheck(h) ==
  LET copy == holder[h].copy
  IN  /\ h \in Checks
      /\ holder[h].step = "refresh"
      /\ \/ MintAnswered(copy.refresh) /\ Continue(h, "profile", OfGrant(live', "connected"))
         \/ RefreshFails(copy.refresh)
            /\ Continue(h, "profile", [copy EXCEPT !.status = "token_expiring"])
      /\ UNCHANGED <<account, soon, stale>>

\* Mutant: an expired token is taken for a transient failure.
ValidateQuietly(h) ==
  LET copy == holder[h].copy
  IN  /\ holder[h].step = "profile"
      /\ Continue(h, "save", [copy EXCEPT !.status = "connected"])
      /\ UNCHANGED <<account, minted, live, soon, stale, failures, strayed>>

\* get_profile decides: connected, still expiring, or error.
Validate(h) ==
  LET copy == holder[h].copy
      fine == IF copy.status = "token_expiring" THEN "token_expiring" ELSE "connected"
  IN  /\ holder[h].step = "profile"
      /\ \/ Works(copy.access) /\ Continue(h, "save", [copy EXCEPT !.status = fine])
            /\ UNCHANGED failures
         \/ ~Works(copy.access) /\ Continue(h, "save", [copy EXCEPT !.status = "error"])
            /\ UNCHANGED failures
         \/ FailsAtWill /\ Continue(h, "save", [copy EXCEPT !.status = "error"])
      /\ UNCHANGED <<account, minted, live, soon, stale, strayed>>

\* An older grant may overwrite the one somebody stored since the load.
Store(written) ==
  /\ account' = written
  /\ strayed' = IF written.refresh < account.refresh THEN strayed \cup {"overlap"} ELSE strayed

\* Mutant: the refresh token is not among update_fields.
SaveCheckAccessOnly(h) ==
  /\ h \in Checks
  /\ holder[h].step = "save"
  /\ Store([holder[h].copy EXCEPT !.refresh = account.refresh])
  /\ Leaves(h)
  /\ UNCHANGED <<minted, live, soon, stale, failures>>

\* save(update_fields=[...]): every column of the copy.
SaveCheck(h) ==
  /\ h \in Checks
  /\ holder[h].step = "save"
  /\ Store(holder[h].copy)
  /\ Leaves(h)
  /\ UNCHANGED <<minted, live, soon, stale, failures>>

----------------------------------------------------------------------------------
(* _provider_and_access_token and refresh_oauth_token: the publish attempt. *)

LoadForPublish(h) ==
  /\ holder[h].step = "idle"
  /\ account.expiry \in soon
  /\ Continue(h, "refresh", account)
  /\ UNCHANGED <<account, minted, live, soon, stale, failures, strayed>>

\* A failed refresh is logged, and the attempt goes on with the old token.
RefreshInPublish(h) ==
  LET copy == holder[h].copy
  IN  /\ h \in Engines
      /\ holder[h].step = "refresh"
      /\ \/ MintAnswered(copy.refresh) /\ Continue(h, "save", OfGrant(live', "connected"))
         \/ RefreshFails(copy.refresh) /\ Leaves(h)
      /\ UNCHANGED <<account, soon, stale>>

SavePublish(h) ==
  /\ h \in Engines
  /\ holder[h].step = "save"
  /\ Store(holder[h].copy)
  /\ Leaves(h)
  /\ UNCHANGED <<minted, live, soon, stale, failures>>

----------------------------------------------------------------------------------
\* A process dies; with it, perhaps, the only copy of the new refresh token.
HolderDies(h) ==
  /\ holder[h].step \notin {"idle", "scheduled"}
  /\ FailsAtWill
  /\ Leaves(h)
  /\ strayed' = IF holder[h].copy.refresh # account.refresh THEN strayed \cup {"lost"} ELSE strayed
  /\ UNCHANGED <<account, minted, live, soon, stale>>

\* _create_or_update_account with a new grant.
Reconnect ==
  /\ minted < MaxGrants
  /\ minted' = minted + 1
  /\ live' = minted'
  /\ account' = OfGrant(minted', "connected")
  /\ strayed' = {}
  /\ UNCHANGED <<soon, stale, holder, failures>>

\* The person withdraws the app's access on the platform.
Revoke ==
  /\ live # 0
  /\ live' = 0
  /\ strayed' = strayed \cup {"revoked"}
  /\ UNCHANGED <<account, minted, soon, stale, holder, failures>>

\* The last grant of the instance does not grow old.
TimePassesFor(g) ==
  /\ g <= minted
  /\ g < MaxGrants
  /\ \/ g \notin soon /\ soon' = soon \cup {g} /\ UNCHANGED stale
     \/ g \in soon \ stale /\ stale' = stale \cup {g} /\ UNCHANGED soon
  /\ UNCHANGED <<account, minted, live, holder, failures, strayed>>

----------------------------------------------------------------------------------
CheckStep(h) ==
  \/ ScheduleCheck(h)
  \/ LoadForCheck(h)
  \/ RefreshInCheck(h)
  \/ Validate(h)
  \/ SaveCheck(h)

AccountNext ==
  \/ \E h \in Checks : CheckStep(h)
  \/ \E h \in Engines : LoadForPublish(h) \/ RefreshInPublish(h) \/ SavePublish(h)
  \/ \E h \in Holders : HolderDies(h)
  \/ Reconnect
  \/ Revoke
  \/ \E g \in Grants : TimePassesFor(g)

AccountSpec == AccountInit /\ [][AccountNext]_accountVars

----------------------------------------------------------------------------------
(* Properties. *)

\* The access token, the refresh token and the expiry of an account belong to
\* one grant, and it is the live one, or on its way to the row.  Only an overlap
\* of two refreshes, a lost answer or the person's own doing leaves an account
\* with a refresh token the platform does not take.
StoredGrantIsLive ==
  /\ account.access = account.refresh /\ account.expiry = account.refresh
  /\ \/ account.refresh = live
     \/ strayed # {}
     \/ \E h \in Holders : holder[h].step \in {"profile", "save"} /\ holder[h].copy.refresh = live

\* An account whose tokens no longer work does not stay "connected": a health
\* check repairs it or says so.
DeadIsShown ==
  account.status = "connected" /\ ~Works(account.access)
    ~> account.status # "connected" \/ Works(account.access)

\* An account is connected with tokens that work, or says that it is not.
TokensAreHonest == []StoredGrantIsLive /\ DeadIsShown

==================================================================================
