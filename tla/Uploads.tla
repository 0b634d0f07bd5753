--------------------------------- MODULE Uploads ---------------------------------
(***************************************************************************)
(* One presigned upload and the asset it becomes: the MCP tools            *)
(* request_media_upload and finalize_media_upload (src/apps/mcp/           *)
(* handlers.py), the media library's services and its two sweeps           *)
(* (src/apps/media_library/services.py and tasks.py), and the posts that   *)
(* attach the asset meanwhile.                                             *)
(*                                                                         *)
(* The upload has a row, and a key in object storage.  The bytes are       *)
(* inspected without a lock; the row is finalized under one; neither of    *)
(* the sweeps nor delete_asset takes it.                                   *)
(***************************************************************************)
EXTENDS FiniteSets, Naturals

CONSTANTS
  Assets,      \* identities of MediaAsset rows
  Finalizers,  \* finalize_media_upload calls that may be outstanding
  Deleters     \* delete_asset calls of people that may be outstanding

OrphanSweep == "orphan sweep"

ASSUME UploadsAssumption == OrphanSweep \notin Deleters

VARIABLES
  stored,     \* the bytes are in storage under the upload's key
  upload,     \* the PendingUpload: open, finalized or deleted
  expired,    \* expires_at has passed
  target,     \* its media_asset
  assets,     \* MediaAsset rows at the key
  minted,     \* every asset there ever was
  use,        \* how posts use an asset
  finalizing, \* what each finalize call does next
  reaping,    \* what sweep_pending_uploads does next
  orphans,    \* assets the orphan sweep found unreferenced
  deleting,   \* what each deletion does next, and to which asset
  \* history
  raced,      \* why the bytes may be gone from under an asset
  slipped     \* assets scheduled after their deletion had looked for posts

uploadVars == <<stored, upload, expired, target>>
assetVars == <<assets, minted, use>>
sweepVars == <<reaping, orphans, deleting>>
mediaVars == <<uploadVars, assetVars, finalizing, sweepVars, raced, slipped>>

AllDeleters == Deleters \cup {OrphanSweep}
Deletion == [step : {"none", "checked", "unlinked"}, asset : SUBSET Assets]
NoDeletion == [step |-> "none", asset |-> {}]
Reasons == {"overlap", "late", "deletion"}

MediaTypeOK ==
  /\ stored \in BOOLEAN
  /\ upload \in {"open", "finalized", "deleted"}
  /\ expired \in BOOLEAN
  /\ target \in SUBSET assets
  /\ assets \subseteq minted
  /\ minted \subseteq Assets
  /\ use \in [Assets -> {"none", "attached", "scheduled"}]
  /\ finalizing \in [Finalizers -> {"idle", "inspecting", "valid"}]
  /\ reaping \in {"idle", "chosen", "cleared"}
  /\ orphans \subseteq Assets
  /\ deleting \in [AllDeleters -> Deletion]
  /\ raced \subseteq Reasons
  /\ slipped \subseteq Assets

\* request_media_upload has presigned the key and written the row.
MediaInit ==
  /\ stored = FALSE
  /\ upload = "open"
  /\ expired = FALSE
  /\ target = {}
  /\ assets = {}
  /\ minted = {}
  /\ use = [a \in Assets |-> "none"]
  /\ finalizing = [f \in Finalizers |-> "idle"]
  /\ reaping = "idle"
  /\ orphans = {}
  /\ deleting = [d \in AllDeleters |-> NoDeletion]
  /\ raced = {}
  /\ slipped = {}

\* The agent posts the bytes while the presigned URL is valid.
PutObject ==
  /\ ~expired
  /\ ~stored
  /\ stored' = TRUE
  /\ UNCHANGED <<upload, expired, target, assetVars, finalizing, sweepVars, raced, slipped>>

Expire ==
  /\ ~expired
  /\ expired' = TRUE
  /\ UNCHANGED <<stored, upload, target, assetVars, finalizing, sweepVars, raced, slipped>>

---------------------------------------------------------------------------------
(* finalize_media_upload. *)

\* The unlocked read: a row that is finalized is replayed, one that is gone or
\* expired is refused, and neither changes anything.
StartFinalize(f) ==
  /\ finalizing[f] = "idle"
  /\ upload = "open"
  /\ ~expired
  /\ finalizing' = [finalizing EXCEPT ![f] = "inspecting"]
  /\ raced' = IF \E g \in Finalizers : finalizing[g] # "idle" THEN raced \cup {"overlap"} ELSE raced
  /\ UNCHANGED <<uploadVars, assetVars, sweepVars, slipped>>

\* Mutant: missing bytes are taken for an upload still on its way.
InspectMissing(f) ==
  /\ finalizing[f] = "inspecting"
  /\ finalizing' = [finalizing EXCEPT ![f] = "valid"]
  /\ UNCHANGED <<uploadVars, assetVars, sweepVars, raced, slipped>>

\* inspect_uploaded_object: bytes that are missing are refused, bytes that do
\* not pass validation or the organisation's quota are deleted (at best).
Inspect(f) ==
  /\ finalizing[f] = "inspecting"
  /\ \/ /\ stored
        /\ finalizing' = [finalizing EXCEPT ![f] = "valid"]
        /\ UNCHANGED stored
     \/ /\ finalizing' = [finalizing EXCEPT ![f] = "idle"]
        /\ stored' \in {stored, FALSE}
  /\ UNCHANGED <<upload, expired, target, assetVars, sweepVars, raced, slipped>>

\* A new asset at the upload's key.
Mint(f, a) ==
  /\ a \in Assets \ minted
  /\ assets' = assets \cup {a}
  /\ minted' = minted \cup {a}
  /\ target' = {a}
  /\ upload' = "finalized"
  /\ raced' = IF expired THEN raced \cup {"late"} ELSE raced
  /\ finalizing' = [finalizing EXCEPT ![f] = "idle"]
  /\ UNCHANGED <<stored, expired, use, sweepVars, slipped>>

\* Under the row lock: the asset of a call that won, or a new one.  A row that
\* is gone raises; a finalized row whose asset was deleted mints another.
Register(f) ==
  /\ finalizing[f] = "valid"
  /\ \/ upload # "deleted" /\ target = {} /\ \E a \in Assets : Mint(f, a)
     \/ /\ upload = "deleted" \/ target # {}
        /\ finalizing' = [finalizing EXCEPT ![f] = "idle"]
        /\ UNCHANGED <<uploadVars, assetVars, sweepVars, raced, slipped>>

---------------------------------------------------------------------------------
(* sweep_pending_uploads. *)

\* Mutants: rows whose bytes never came are passed over; expiry is not asked.
ChooseStored ==
  /\ reaping = "idle"
  /\ upload = "open" /\ expired /\ stored
  /\ reaping' = "chosen"
  /\ UNCHANGED <<uploadVars, assetVars, finalizing, orphans, deleting, raced, slipped>>

ChooseAnyAge ==
  /\ reaping = "idle"
  /\ upload = "open"
  /\ reaping' = "chosen"
  /\ UNCHANGED <<uploadVars, assetVars, finalizing, orphans, deleting, raced, slipped>>

\* The query's row, as it was when the query ran.
Choose ==
  /\ reaping = "idle"
  /\ upload = "open" /\ expired
  /\ reaping' = "chosen"
  /\ UNCHANGED <<uploadVars, assetVars, finalizing, orphans, deleting, raced, slipped>>

\* delete_object, at best.
ClearObject ==
  /\ reaping = "chosen"
  /\ reaping' = "cleared"
  /\ stored' \in {stored, FALSE}
  /\ UNCHANGED <<upload, expired, target, assetVars, finalizing, orphans, deleting, raced, slipped>>

DeleteAssetRow ==
  /\ reaping = "cleared"
  /\ reaping' = "idle"
  /\ upload' = "deleted"
  /\ target' = {}
  /\ UNCHANGED <<stored, expired, assetVars, finalizing, orphans, deleting, raced, slipped>>

---------------------------------------------------------------------------------
(* delete_asset and the sweep of orphaned media. *)

\* The sweep's references, computed once.
Scan ==
  /\ deleting[OrphanSweep] = NoDeletion
  /\ orphans = {}
  /\ orphans' = {a \in assets : use[a] = "none"}
  /\ UNCHANGED <<uploadVars, assetVars, finalizing, reaping, deleting, raced, slipped>>

\* d takes up asset a, which passed the check for scheduled posts or not.
TakeUp(d, a, passed) ==
  /\ deleting[d] = NoDeletion
  /\ a \in assets
  /\ d = OrphanSweep => a \in orphans
  /\ deleting' = IF passed THEN [deleting EXCEPT ![d] = [step |-> "checked", asset |-> {a}]]
                 ELSE deleting
  /\ orphans' = IF d = OrphanSweep THEN orphans \ {a} ELSE orphans
  /\ raced' = IF passed THEN raced \cup {"deletion"} ELSE raced
  /\ UNCHANGED <<uploadVars, assetVars, finalizing, reaping, slipped>>

\* Mutant: the sweep trusts its scan.
CheckUnlessScanned(d, a) == TakeUp(d, a, d = OrphanSweep \/ use[a] # "scheduled")

\* _check_post_references.
CheckPosts(d, a) == TakeUp(d, a, use[a] # "scheduled")

\* The files go first, then the row and, by cascade, its attachments.
Unlink(d) ==
  /\ deleting[d].step = "checked"
  /\ stored' = FALSE
  /\ deleting' = [deleting EXCEPT ![d].step = "unlinked"]
  /\ UNCHANGED <<upload, expired, target, assetVars, finalizing, reaping, orphans, raced, slipped>>

\* Mutant: the upload keeps pointing at an asset that is gone.
DeleteAssetOnly(d) ==
  /\ deleting[d].step = "unlinked"
  /\ assets' = assets \ deleting[d].asset
  /\ use' = [a \in Assets |-> IF a \in deleting[d].asset THEN "none" ELSE use[a]]
  /\ deleting' = [deleting EXCEPT ![d] = NoDeletion]
  /\ UNCHANGED <<uploadVars, minted, finalizing, reaping, orphans, raced, slipped>>

DeleteAsset(d) ==
  LET gone == deleting[d].asset
  IN  /\ deleting[d].step = "unlinked"
      /\ assets' = assets \ gone
      /\ use' = [a \in Assets |-> IF a \in gone THEN "none" ELSE use[a]]
      /\ target' = target \ gone
      /\ deleting' = [deleting EXCEPT ![d] = NoDeletion]
      /\ UNCHANGED <<stored, upload, expired, minted, finalizing, reaping, orphans, raced, slipped>>

\* The process dies between the files and the row.
DeletionDies(d) ==
  /\ deleting[d] # NoDeletion
  /\ deleting' = [deleting EXCEPT ![d] = NoDeletion]
  /\ UNCHANGED <<uploadVars, assetVars, finalizing, reaping, orphans, raced, slipped>>

---------------------------------------------------------------------------------
(* Posts. *)

Uses(a, u) ==
  /\ a \in assets
  /\ use' = [use EXCEPT ![a] = u]
  /\ slipped' = IF u = "scheduled" /\ \E d \in AllDeleters : a \in deleting[d].asset
                  THEN slipped \cup {a} ELSE slipped
  /\ UNCHANGED <<uploadVars, assets, minted, finalizing, sweepVars, raced>>

Attach(a) == use[a] = "none" /\ Uses(a, "attached")
SchedulePost(a) == use[a] = "attached" /\ Uses(a, "scheduled")

\* Published, or back to a draft: attached, and no longer protected.
ReleasePost(a) == use[a] = "scheduled" /\ Uses(a, "attached")
Detach(a) == use[a] = "attached" /\ Uses(a, "none")

---------------------------------------------------------------------------------
Reap == Choose \/ ClearObject \/ DeleteAssetRow

MediaNext ==
  \/ PutObject
  \/ Expire
  \/ \E f \in Finalizers : StartFinalize(f) \/ Inspect(f) \/ Register(f)
  \/ Reap
  \/ Scan
  \/ \E d \in AllDeleters :
       \/ \E a \in Assets : CheckPosts(d, a)
       \/ Unlink(d)
       \/ DeleteAsset(d)
       \/ DeletionDies(d)
  \/ \E a \in Assets : Attach(a) \/ SchedulePost(a) \/ ReleasePost(a) \/ Detach(a)

MediaSpec == MediaInit /\ [][MediaNext]_mediaVars

---------------------------------------------------------------------------------
(* Properties. *)

\* "Idempotent replay: never mint a second": however many finalize calls work
\* on one upload, there is one asset at its key at a time.
OneAssetPerUpload == Cardinality(assets) <= 1

\* The bytes of an asset are there, unless two finalize calls overlapped (one
\* may reject what the other registered), a call outlived the upload's expiry
\* (the sweep takes it for abandoned), or someone deletes the asset.
AssetsAreBacked == assets # {} /\ ~stored => raced # {}

\* An upload is one asset, and the asset has its bytes.
UploadIsWhole == OneAssetPerUpload /\ AssetsAreBacked

\* An asset that a post is about to publish is not deleted, unless the post was
\* scheduled after the deletion had looked for posts.
ScheduledMediaKept ==
  [][\A a \in assets : use[a] = "scheduled" /\ a \notin slipped => a \in assets']_mediaVars

\* An upload nobody finalizes is reaped.
AbandonedIsReaped == expired /\ upload = "open" ~> upload # "open"

==================================================================================
