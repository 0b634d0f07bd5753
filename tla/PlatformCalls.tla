------------------------------- MODULE PlatformCalls -------------------------------
(***************************************************************************)
(* The publish_post of every provider (src/providers), as the engine drives*)
(* it: a kind of post is a plan of requests, an attempt carries the plan   *)
(* out until a request fails in a way that matters, and the engine repeats *)
(* the attempt until its retries are spent or the failure is permanent.    *)
(*                                                                         *)
(* The platform may refuse a request, or take it and answer badly: the     *)
(* connection breaks, or the id the provider needs is not in the answer.   *)
(***************************************************************************)
EXTENDS Integers, Sequences, SequencesExt

CONSTANTS
  Photos,     \* media of the post
  Videos,     \* which of them are videos
  Attempts,   \* 1 + MAX_RETRIES
  Polls       \* CONTAINER_POLL_MAX_ATTEMPTS, or the polls until the deadline

ASSUME PlatformAssumption ==
  /\ Photos \in Nat \ {0}
  /\ Videos \subseteq 1 .. Photos
  /\ Attempts \in Nat \ {0}
  /\ Polls \in Nat \ {0}

-----------------------------------------------------------------------------------
(* Plans.  A step asks, stages medium `of' (0 is a carousel), waits for what *)
(* was staged, or publishes.  strict: a failed question, or an answer        *)
(* without id, ends the attempt.  final: a refusal may be permanent.         *)

Request(does, of, strict, final) ==
  [does |-> does, of |-> of, strict |-> strict, final |-> final]

Ask == Request("ask", 0, TRUE, FALSE)
Tell == Request("ask", 0, FALSE, FALSE)
Stage(m) == Request("stage", m, TRUE, FALSE)
Wait == Request("wait", 0, TRUE, FALSE)
PublishForId == Request("publish", 0, TRUE, FALSE)     \* needs the id of the post
PublishAnyhow == Request("publish", 0, FALSE, FALSE)   \* an empty id will do

ForEach(Steps(_)) == FlattenSeq([m \in 1 .. Photos |-> Steps(m)])

FacebookFeed == <<PublishForId>>
FacebookPhoto == <<PublishForId>>
FacebookPhotos == ForEach(LAMBDA m : <<Stage(m)>>) \o <<PublishForId>>

\* Mutant: the metadata request after the video is up may raise.
FacebookVideoStrict == <<PublishForId, Ask>>

\* post_id and permalink of the video are asked for when it is already up.
FacebookVideo == <<PublishForId, Tell>>

InstagramSingle == <<Stage(1), Wait, PublishAnyhow>>
InstagramCarousel ==
  ForEach(LAMBDA m : <<Stage(m), Wait>>) \o <<Stage(0), Wait, PublishAnyhow>>
InstagramLoginSingle == <<Stage(1), Wait, PublishAnyhow>>
InstagramLoginCarousel == InstagramCarousel

\* The profile gives the user; only media containers are waited for.
ThreadsText == <<Ask, Stage(0), PublishAnyhow>>
ThreadsMedia == <<Ask, Stage(1), Wait, PublishAnyhow>>
ThreadsCarousel ==
  <<Ask>> \o ForEach(LAMBDA m : IF m \in Videos THEN <<Stage(m), Wait>> ELSE <<Stage(m)>>)
          \o <<Stage(0), Wait, PublishAnyhow>>

LinkedInText == <<Ask, PublishAnyhow>>
LinkedInImage == <<Ask, Stage(1), Ask, PublishAnyhow>>            \* the bytes
LinkedInVideo == <<Ask, Stage(1), Ask, Ask, Wait, PublishAnyhow>> \* chunks, finalizeUpload

\* The upload of the bytes puts the video up; the thumbnail is best effort.
YouTubeVideo == <<Ask, PublishAnyhow, Tell>>

\* creator_info may fail, or name a limit the post exceeds; the upload puts the video up.
TikTokCheck == Request("ask", 0, FALSE, TRUE)
TikTokUpload == <<TikTokCheck, Request("ask", 0, TRUE, TRUE), PublishAnyhow>>
TikTokPull == <<TikTokCheck, Request("publish", 0, FALSE, TRUE)>>

MastodonStatus == ForEach(LAMBDA m : <<Stage(m)>>) \o <<PublishForId>>

\* The session gives the DID, handles that do not resolve are skipped, and a
\* blob without reference is passed on.
BlueskyPost ==
  <<Ask, Tell>> \o ForEach(LAMBDA m : <<Request("stage", m, FALSE, FALSE)>>) \o <<PublishAnyhow>>

PinterestImage == <<PublishAnyhow>>
PinterestVideo == <<Request("stage", 1, FALSE, FALSE), Ask, PublishAnyhow>>
GoogleBusinessPost == <<Ask, Ask, PublishAnyhow>>
DevToArticle == <<PublishForId>>

Plans == [
  facebookFeed |-> FacebookFeed, facebookPhoto |-> FacebookPhoto,
  facebookPhotos |-> FacebookPhotos, facebookVideo |-> FacebookVideo,
  instagram |-> InstagramSingle, instagramCarousel |-> InstagramCarousel,
  instagramLogin |-> InstagramLoginSingle, instagramLoginCarousel |-> InstagramLoginCarousel,
  threads |-> ThreadsText, threadsMedia |-> ThreadsMedia, threadsCarousel |-> ThreadsCarousel,
  linkedin |-> LinkedInText, linkedinImage |-> LinkedInImage, linkedinVideo |-> LinkedInVideo,
  youtube |-> YouTubeVideo, tiktok |-> TikTokUpload, tiktokPull |-> TikTokPull,
  mastodon |-> MastodonStatus, bluesky |-> BlueskyPost,
  pinterest |-> PinterestImage, pinterestVideo |-> PinterestVideo,
  googleBusiness |-> GoogleBusinessPost, devto |-> DevToArticle]

CleansUp == {"facebookPhotos"}   \* kinds whose failed attempts delete what they staged

-----------------------------------------------------------------------------------
VARIABLES
  kind,      \* what is published
  attempt,   \* retry_count + 1
  at,        \* the next step of the plan
  phase,     \* "calling", "cleaning", "retry", or how it ended
  polls,     \* polls of the present wait
  staged,    \* media whose ids the attempt holds
  \* the platform
  objects,   \* staged media that exist there, by attempt
  posts,     \* visible posts: the attempt that made each and its media
  \* history
  unheard,   \* attempts whose post is up, for all the provider does not know
  strays     \* objects whose id never arrived, or whose deletion failed

platformVars == <<kind, attempt, at, phase, polls, staged, objects, posts, unheard, strays>>

Media == 0 .. Photos
Numbers == 1 .. Attempts

PlatformTypeOK ==
  /\ kind \in DOMAIN Plans
  /\ attempt \in Numbers
  /\ at \in 1 .. Len(Plans[kind]) + 1
  /\ phase \in {"calling", "cleaning", "retry", "published", "failed", "dead"}
  /\ polls \in 0 .. Polls - 1
  /\ staged \subseteq Media
  /\ objects \cup strays \subseteq Numbers \X Media
  /\ posts \subseteq [by : Numbers, media : SUBSET Media]
  /\ unheard \subseteq Numbers

PlatformInit ==
  /\ kind \in DOMAIN Plans
  /\ attempt = 1
  /\ at = 1
  /\ phase = "calling"
  /\ polls = 0
  /\ staged = {}
  /\ objects = {}
  /\ posts = {}
  /\ unheard = {}
  /\ strays = {}

Current == Plans[kind][at]
Doing(what) == phase = "calling" /\ Current.does = what
Object == <<attempt, Current.of>>

\* The request is answered well: the next step, or the result.
Proceed ==
  /\ at' = at + 1
  /\ polls' = 0
  /\ phase' = IF at = Len(Plans[kind]) THEN "published" ELSE "calling"

\* _schedule_retry, or _fail_permanently.
GiveUp(final) ==
  phase' = IF final \/ attempt = Attempts THEN "failed" ELSE "retry"

\* The exception leaves publish_post, by way of its except clause if it has one.
Raise(final) ==
  /\ UNCHANGED <<at, polls>>
  /\ \/ kind \in CleansUp /\ phase' = "cleaning"
     \/ kind \notin CleansUp /\ GiveUp(final)

-----------------------------------------------------------------------------------
Question ==
  /\ Doing("ask")
  /\ \/ Proceed
     \/ Current.strict /\ Raise(FALSE)
     \/ Current.final /\ Raise(TRUE)
  /\ UNCHANGED <<kind, attempt, staged, objects, posts, unheard, strays>>

\* Containers, images, uploads and blobs.
StageMedium ==
  /\ Doing("stage")
  /\ \/ /\ Proceed
        /\ staged' = staged \cup {Current.of}
        /\ objects' = objects \cup {Object}
        /\ UNCHANGED strays
     \/ /\ Raise(FALSE)
        /\ UNCHANGED <<staged, objects, strays>>
     \/ /\ Raise(FALSE) \/ (~Current.strict /\ Proceed)
        /\ objects' = objects \cup {Object}
        /\ strays' = strays \cup {Object}
        /\ UNCHANGED staged
  /\ UNCHANGED <<kind, attempt, posts, unheard>>

PollUntil(last) ==
  /\ Doing("wait")
  /\ \/ Proceed
     \/ Raise(FALSE)   \* the request fails, the platform cannot use the medium, or time is up
     \/ /\ polls < last
        /\ polls' = polls + 1
        /\ UNCHANGED <<at, phase>>
  /\ UNCHANGED <<kind, attempt, staged, objects, posts, unheard, strays>>

\* Mutant: one poll too many.
PollAgain == PollUntil(Polls)

\* _wait_for_container, _wait_for_video_available.
Poll == PollUntil(Polls - 1)

\* The request that makes the post visible.
PutUp ==
  /\ Doing("publish")
  /\ \/ /\ Raise(FALSE) \/ (Current.final /\ Raise(TRUE))
        /\ UNCHANGED <<posts, unheard>>
     \/ /\ posts' = posts \cup {[by |-> attempt, media |-> staged]}
        /\ \/ Proceed /\ UNCHANGED unheard                            \* also without id, if that will do
           \/ Raise(FALSE) /\ unheard' = unheard \cup {attempt}
  /\ UNCHANGED <<kind, attempt, staged, objects, strays>>

\* _delete_staged_photos: one request after another, whose failures are ignored.
DeleteStagedPhoto ==
  /\ phase = "cleaning"
  /\ \E m \in staged :
       /\ \A n \in staged : m <= n
       /\ staged' = staged \ {m}
       /\ \/ objects' = objects \ {<<attempt, m>>} /\ UNCHANGED strays
          \/ strays' = strays \cup {<<attempt, m>>} /\ UNCHANGED objects
  /\ UNCHANGED <<kind, attempt, at, phase, polls, posts, unheard>>

EndCleanup ==
  /\ phase = "cleaning"
  /\ staged = {}
  /\ GiveUp(FALSE)
  /\ UNCHANGED <<kind, attempt, at, polls, staged, objects, posts, unheard, strays>>

\* _process_retries takes the row when its backoff is over.
Retry ==
  /\ phase = "retry"
  /\ attempt' = attempt + 1
  /\ at' = 1
  /\ phase' = "calling"
  /\ polls' = 0
  /\ staged' = {}
  /\ UNCHANGED <<kind, objects, posts, unheard, strays>>

\* The worker dies in the attempt; the row stays publishing and is not taken again.
WorkerDies ==
  /\ phase \in {"calling", "cleaning"}
  /\ phase' = "dead"
  /\ UNCHANGED <<kind, attempt, at, polls, staged, objects, posts, unheard, strays>>

PlatformNext ==
  \/ Question
  \/ StageMedium
  \/ Poll
  \/ PutUp
  \/ DeleteStagedPhoto
  \/ EndCleanup
  \/ Retry
  \/ WorkerDies

PlatformSpec == PlatformInit /\ [][PlatformNext]_platformVars

-----------------------------------------------------------------------------------
(* Properties. *)

Raised(n) == n < attempt \/ (n = attempt /\ phase \in {"cleaning", "retry", "failed"})

\* On no platform is a post put up twice, or a post that is up called failed,
\* except where the provider could not know that its request was taken: what a
\* provider does after the post is up must not make its attempt fail.
RepostsAreUnheard == \A p \in posts : Raised(p.by) => p.by \in unheard

\* The clean-up of a multi-photo post takes what it should and no more: a post
\* the provider heard of keeps its photos, and a failed attempt leaves none
\* behind but those whose ids never arrived or whose deletion failed.
CleanupIsExact ==
  /\ \A p \in posts : p.by \notin unheard => {p.by} \X p.media \subseteq objects
  /\ kind \in CleansUp =>
       \A o \in objects \ strays :
         Raised(o[1]) => o[1] = attempt /\ phase = "cleaning"

\* An attempt is what its outcome says it is: a failed one left no post the
\* provider had heard of, and nothing staged for one.
AttemptsAreHonest == RepostsAreUnheard /\ CleanupIsExact

====================================================================================
