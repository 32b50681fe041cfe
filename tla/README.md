# Guard API: specifications

TLA+ modules, TLC instances and TLAPS proofs for the moderation service in this
repository. Paths without a directory are in this one; `app/...` and the others are the
repository's. `PROJECT.json` maps every definition that models code to its lines, lists
the runs, the mutated definitions each property is known to catch, the hazards, and the
theorems.

    tlc -workers 4 -config Moderation.cfg MCModeration     # a run
    tlapm ModerationProofs.tla                             # a proof

## 1. The system

Guard API takes text, images, audio and video from its customers' platforms and answers
`allow`, `review` or `block`. It is a FastAPI application (`app/main.py`) over one SQL
database, optionally with Redis for rate limits, an inference service for text models
(`inference_service/`), a local vision model, Stripe for plans, Clerk for sign-in and
Meta for social inboxes.

Two kinds of concurrency matter everywhere. Dependencies such as authentication are plain
functions, run in a thread pool with a database session and a commit of their own. Most
handlers are `async def`: one process runs such a handler undisturbed up to the next
`await`, and then other handlers run. Several processes may serve one database, and they
interleave at its transactions; nothing in the code takes row locks.

| Component | State it keeps | Operations | Talks to | Hard behaviour | Correct when |
|---|---|---|---|---|---|
| Moderation pipeline `app/services/moderation_service.py` | request, result, case and audit rows of a call, flushed and then committed | moderate text, image, audio, video; dry run | policies, quotas, inference, scanners, repository | awaits between quota check and charge; failure between flushes; month boundary | a decision's rows commit together or not at all; charges stay close to the quota |
| Quota pools `app/repositories/tenants.py`, `app/usage_credits.py` | none of its own: sums stored rows | price a call, find the workspaces that share its quota, sum the month | pipeline, workspaces | who shares what; started minutes; rows without a stored cost | each call is charged at its price, to one pool, in one month |
| Policy evaluation `app/policy.py`, `app/taxonomy.py` | none | thresholds in force, decision | pipeline | overrides, lower limits, defaults and protected mode combine | stricter settings and higher scores never soften a decision |
| Policy updates `app/services/policy_service.py` | `tenant_policies` | read, `PUT /policies/me` | evaluation, audit log | read-modify-write by several processes, two transactions | what is stored can be read; nobody's change is undone; changes are logged |
| Workspaces `app/main.py` | `tenants` | onboard, rename, delete, share billing | quotas, billing, keys | copies of plan and subscription on several rows | the copies agree and trace back to a payment |
| Billing `app/services/billing_service.py` | plan, quota, status and subscription id on `tenants` | checkout, two webhooks, portal | Stripe | late, repeated, reordered events; several subscriptions | quota follows the subscription that is paid for |
| API keys and sessions `app/auth.py`, `app/security.py`, `app/bootstrap.py` | `api_keys`, session tokens | authenticate, create, rotate, deactivate, open a session, bootstrap | every handler | `last_used_at` committed beside other changes; limit counted first; restarts | a key that was switched off stays off; limits hold |
| Social inbox `app/services/social_service.py`, `social_actions.py` | `connected_accounts`, `social_events`, `social_actions` | connect, disconnect, remove, webhook, action | pipeline, Meta | platform call with a timeout; deliveries twice; stale rows after an await | the inbox says what the platform shows; a row has a token only while connected |
| Vision model `app/vision_safety.py` | model, preprocess, tokenizer, text features of one scanner | warm up, scan image, scan video | pipeline | double-checked lock of two threads; sampling, batches and cuts of a video | loaded once, published whole, scans return; an unsafe picture that was looked at reaches the answer |
| Meta OAuth `app/services/meta_oauth.py` | none: state token in the URL | start, callback, store pages | Meta, social inbox | expiry, partial page lists | every page is stored with its token |
| Clerk authentication `app/clerk_auth.py` | JWKS cache of a process | verify a session token | Clerk | cached key set, several threads refreshing it, failed refresh | a withdrawn key stops working, a new one starts to, both within the lifetime of the cache |
| Review cases `app/repositories/moderation.py` | `review_cases` | list, update status, assignee, notes | pipeline, audit log | JSON list rewritten as a whole by several processes | a note is lost to a concurrent note only; nobody's status is reverted |
| Rate limiter middleware in `app/main.py` | Redis counter or buckets in memory | admit or refuse a request | Redis, every handler | Redis failing midway; handlers raising inside its `try` | limits hold per counter; nobody is refused early; a handler is run again only after it failed |
| Text detectors `app/detectors.py`, `app/inference_client.py` | none | rule scores, fusion with model scores | inference service | caps and reductions across categories | more evidence never clears a content, two exceptions apart; nothing that is seen is hidden, and words flagged by themselves stay flagged among others |
| Audio and cloud image scanners | none | transcribe, scan | external services | errors and fallbacks | every error ends in a fallback or an answer |
| Dashboard, audit log, settings, migrations, frontend | audit events; configuration | reads, one-shot scripts, user interface | all | little | see section 8 |

## 2. Modules

    UsageCredits   prices ----------------+
    Tenancy        who shares a quota --+ |
                                        | |
    QuotaPool  <== implemented by == Moderation      (MCModeration, ModerationProofs)
                                        |
                                     Workspaces       (MCWorkspaces, WorkspacesProofs)
    Policy --- PolicyUpdates --+
       |                       +-- DashboardUpdates   (MCPolicy, MCDashboard, PolicyProofs)
       |       ReviewCases   --+
       |
       +------ Detectors ------+
               VisionLabels  --+-- Scoring            (MCScoring, ScoringProofs)
               VisionScanner --+                      (VisionProofs)

    RateLimiter ---+
                   +-- Gateway                        (MCGateway, GatewayProofs)
    ClerkKeys   ---+
    ApiKeys                                           (MCApiKeys, ApiKeysProofs)
    SocialInbox                                       (MCSocialInbox, SocialProofs)

`Tenancy` and `UsageCredits` are pure operators: the queries over the table of workspaces
and the prices. `Moderation` and `Workspaces` are two views of the system that share
them: the first keeps the table fixed and lets calls run, the second keeps calls to one
counter and lets the table change.

### UsageCredits, Tenancy

`credits_for_modality`, `credits_for_usage`, `credits_for_record` are the functions of
`app/usage_credits.py`; `StartedMinutes` is its rounding up. `active_account_scope_tenants`,
`QuotaScope`, `list_tenants_by_clerk_owner`, `Owned` are the queries of
`app/repositories/tenants.py`; a table is a function from slugs to rows, NULL is `NoOwner`.
`ClosedPool` says that all members of a pool are checked against that very pool: only then
is there one quota to speak of. It fails for a user who owns workspaces both alone and
for an organisation, because `app/repositories/tenants.py` selects by organisation in one
query and by user in another.

### Moderation

| TLA+ | Code |
|---|---|
| `Authenticate` | `get_moderation_tenant`, in the thread pool |
| `RefuseUnmetered`, `RefuseOverQuota` | the 422 for an upload without duration, the 402 of `_enforce_monthly_quota` |
| `Admit` | price and quota check, with the committed usage of that instant |
| `Decide` | the awaited inference, transcription or scan, and the policy's action |
| `CreateRequest`, `CreateResult`, `CreateCase`, `LogEvent` | the flushes of `_persist_response`; `session[r]` holds rows no other session sees |
| `Commit` | `db.commit()` |
| `Fail` | an exception, a lost connection or the death of the process at any point: the session is closed without a commit |
| `NextMonth` | the clock; the usage query selects rows by month |

The four modalities run through the same steps and differ in the price and in the
refusal of an upload without duration. Scores are data: every decision may be any action.

### QuotaPool

What enforcement promises about one pool, with no rows, stages or workspaces: a check
grants a price while settled credits leave room for it, a grant is settled in full or given
up, and the month starts again at zero. `SharedPool` and `OwnPool` of `MCModeration` map
`Moderation` onto it: settled credits are the charges of the current month, and a call holds
its grant from `Admit` to `Commit` or `Fail`.

### Policy, PolicyUpdates

`Policy` reads a stored row the way `get_policy_for_tenant` does (`_sanitize_override`,
`Effective`, `Loadable`) and evaluates it (`Threshold`, `Blocking`, `Reviewing`,
`evaluate_policy`). Scores are integers on a scale of `Top` steps to 1.0; thresholds in
protected mode are kept in tenths of a step, so that the factors 0.8 and 0.9 are exact.
`PolicyUpdates` is the handler of `PUT /policies/me`: `Load`, `Store` (merge and commit),
`Reload` or `ReloadFails`, `LogEvent` (a second transaction). `Column` is what the ORM does
with the row: an UPDATE names the columns that changed since it was loaded.

### ReviewCases, DashboardUpdates

| TLA+ | Code |
|---|---|
| `LoadCase` | `get_review_case`, in the handler of `PATCH /cases/{case_id}` |
| `Updated` | `update_review_case`: status, assignee, and the list of notes copied and extended |
| `CommitCase`, `Written` | the UPDATE of the columns that changed, the audit event and the commit, one transaction |
| `DieOnCase` | the end of the process before the commit |

A note stands for the handler that was sent it; its wording is data. `DashboardUpdates` lets each
handler of a workspace do either kind of update, so that both share the processes that serve them;
`DashboardHandlers` declares what the two modules have in common. `PolicyUpdates` is what remains
of it when the cases are hidden (`DashboardImplementsPolicyUpdates`).

### Workspaces

`Onboard`, `Delete`, `ShareBilling`, `OpenCheckout` and the webhook handlers
`CheckoutCompleted` and `SubscriptionChanged` await nothing between the first query and the
commit, so one process runs each in one step. Stripe is external: `Pay`, `Change` and
`Send` are its side, `events` what it has not had accepted. `Accept` is one delivery
that succeeds; a delivery that raises stays in the list, and is sent again. With `InOrder`
events of one subscription arrive as they happened, otherwise in any order.

### ApiKeys

One workspace, either a bootstrap default or an onboarded one (`boot`). A row is named by its
raw key, since `key_hash` is unique. A call reads its key (`ReadKey`), commits
`last_used_at` (`TouchKey`) and then runs its handler: `CountKeys` and `CreateKey`,
`FindKey` with `DeactivateKey` or `RotateKey`, `OpenSession`. `Update` writes the changed
columns only. `Crash` rolls back what is open; `Start` is `bootstrap_defaults`, which does
not come up when a configured key collides with a row that is inactive (`BootBlocked`).
`surplus` counts rotations of keys that were inactive already: history, read by a property
only.

### SocialInbox

`ConnectAccount`, `DisconnectAccount`, `RemoveAccount` are the handlers of accounts, in one
step each. A removed row is left under the profile `deleted:<id>` (`Deleted`), which is shown in
answers and can be connected as any other: `ConnectAccount` takes every profile, and finds the
removed row by that one. `removed` is a history variable: the rows that were removed and whose own new
value nobody has connected since. A delivery is `Receive` (checks, before moderation is awaited), `Moderated` and
`StoreEvent`, or `DropDelivery`. A moderator's action is `Apply` up to the platform call,
then `Answer` or `Timeout`, then `Record`. The request has a life of its own in `wire`:
`Reach` lets it take effect, also after the caller gave up. `contested` and `alone` are
history variables: they say which comments had overlapping or unanswered actions. A
webhook in Meta's own format names no account, so that its events have `NoAccount` and their
actions are recorded without a platform call.

### VisionScanner

The two threads that meet in `_ensure_model`: the event loop, which scans, and the warm-up.
`CheckOutside`, `Acquire`, `CheckInside`, `Load` or `LoadFails`, and `Publish` once for each
of the four attributes, in the order of the code; `Preprocess` and `Predict` read two of them
later.

### VisionLabels, Detectors, Scoring

From a picture or a text to a decision. `VisionLabels` and `Detectors` are pure operators, `Scoring`
the steps that use them.

| TLA+ | Code |
|---|---|
| `Sampled` | `_sample_video_frames`: `linspace` over the candidates of a video with a frame count, the first ones otherwise; frames that cannot be decoded are left out |
| `Predicted`, `Rounded` | `_predict_labels_batch` for one picture: the `top_k` labels of the greatest similarity, compared with the threshold and then rounded, and `_remove_context_dominated_unsafe_labels` |
| `Merged`, `Inserted`, `Rank`, `Cut`, `scan_video_bytes` | merging labels over frames and batches in a dictionary, which keeps the order of insertion, each followed by a stable sort and a cut to `top_k`: of equally likely labels the one inserted first is kept |
| `_category_scores` | the risk of a category, 55 at the threshold and 99 at the top |
| `FastScore` | `FastRuleDetector.score`; what a pattern or phrase matches is data, its score is the code's |
| `Moderate`, `Context` | `rescore_if_needed`: raised or lowered by the words around a match, when a score is between 35 and 70 |
| `ModerateWithInference`, `Capped` | fusion with the scores of the inference service, whose toxicity is capped where sexual rules matched |
| `HeuristicAnswer`, `ModelAnswer`, `NoLabels` | what `inference_service/` answers without a model, with one, and what the client makes of any failure |
| `Join`, `InCapitals` | texts one after the other: what is found in one of them is found in the whole, and capitals are a matter of the whole |
| `moderate_image`, `moderate_video`, `Seen`, `Heuristic` | caption or transcript, names of detected objects and recognised text joined for the rules; then the names by themselves, SafeSearch and local risks |
| `Caption`, `OcrText`, `Detected`, `CloudCaption` | which sources reach an image: the caller's caption and text keep the cloud's out, names are merged |
| `Transcript` | `_audio_transcript`: what was heard, and the caller's hint behind it |
| `AnswerText`, `AnswerAudio`, `AnswerDescribed`, `AnswerScanned`, `AnswerUnscanned` | `moderate_text`, `_audio`, `_image`, `_video`: a transcription or scan that fails leaves the other sources |

An upload has a text of its own for each source, so that words of one can change what another's are scored.
What is found only where two of them meet, the end of a caption and the beginning of a name, is `seams`.
Scores are hundredths, thresholds the 22 defaults of the source. Similarities are thousandths, one digit
more than the confidences they are rounded to, so that labels tie which were not equally similar. `Scoring`
extends `VisionScanner`: the scan of an upload is the event loop's scan of that module, with the warm-up
thread beside it.

### RateLimiter, ClerkKeys, Gateway

| TLA+ | Code |
|---|---|
| `Arrive`, `Count`, `CountFails` | `rate_limit_requests`: the clock, `INCR` and `EXPIRE`, and the fallback when one of them raises, whether or not Redis counted |
| `Admit`, `Popped` | the deque of stamps of one process |
| `HandlerReturns`, `HandlerRaises` | `call_next`, inside the `try` block whose `except` is the fallback: a handler that raises is admitted and entered a second time |
| `Entered` | the second `call_next`: a body that was read cannot be read again |
| `Look`, `Fetch`, `FetchFails`, `Store` | `_get_jwks`: cache and clock, the request to Clerk, the stale set if that fails, the entry with its expiry counted from the first step |
| `Rotate` | Clerk publishes another key set (external) |
| `Leave` | the verification ends with its request, which may come back |

The requests are those of one client; each client has counters of its own. In `Gateway` a request with a
Clerk token verifies it between being admitted and its handler's end. Verification is part of what
the middleware calls, so that it happens again in a second run.

## 3. Properties

Each run that looks for type errors checks one type invariant, `TypeOK` (`DashboardTypeOK` for the
updates of the dashboard). The others:

| Property | States |
|---|---|
| `OvershootBounded` (Moderation) | in no month does a pool's sum exceed its quota by more than the prices of the other calls in flight; with `MaxInFlight = 1` that is the quota itself |
| `WholeDecisionOrNothing` | request, result, case and audit event of a call are there together or not at all |
| `SharedPoolImplementsQuotaPool`, `OwnPoolImplementsQuotaPool` | the pipeline implements `QuotaPool`, step by step |
| `StoredPolicyLoadable` (PolicyUpdates) | a stored policy can be read back, unless a category has one threshold and leaves the other to its default |
| `ProtectedModeStricter`, `HigherScoresNeverSofter` | the decision is monotone in protected mode and in the scores, for every policy that can be stored |
| `OthersFlagsKept` | an update changes no flag it does not name, however stale the row it loaded |
| `NotesLostOnlyToNotes` (ReviewCases) | a note disappears only under another note, committed by a handler that had read the case before |
| `CaseFieldsKept` | an update that leaves status or assignee open never reverts a concurrent change |
| `PoolRowsAgree` (Workspaces) | members of a pool carry the same quota |
| `QuotaWasPaid` | every quota above the trial goes back to a completed checkout of the same user or organisation |
| `OwnPlanUntouched` | a workspace on its own plan changes quota only with its own subscription's events |
| `DeletionFreesItsUsageOnly` | deleting a workspace changes what the others may use by what it had used itself, which leaves the sum, and by nothing else |
| `PaidWorkspaceHasQuota`, `CancellationSynchronized` | paid plans have credits, and cancelled ones lose them eventually |
| `KeysBounded` (ApiKeys) | active keys pass the limit only by calls in flight and by rotations of inactive keys |
| `DeactivatedStaysOff` | a key that was switched off never works again |
| `InboxAgrees` (SocialInbox) | an undisturbed event has the status of its last action, and the platform shows it |
| `TokensOnlyWhileConnected`, `RemovedHasNoToken` | no row that is not connected has a token, and a removed row gets none unless its own `deleted:<id>` is connected |
| `LoadedOnce`, `PublishedWhole`, `ScansReturn` (VisionScanner) | one model is built, whole once the lock is free, and every scan comes to an answer |
| `MoreEvidenceNeverClears` (Scoring) | under the default thresholds a text or recording that is flagged stays flagged when a match, a marker or a model score is added; gaming slang, which is meant to clear, and lower-case letters, which end the suspicion of a text in capitals, excepted |
| `SourcesNeverClear` | a picture is decided at least as strictly as what is seen in it or its scan would be alone; words that would be flagged by themselves are not cleared by the words joined to them, but for the same two exceptions |
| `VideoRiskExplained` | an unsafe label of a picture looked at reaches the answer unless `top_k` ones at least as likely or the same label beside a safe one take its place, and no risk comes from nowhere |
| `BatchingInvisible` | down to every confidence, as many labels are answered as one batch would give, and as long as there is room the same ones: the size of the batches shows only in labels that tie with the last |
| `ScenesSampled` | a scene as long as the distance between samples is looked at, and no picture twice |
| `AdmittedWithinLimit` (RateLimiter) | no more requests of a minute than the limit are let in by the shared counter, and no more that arrived in any minute by a process, of those that Redis had not counted |
| `RefusedForReason` | a request refused before its handler ran follows as many others of its client, let in by the counter in its minute or admitted by its process in the last one, by the time of their admission |
| `RunAgainOnlyAfterFailure` | a handler runs twice only if it failed, read no body, and was admitted by Redis |
| `KeysAreRecent` (ClerkKeys) | a verification whose own fetch did not fail uses a set that Clerk still published one lifetime ago |

Every one of them is known to fail for at least one plausible bug: `PROJECT.json` "mutants"
names a mapped definition and the mutated form that breaks it (the definitions preceded by a
comment that starts with "Mutant").

## 4. Runs and bounds

| Run | Instance | Shows |
|---|---|---|
| `moderation` | 3 calls, 2 at once; two workspaces share 11 credits, one has 1 of its own; prices 1 and 10; 2 months. 233,000 states | the five properties of the pipeline, with failures at every point |
| `moderation_quota_race` | the same | **violated**: `WithinQuota`; two calls pass the check before either is charged |
| `policy_updates` | 2 categories, 6 steps to 1.0, 2 handlers, each with one of 8 updates of the policy (in and out of order and range, one threshold, flags only; 2 initial rows) or one of a case. 7,198 states | the properties of policies and of review cases |
| `policy_audit` | updates with one threshold | **violated**: `UpdatesAudited`; stored, not readable, not logged |
| `workspaces` | 3 workspaces, 2 users alone and one for an organisation, 1 subscription, 2 events under way, any order, at most one credit used by each. 413,000 states | the four properties of plans and quotas |
| `billing_synchronized` | 1 workspace, 1 subscription, events in order, fairness | `PaidWorkspaceHasQuota`, `CancellationSynchronized` |
| `billing_replaced_plan` | 1 workspace, 2 subscriptions | **violated**: `PaidWorkspaceHasQuota`; the end of the old subscription overwrites the new plan |
| `billing_shared_cancel` | 2 workspaces, 1 subscription, fairness | **violated**: `CancellationSynchronized`; two rows carry the id and `one_or_none()` raises for good |
| `api_keys` | 6 keys, 2 of them bootstrap; 3 calls, 2 at once; limit 2; crashes and restarts. 393,000 states | `KeysBounded`, `DeactivatedStaysOff` |
| `social_inbox` | 2 comments (one on a platform without API), 2 accounts of one profile and of the values they are left with, 1 delivery, 2 moderators. 1.38 million states | the three properties of the inbox |
| `scoring` | 2 scans beside the warm-up; 28 texts, 9 answers of the model, 899 uploads: videos of up to 12 pictures of 8 kinds, images with captions, names, recognised text and 3 answers of the cloud; `top_k`, `batch_size`, `step` 2, `max_frames` 3. 139,000 states | loading and returning of scans, and the five properties of scores |
| `gateway` | 3 requests at one process, or one of them at another, or 2 of the dashboard; limit 2, a minute of 2 ticks, 2 ticks; 2 key sets, lifetime 1. 1.29 million states | the three properties of the limiter and the one of the keys |

Why the bounds are enough to be worth something:

- `MaxInFlight = 2` is the smallest instance with a race and three calls let one of
  them find the others' charges. The shared quota of 11 is a recording plus a text: it fits
  exactly, overshoots by one call, or refuses. Two months let a call be checked in one and
  stored in the other. The theorem `ChargesAreBounded` covers all other values.
- Thresholds 1, 3, 5, 6 of 6 are at, above and below the lower limit and the defaults, and 0
  is a row from before the lower limit existed. `ProtectedModeIsStricter` covers all others.
- Three workspaces are a pool of two and one outside it, or a pool that loses a member and
  gets it replaced. Two workspaces with two subscriptions, 1.6 million states, were checked
  as well and showed the same.
- Four fresh keys are what two creations and two rotations need; a third call acts on what
  they left. Limit 2 is the number of keys a workspace starts with, so that every creation is
  at the limit.
- Larger inboxes were checked once: three actions on one delivery (1.35 million states)
  and two deliveries with two actions (1.43 million). In the listed run a comment sees
  two actions in any overlap, on an account that may be replaced at any point; `InboxTellsTheTruth` covers
  every number of each.
- The vision model is loaded by at most two threads in the code; a second scan starts after
  every outcome of the first.
- The texts of `scoring` are on both sides of each threshold, reduction and cap: matches of toxicity, sexual
  content and self-harm or none, with the markers that lower a score, in small letters and in capitals;
  model scores around 82, where the cap begins. Captions, names and recognised texts of an image flag
  nothing, ask for review, block or soften each other, one of them across a seam; the cloud scan failed,
  read text and saw objects, or found something. The theorems `MoreEvidence` and `NoSourceIsCleared` cover
  every other text, answer and picture. Videos hold every sequence of up to two scenes of eight kinds of
  picture and of three of the five kinds whose labels compete, more than one batch, and more candidates than
  `max_frames`; the kinds are nothing, unsafe, unsafe but dominated by a safe label of the same picture,
  barely unsafe, two in which an unsafe label ties with a safe one (once only after rounding), negative
  similarities, and unreadable. Every other video, set of labels and limit is covered by
  `BatchesAreInvisible`, `RisksOfVideosExplained` and `LongScenesSampled`.
- Limit 2 and 3 requests are the smallest instance in which a request is refused because Redis, a
  process or the retry of a failed handler let the others in. Two ticks are the end of a minute and the
  beginning of the next. Two key sets and two threads are one rotation under every order of looking,
  fetching and storing. `AdmissionsWithinLimit`, `RefusalsHaveReasons` and `KeysRecent` cover the rest.

Symmetry is used for sets whose members only differ by name, and only in runs without liveness properties.
In the inbox these are the calls and the ids of rows, with which `deleted:<id>` is exchanged. In the
moderation run the two actions that open a review case, `review` and `block` (`CaseActions`), are such a
set: the pipeline treats them alike. Deadlock checks are off because each instance ends when its calls have
been handled.

## 5. Fairness

`Workspaces!Fairness`: an event that Stripe has sent is accepted if the handler can accept it.
Stripe repeats a delivery until the endpoint answers 200, and `billing_webhook` answers 200 when
the handler does not raise. Users are under no fairness: nobody has to pay or cancel.

`VisionScanner!Spec`: weak fairness of each thread. The scheduler runs a thread that can run,
and building a model either ends or raises. The lock itself needs no strong fairness
here: each of the two threads takes it a bounded number of times. Nobody has to ask for a scan.
`Scoring!ScoringSpec` assumes the same of the same two threads; what else the event loop answers
between scans is under no fairness.

All other properties are safety properties.

## 6. Proofs

Eight modules of theorems are checked by TLAPS, one per component. Lemmas about sums of credits stand at
the beginning of `ModerationProofs`.

- `TypeCorrect` of `ModerationProofs`, `ApiKeysProofs`, `WorkspacesProofs` and `SocialProofs`,
  `DashboardTypeCorrect`, `ScannerTypeCorrect`, `ScoringTypeCorrect`, `KeysTypeCorrect`, `GatewayTypeCorrect`:
  `Spec => []TypeOK` and its like.
- `DecisionsAreWhole`: `Spec => []WholeDecisionOrNothing`. By itself the property is not
  inductive: nothing in it says what an open transaction holds. `Transactions` adds, per call,
  that the session's rows are a prefix of the order of the flushes (`SessionInOrder`) and that
  only finished calls have committed rows (`RowsOfCall`).
- `ChargesAreBounded`: `Spec => []OvershootBounded`, for every table of workspaces, set of
  calls, table of prices and degree of concurrency. The sum alone is not inductive: a commit
  raises it without looking at the quota. `QuotaInv` therefore counts what admitted calls hold
  as well: `HeldBounded` says that the credits charged or held in the current month exceed the
  quota by at most `Slack == (MaxInFlight - 1) * MaxCost`. A commit moves credits from held to
  charged and leaves the total alone; an admission adds its price to a total in which the other
  calls hold at most `Slack`; a new month starts with what is held. The other conjuncts are what
  these steps rest on: `CallsPriced` (what a call holds is its price, and the price is what
  `credits_for_record` charges for the row), the bound on calls in flight, and `Transactions`.
- `PoolsImplementQuotaPool`: `Spec => Pool!Spec` for any set of workspaces that is a closed pool in every
  initial table, with the largest quota of its rows. Each step maps to one of `QuotaPool` or to a stutter:
  an admission to `Grant`, since the check of a closed pool is the pool's; a commit to `Settle`, or to
  `GiveUp` when its row is dated in an earlier month than the current one; a failure to `GiveUp`; a new
  month to `NewMonth`, since no row is dated in a month to come. `QuotaInv` gives that a call holds its
  price and that only finished calls are charged. The run checks two pools of one table.
- `ProtectedModeIsStricter`, `HigherScoresAreNeverSofter`: monotonicity of decisions for every set
  of categories, defaults, stored row and scores. Both follow from the types: they hold for
  each row by itself, whatever was stored before. The argument is one inclusion for blocking
  categories and one for reviewing ones, from the inequality of thresholds or scores.
- `WholePoliciesAreReadable`: `Spec => []StoredPolicyLoadable`. The invariant `OrderKept` adds that
  the thresholds stored, loaded and about to be stored are in the order the schema checks, since
  a handler writes back what it loaded earlier.
- `OthersFlagsAreKept`, `NotesAreLostOnlyToNotes`, `CaseFieldsAreKept`: what a handler with a stale row may
  undo. Each needs what the handlers loaded: an UPDATE names the columns that differ from the row as
  it was loaded, so a column that the request does not name is not written. The list of notes is
  written as a whole, as it was read plus one note: the types and that step are all the argument needs.
- `DashboardImplementsPolicyUpdates`: handlers of policies and cases together implement `PolicyUpdates`
  alone, so that what is proved there holds for them.
- `TypeCorrect`, `OwnPlansAreUntouched` of `WorkspacesProofs`: `Rows` adds to the types that the rows are
  finitely many and numbered up to their count, so that a row with the largest quota exists (the one whose
  set of better rows is smallest under strict inclusion) and `quota_owner` is one of the rows it chooses
  from. `Reported` says that an event reports a completed checkout of a workspace there is.
- `PoolsAgree`, `QuotasArePaid`: under the hypothesis `Apart`, that no user acts both alone and for an
  organisation or for two of them. Then "same user or same organisation" is an equivalence, and both
  queries, by principal and by workspace, find the whole class. `SharedAgree` says that rows of one
  class on account billing carry one quota and one subscription id; every action gives a plan to all of them
  or takes it from one.
  `AllPaid` says that each row's quota and its subscription go back to a checkout of the same class,
  including the rows of deleted workspaces, whose subscription a webhook may still find. Without `Apart` the
  queries disagree (section 2, `ClosedPool`), and nothing is claimed.
- `DeletionsFreeTheirUsage`: `Spec => DeletionFreesItsUsageOnly`, under `Apart`. What a pool has used is a fold
  of the library over a set, in an order that `CHOOSE` picks. `Total` states the sum without an order, as the
  number of pairs of a workspace and one of its credits; a fold that disagreed would disagree on a smallest
  subset, and cannot. Then the deleted workspace's pairs are what leaves the sum. A pool after the deletion is the
  pool before it without that workspace, since both queries find the whole class, and by `SharedAgree` what
  is handed on is the plan everybody has, so that the quota stays.
- `PaidWorkspacesHaveQuota`: `Spec => [](OneCheckoutEach => PaidWorkspaceHasQuota)`, under `Apart`,
  `InOrder` and plans that have a quota: for any workspaces and subscriptions, as long as no user or
  organisation opens a second checkout. The third violation of section 7 is what a second checkout does; out
  of order, a payment that failed and then succeeded leaves no quota. An event that is never accepted (the
  fourth violation) stays under way, and of such a state the property says nothing. It speaks of a moment
  when nothing is under way; the invariant `Synced` says what holds before. `InQueue`: of each subscription
  the completion comes first, the end comes last, and the last event names the status Stripe has.
  `RowsLive`: rows on a subscription whose end has not been accepted have a live status, which is why
  `update_billing_scope` does not move a workspace off its plan. `Bought`: from its completion to its end,
  the workspace a checkout was for carries its id, so that every later event finds that row, and the last
  one leaves the quota of the plan. TLC confirmed it on three workspaces and two subscriptions (618,000
  states), with a trial quota of 0 and of 1.
- `DeactivatedKeysStayOff`: `Spec => DeactivatedStaysOff`. An UPDATE changes only the columns that
  differ from the row as it was loaded, so the argument needs what the calls loaded: `Carried` says
  that a call about to write names an existing key and holds a whole row. Then each action is
  `RowsStep`: no row disappears, none is switched on. `Start` is one because it is refused when a
  configured key has an inactive row.
- `ActiveKeysBounded`: `Spec => []KeysBounded`, for every limit and degree of concurrency. `RoomInv`
  counts the calls that have found room (`Creating`) together with the active keys: a creation
  moves one from the first count to the second, a rotation replaces an active key or adds to
  `surplus`, and a call that finds room sees fewer keys than the limit while at most
  `MaxInFlight` calls are there. It also says that the configured keys all have a row once the service has
  started, so that a restart adds none.
- `TokensBelongToConnected`, `RemovedStaysWithoutToken`: `[]TokensOnlyWhileConnected` and
  `RemovedHasNoToken`. `AccountRows` adds that a removed row stands under its own `deleted:<id>`, which no
  other row has, so that connecting any other value finds another row or makes one. `SocialAssumption` keeps
  those values apart from what a platform calls its profiles; that they are not reserved is part of the
  model.
- `InboxTellsTheTruth`: `Spec => []InboxAgrees`, for any moderators, deliveries, comments and accounts, while the run
  has one delivery and two moderators. The property speaks of comments nobody is at work on; `InboxInv`
  says what the work leaves them in. `Consistent`: how far a call's answer and its request, which outlives it,
  can be from each other. `Undisturbed`: a call that none has overlapped finds the event as it loaded it, and
  the comment as its own request left it. `Contested`: a comment that is not contested has only such calls,
  and none whose request took effect unanswered. `InStep`: until its request is applied, an action leaves event and
  platform in agreement. `RecordStep` is where they meet: the row is written from what was loaded before
  the platform call, which is still true because nothing disturbed it.
- `ModelLoadedOnce`, `ModelPublishedWhole`: `Spec => []LoadedOnce`, `Spec => []PublishedWhole`.
  `LoadInv` says that exactly the holder of the lock is in the critical section, that attributes are
  assigned in order, and how far the holder is when a model has been built.
- `MoreEvidence`: `ScoringSpec => MoreEvidenceNeverClears`. The scores of the fast rules and the rescoring
  grow with the evidence once gaming slang and lower-case letters are the same, except where the toxicity of
  the inference service is capped; that happens only where sexual content was matched, whose score flags the
  text by itself. The invariant `Explained` says that an answer was computed from a text there is.
- `NoSourceIsCleared`: `ScoringSpec => []SourcesNeverClear`, for every upload, answer of the cloud and set of labels.
  What is seen only raises the score of a category (`NoSourceSoftens`), and a decision over higher scores is no
  softer (`HigherNeverSofter`). For the words, some of the texts are weaker evidence than all of them, joined: it is
  the argument of `MoreEvidence` without a model.
- `LongScenesSampled`: `ScoringSpec => []ScenesSampled`, for every length of a video, `step` and
  `max_frames`. `linspace` rounds a product of quotients; `Quotients` and `Roundings` reduce that to
  integers, `ChosenSpread` says that two neighbouring samples are at least one and at most the gap apart,
  and `ScenesHit` that a scene as long as the gap cannot lie between two of them.
- `BatchesAreInvisible`, `RisksOfVideosExplained`: `[]BatchingInvisible` and `[]VideoRiskExplained`, for
  every video, set of labels, `top_k` and `batch_size`, with rounding and ties. Lists of scores are sets
  with places (`Entry`, `IsShort`): at most `top_k` of them, no two in one place, so that lists can be put
  behind each other (`MovedScores`). Of each label the merged list holds the first of its likeliest scores,
  and `Rank` counts those before it. A label among the first `top_k` of the whole video is among the first
  `top_k` of its batch unless labels of that batch tie with it, since no more can be above it there; cutting
  batch by batch therefore loses only scores for which equally likely ones are kept. `BatchesDoNotMatter`
  states this for every confidence, `VideoLabels` says that every label answered is some picture's,
  `UnsafeLabelsReported` where an unsafe one can have gone.
- `ScoringImplementsScanner`: hiding the answers, `Scoring` is `VisionScanner`, fairness included, so that
  `LoadedOnce` and `PublishedWhole` hold there too.
- `KeysRecent`, `GatewayKeysRecent`: `[]KeysAreRecent`. The invariant gives the reason: a set that is in the
  cache, or in a thread's hands, was published when the clock was read for it, or later. A store only
  replaces it by another such set, and a read within the lifetime is at most one lifetime after that clock.
- `GatewayImplementsKeys`: behind the limiter, where a handler may be entered twice, verification still
  implements `ClerkKeys`.
- `HandlersRunAgainOnlyAfterFailure`: `GatewaySpec => []RunAgainOnlyAfterFailure`. The invariant `RunsInv` follows a
  handler through its runs: one in its second run failed before, was counted by Redis and had read no body,
  and what a process admitted by itself is in its last run.
- `AdmissionsWithinLimit`: `GatewaySpec => []AdmittedWithinLimit`, about requests that Redis let in and
  requests it had not counted, for any requests, processes, limit and length of a minute. `CountInv`: Redis
  has counted every request it let in for a minute, and none that has not come. `BucketInv`: the stamps of a
  process's bucket from any one on stand for as many requests admitted no earlier (`Owned`), and popped at
  any time at which the process may yet look at it, the bucket keeps a stamp for each request that is fresh
  then (`Held`). Stamps may be out of order, as a failed handler is admitted with the clock it arrived with:
  `Popped` stops at the first fresh stamp and leaves older ones behind it, which is why both count from a
  position on. `InLoop` says that the process's own event loop has at most one request between its clock and
  its bucket.
- `RefusalsHaveReasons`: `GatewaySpec => RefusedForReason`: what `Owned` says of a full bucket, and
  `CountInv` of a full counter, is that as many others of the client came before; a bucket's stamps are
  matched with the times of admission, which an old stamp behind a younger one may precede by more than a
  minute.

Assumptions are named and evaluated by TLC in every run of the module: `ModerationAssumption` (finitely many
calls, prices between 1 and `MaxCost`, tables of quota rows), the ones of `Policy` (defaults in order),
`UpdatesAssumption` (initial rows in order), `CaseUpdatesAssumption`, `WorkspacesAssumption` (quotas are
numbers, the names for "none" are not among the things named), `ApiKeysAssumption` (at most two configured
keys of a workspace, with scopes the code grants), `SocialAssumption` (platforms use no profile that starts
as a removed row's does), `NullsAssumption` and `VisionAssumption` (the names for "none" again),
`ScoringAssumption` (texts, models and uploads are what their names say), `VisionLabelsAssumption` (limits
are positive, each picture lists every label once, the most similar first; nothing is said of ties),
`RequestsAssumption`, `RateLimiterAssumption`, `ClerkKeysAssumption` and `GatewayAssumption` (times and
limits are numbers, requests are apart).

Only model-checked: liveness under fairness (`CancellationSynchronized`, `ScansReturn`), which is out of the
prover's reach. Every safety property of section 3 is also a theorem, the ones of plans and pools under the hypotheses
named above. In the runs no user acts in two ways either.

## 7. What the violations say

1. **Quota race** (`moderation_quota_race`). `docs/production_readiness.md` says requests are
   rejected once the quota is exhausted. The check counts committed rows. Concurrent calls can
   exceed the quota, by no more than `OvershootBounded` says.
2. **Unlogged policy change** (`policy_audit`). An override with one threshold is committed and
   then combined with the other's default; if the pair is out of order, reading it raises before
   the audit event is written, and the policy cannot be read again.
3. **Replaced plan** (`billing_replaced_plan`). Events of an old subscription fall back to the slug in
   their metadata and overwrite the plan that is paid for.
4. **Shared cancellation** (`billing_shared_cancel`). The subscription id is copied to other
   workspaces, and the webhook's `one_or_none()` then raises on every later event.

Observed while modelling and not stated as a property of the code:

- A rotation of an inactive key adds an active one without counting it (`surplus`); a service whose
  configured bootstrap key was deactivated does not start (`BootBlocked`).
- `POST` of an account with the `provider_account_id` `deleted:<id>` of a removed row finds that row and
  gives it a token (`app/schemas.py:300` takes any value, `app/repositories/social.py:42` looks it up):
  `RemovedHasNoToken` excepts it.
- The words of an image's sources are scored as one text. The name `video game` or a recognised `game`
  lowers the toxicity of a caption from .62 to .50, an `allow`; lower-case letters in a name end the
  suspicion of a caption in capitals. `SourcesNeverClear` fails without its exception for either.
- A caption or text of the caller, blank ones in the case of the caption, keeps the cloud's out
  (`app/services/moderation_service.py:98` and `:104`).
- Confidences are rounded to four decimals and sorting is stable. An unsafe label that ties with a safe one seen
  earlier is cut when there is room for one of them, and with ties the size of the batches decides which label that is
  (`app/vision_safety.py:181`, `:261` and `:285`).
- A process that admits a counted request again, with the stamp of its arrival, can hold more than the limit
  of requests of one minute: `AdmittedWithinLimit` leaves these out. A stamp left behind a younger one can
  turn a request away although its minute is over.
- A social delivery that is repeated is moderated, charged and stored again.
- What a deleted workspace had used leaves the sum of its pool, so that the others may use it again;
  `frontend/src/App.tsx:3602` words the deletion differently. `DeletionFreesItsUsageOnly` says that this is all.
- An update that names the value its handler had loaded writes nothing. A concurrent change of
  the same column stays, although the answer shows the value that was asked for.
- With reviews disabled the cap on toxicity can turn a block into an allow; with them it turns it into a
  review. The marker for games adds a reason, and the cap does not apply then.
- A nudity label just at its threshold of 0.23 gives a risk of 0.55, below the sexual review threshold of 0.58.
- A recording whose transcription failed and which came without a hint is decided from nothing, and allowed.
- A handler that raises while Redis is up is run again if it read no body, and the client may then
  be refused with a 429 after its handler ran and failed. Its stamp in memory stays.
- A token signed with a new Clerk key is refused until the cached set expires: a key that is not in the set
  does not cause a fetch.

## 8. Not modelled

Named in `PROJECT.json` "components" with the reason. In short: phrase lists, tokens, hashes, wording and
pages of the frontend are data; renaming a workspace, the customer portal and the column of policy labels
do not touch what the properties are about; dashboards and usage reads change nothing; migrations, settings
and the smoke scripts have no steps that interleave with anything.

- `RateLimiter` keeps the counters of Redis for the run; the code lets them expire after two minutes, when no
  minute reads them any more. Several processes are modelled, one is what `Dockerfile.api` starts.
- `ClerkKeys` models which key set a verification uses. Claims and signatures are the library's.
- The inference service is its answers: loading its models happens before it serves anything.
- Of Meta OAuth only the accounts it ends in are modelled, by `ConnectAccount`; the exchange of codes and
  the paging of its lists are calls to Meta without state of their own.
- `SocialInbox` and `Workspaces` run one process: two processes writing the same account row or
  onboarding at once are listed as hazards without a property.

## 9. Plan

Order of work, most important behaviour first; the first eight steps are done, `MetaOAuth` excepted.

1. `UsageCredits`, `Tenancy`, `Moderation`: charging and persisting; proofs of types, atomicity, bound.
2. `QuotaPool` as the abstract specification, and the refinement.
3. `Policy`, `PolicyUpdates`; proofs of types, monotonicity and readability.
4. `Workspaces` with billing; proofs of types, own plans, agreement of pools and payments.
5. `ApiKeys`; `SocialInbox`.
6. `VisionScanner`.
7. `VisionLabels`, `Detectors`, `Scoring`: fusion of video frames and the cut to `top_k`, fusion and caps of
   text scores, with the scanner's threads beside them.
8. `ReviewCases` and `DashboardUpdates`; `RateLimiter`, `ClerkKeys` and `Gateway`; `MetaOAuth`.
9. Two processes in `Workspaces` and `SocialInbox`; users who act alone and for an organisation.
10. `GuardApi`, composing `Moderation` and `Workspaces`: replans and deletions while calls are in flight,
    against `QuotaPool!Replan`.
11. `Dashboard`: the requests of `frontend/src/App.tsx` whose answers arrive after the user has switched
    workspace, signed out or started the same request again.

Theorems still worth proving: what of `PoolsAgree` and `QuotasArePaid` survives without `Apart`; that
`GuardApi` implements `QuotaPool`, replans and deletions included.
