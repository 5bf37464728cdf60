# Formal models of Route Sync

TLA+ modules, TLC configurations and TLAPS proofs for the repository in `src/`:
a NestJS API (`apps/api`), a Python media worker (`services/worker`), a React web
client (`apps/web`), a Flutter app (`apps/mobile`), Postgres, Redis and an
S3-compatible bucket.  Paths below are relative to `src/`.

Run a check with `tlc -config X.cfg MCX.tla`, a proof with `tlapm XProofs.tla`.

## 1. The system

| Part | State it keeps | Operations | Works with |
|---|---|---|---|
| Upload sessions (`uploads.service.ts`, `storage.service.ts`) | `uploads`, `upload_files`, `usage_quotas`; objects and multipart uploads in the bucket | `init`, `attachVideo`, `signParts`, `completeMultipart`, `complete`, `abort`, nightly `cleanupOrphanUploads` | bucket (presigned URLs go to the client), Redis list, `routes`, `journeys` |
| Media queue (`media-queue.service.ts`) | one Redis list | `LPUSH`, `BRPOP` | API pushes, workers pop |
| Media worker (`worker/main.py`, `pipeline.py`, `db.py`, `media.py`) | `uploads.status`, `routes.*`, `route_videos`, the tables of a route, objects under `routes/` | `process_route` | list, database (autocommit), bucket, status reports to the API |
| Worker algorithms (`gps_ingest.py`, `clip_timeline.py`, `reconcile.py`, `audio_sync.py`, `quality_score.py`, `navigation.py`, ...) | none | merged track, guide, clip order, clock correction, camera alignment, scores | called by `process_route` |
| Worker status webhook (`webhooks.controller.ts`) | `uploads.status` | `workerStatus` | called by the worker, 5 s timeout, no retry |
| Journeys and matching (`journeys.service.ts`, `matching.ts`) | `journeys`, their points and segments | `startJourney`, `submitJourney`, `analyseUploadTrack` | recorder, worker, `init` |
| Moderation and administration (`admin.service.ts`) | `routes.status`, approvals, roles, audit log | `moderate`, `verifyInstructor`, `updateUser` | community credits, outside its transaction |
| Routes and access (`routes.service.ts`) | `demo_route_claims`, playback tokens in URLs | `access`, `playback`, `hlsAsset`, `practice` | subscriptions |
| Lesson bookings (`bookings.service.ts`) | `availability_slots`, `bookings`, payments | `addSlot`, `deleteSlot`, `createBooking`, `updateBooking`, reviews | no transaction around any of them |
| Authentication (`auth.service.ts`) | users, identities, refresh tokens, e-mail tokens | register, login, OAuth, refresh, logout, verify, reset | mail |
| Subscriptions and billing webhooks (`subscriptions.service.ts`, `webhooks.controller.ts`) | subscriptions, invoices | checkout, Stripe and RevenueCat events | payment providers, which repeat and reorder events |
| Revenue share, fund (`revshare.service.ts`, `fund.service.ts`) | watch events, runs, lines, ledgers | attribution, payouts, monthly contribution | cron in every API instance |
| Community (`community.service.ts`) | contributors, applications, badges, credits, leaderboards | applications, awards, nightly leaderboards | moderation |
| Test centres (`test-centres.service.ts`, `postcode.service.ts`, `import-test-centres.ts`) | `test_centres` | create, update, remove, the import of the official list | geocoder, `routes` |
| Progress, offline, search, geo, notifications, mail | single rows | queries, inserts, delivery | |
| Clients: sessions (`api/client.ts`, `api_client.dart`) | token pair in local or secure storage | calls, refresh | `refresh` |
| Clients: recorder and sending (`RecordDrivePage.tsx`, `directUpload.ts`) | page state, GPS watch, pool of senders | record, submit, upload, give up | journeys, upload sessions, bucket |
| Clients: the upload wizard (`UploadPage.tsx`, `clipAnalysis.ts`) | step, answers, chosen files, order of clips | go forth and back, choose, reorder, press Upload | lists of routes, clip lengths, agreements, sending |
| Clients: lessons (`InstructorDashboardPage.tsx`, `FindInstructorsPage.tsx`, `InstructorProfilePage.tsx`) | settings, slots, a search | load, save, publish, remove, search, book | bookings |
| Clients: buying and watching (`RouteDetailPage.tsx`, `PaywallPage.tsx`, `BillingResultPage.tsx`, `WatchPage.tsx`, `useWatchTime.ts`) | the tab, attempts, seconds not yet reported | open, choose a plan, check again, play | subscriptions, Stripe, `playback` |
| Clients: the form of a test centre (`TestCentreFormPage.tsx`) | its fields, lookups under way | type, look up, save | test centres, geocoder |
| Clients: player (`useMasterTimeline.ts`, `useSmoothClock.ts`, `useRouteTrack.ts`, `master_timeline.dart`) | two video elements, a clock, a marker | play, pause, seek, rate | `playback`, `track` |

`PROJECT.json` lists every component with its status.

### What is hard here

* **Interleaving at every await.**  API methods read, await, and write what they
  decided on earlier; almost none opens a transaction, and a `FOR UPDATE` outside
  one locks nothing.  The worker's connection is in autocommit and several workers
  share one database and bucket.
* **At-most-once jobs.**  `BRPOP` removes a job before anything is done about it.
* **Two writers of one status.**  API, worker, and the worker's own late HTTP
  report write `uploads.status`; API, worker and moderators write `routes.status`.
* **Partial failure.**  Rows, bucket and queue are changed one after the other;
  a batch delete may delete some keys only; a table is replaced by a delete and inserts.
* **Shared objects.**  Files and streams with one content hash share an object
  that others may delete.
* **Money and entitlements** follow from webhooks in any order and from cron jobs
  that run in every instance.
* **Several clocks.**  A drive is timed by the camera, the GPS receiver, the phone and
  the video, and every position shown depends on the corrections between them.

### What makes each part correct

* Uploads: a queued upload's files were all seen in the bucket and stay there;
  shared objects survive as long as a row names them; no multipart upload is left
  open; deduplication names objects that verified rows own; the quota counts what was
  let through.
* Pipeline: nobody waits for a status that no one will change; every accepted
  job is settled, once; `completed` and `published` are left only by someone's
  decision.
* Streams and tables: what a published row names holds its footage; a run that goes
  through leaves every table of its route as it wrote it.
* Drives: a journey is one recording's analysis and one upload's; the verdict follows
  what was driven; a frame is shown with the position it was filmed at and with the
  rear view of the same moment, whatever the player did before.
* Bookings: a slot has one holder, its flag is exact, and it outlives its bookings.
* Billing: a webhook that is repeated changes nothing; a place (a centre, or none)
  whose events are handled in order says what the last one said; nobody watches past
  what was bought; recorded revenue is what was paid less what was given back.
* Revenue share and fund: one run a month, one line an instructor, a ledger entry for
  each line that accrues money, a pool that is shared up to rounding; a fund that is
  never overdrawn and gets one contribution a month.
* The wizard: what is sent is what was reviewed, and the review says what is true of the
  clips.
* Lessons: the pages show what is stored, and an answer to an old search is not shown.
* Purchases: the pages tell nobody what is not so, and sell nobody what is open.
* Community: every approval seen through is credited once, a row counts what is published,
  a board ranks whom the rebuild found.
* Test centres: a centre is where its postcode is, has its name to itself, and outlives
  its routes; its form holds what was typed.
* Instructors: who is shown as verified or pending has the application for it, and a
  badge number to themselves.
* Sessions: revoking all sessions leaves none that went on before; a token is honoured
  once; a client whose calls fail together keeps its session.
* Access: one route in all is free.

## 2. The modules

`MC<name>` gives the constants of one or several modules values; a module `<name>Proofs`
holds theorems.
Operators commented "Mutant of" are wrong variants of an action, not part of any
specification: each breaks one property, which shows that the property can fail.
History variables are commented as such: no action reads them in a guard; they let a
property speak of everything that a certain mishap did not befall, while mishaps go on.

### Uploads and the worker

**VideoDedup** — the per-view publication loop of a worker.  `objects` is the bucket
under each route's key, `rows` is `route_videos`, `pc` is the place between two
awaits of `process_route`: `build_view` stores the master, `find_video_by_sha256`
(`KeepOwnCopy`, `ReuseExisting`) decides the key, `DropRedundant` deletes the copy
just stored, `DeleteRow`/`InsertRow` are the two statements of `write_route_video`.
`Abandon` is a death or an exception at any of them.  Master and playlist are stored,
named and deleted together, so one object stands for both; one view is modelled,
because views share nothing but the connection.

**UploadSessions** — a request, and the nightly sweep, is a process; a step is what
happens between two awaits that matter.  `Init*` is `init`, with the look-up by hash
and the `INSERT` as separate steps; `Put` is the client; `Multipart*` is
`completeMultipart`; `Complete*` is `complete`, row by row; `Sweep*` is
`sweepUploadObjects`, shared by `abort` (`AbortStart`, `AbortFail`) and
`cleanupOrphanUploads` (`Cron*`).  `Stop` ends any of them at any step.  The
media worker appears as `WorkerTake` and `WorkerDone` only.

**UploadQuota** — `enforceUploadQuota` of one user: `StartOrRead` is the upsert that
starts a month or reads its count, `AddOne` the increment, and months turn at any time.
`crossed` is a history variable: months in which two calls, or a call and the month's
end, met.

**UploadClient** — one submission of the wizard.  `page` is what `submit()` awaits;
`nextFile` deduplicates, sends in one PUT or starts the batches of `uploadMultipart`;
`takePart`, `putPart`, `poolDone` are the pool, whose workers go on after one of them
has failed for good; a request may be lost before or after it took effect.  The API is
what these requests do to `uploadStatus`, `begun`, `parts` and `object`.

**Recorder** — the recording page: `start` asks for a journey and can be pressed again
before the answer (`Started`), each answer begins a watch, `Position` is its callback,
`finish`/`Submitted` the submission, which may fail and be repeated, `discard`, `Leave`.
`ClockJumps` is the device's clock, from which `tMs` is computed.  `doubled` is a history
variable: two starts met.

**UploadWizard** — the four steps of the upload page until the first byte is sent.
`ChooseCentre` asks for a list of routes, and `RoutesListed` answers in any order;
`GoToReview` has the clips read and `Analysed` moves the page on; `Submit` takes what the
page holds at that moment through `Agreed`, `Hashed`, `Sent` and `Completed`.  Every button
that the page leaves in use while it waits can be pressed.  `buildPreview` is the review (`clipAnalysis.ts`).
Histories: `jumped` (an answer moved the page on while the user had turned back; forgotten
once step 1 is passed anew with nothing under way), `rash` (a route chosen while a list was
awaited) and `twice` (pressed again before an answer, or
an answer was lost).

**MediaPipeline** — the statuses.  `upload`, `route` and `queue` are the two columns
and the Redis list; requests are `complete` (three writes, three steps), `abort`
(check, sweep, write), `attachVideo` (check, create); a worker walks through
`process_route`, writing each status and reporting it.  A report is applied, lost, or
applied later (`late`, `LateReport`).  `RequestDies` and `WorkerDies` happen anywhere.
`moderate` has no guard in the code and has none here.  `hurt` is a history variable:
the uploads on which somebody died or of which a report timed out.

**JobHandoff** — the abstract hand-over: requests asked and settled.  MediaPipeline
implements it under the mapping `asked <- completes`,
`settled <- completes - Outstanding`.

**Publication** — the tables of one route, by the runs that have rows in them.
`Plan` is the list of statements a run goes through for what its upload has, in the
order of `process_route`: some tables are deleted and inserted, some upserted, some
spared.  Runs overlap, fail (`Fail`, where an insert may also collide with rows another
run left) and die; `complete` may be called again and `moderate` at any time.

### Drives

**GpsIngest** — first, reading one log: `parse_gpx`, `parse_nmea`, `parse_csv`,
`parse_kml`, `extract_embedded`, and `parse_text`, which looks at the text and not at the
name.  What a device writes at time t is a line, when the car is at place t; so a fix is
true when its time is its place.  A style is how the times of a log are put, and `Misread`
says which of them are read as another time.  `WriteLine` walks through all logs within the
bounds; the property holds of logs that are `Trustworthy`, whose conditions are what the
parsers rely on.  Then `merge` as a function of all logs of an upload: sorting, dropping
the implausible, collapsing repeats, refusing jumps against the last kept fix.  `WriteFix`
writes the fixes.  A position is on the road, none, or astray; `Stray` metres cannot be
driven within 30 s.

**Journeys** — the rows of drives and of the uploads attached to them.  An analysis is
five statements (`DeletePoints` ... `WriteVerdict`), `AttachCheck`, `AttachInsert`,
`AttachLink` are the check, the row and the link of `init`; `PointBack` and
`CreateForUpload` are `analyseUploadTrack`.

**Matching** — the conformance engine, `analyzeJourney`, on a grid: R1 is a sequence of
points one step apart, `match` looks for the nearest vertex in the window the elapsed
time allows, `Clean` forgives short runs off the route, `keptSegments` cuts at runs and
leaps, `Conclude` adds up the coverage.  `RecordFix` drives any track within the bounds.

**ClipTimeline** — from clips to frames: `order_clips`, `build_timeline` (cutting what
two clips both filmed), `reconcile` with `_detect_clock_offset`, the shift that
`process_route` applies, and `track_points`, which puts each GPS sample on a frame.
A frame is the moment it filmed.

**CameraSync** — `correlate_envelopes` and the ladder of `align_front_rear` (sound,
clocks, nothing), over envelopes that `audio_envelope_for` concatenates.  A sample is
the instant it recorded and matches only itself, so that the lag found is exact.

**Playback** — the player's hooks: the front video paces (`TimeUpdate`), the rear one is
pulled back when it is further off than `RESYNC_MS`, `clock` runs on between reports,
`findIndex` starts from where it last was.  `Resynced` is the phone's variant, which
looks at every tick.  Streams stall and end.

**Navigation** — `generate` without a routing engine (`_from_geometry`): `simp` drops
points within `simplify_m`, `change` is the turn at a point, runs of changes to one side
are roundabouts or not, and what is left is turns.  A track is a sequence of hops, each
with a heading and either far or not; the property compares the guide with the bends of
the hops.

### Accounts, access and money

**AuthSessions** — one account.  Sessions and mails are rows in the order they were
made; a request is where it is and what it has read: `Login`, `OAuth*`, `Register*`,
`Refresh*`, `Reset*`, `Redeem*`, with `Dies` anywhere.  `past` and `shared` in a session
are history: what was swept since, and whether two requests held it.

**ClientSessions** — the clients' half: `stored` is the pair in local storage, shared by
all tabs, `refreshing` the promise that calls of one tab join; on the phone a second
caller is refused.  The server is reduced to one live pair, which an `Exchange` replaces.

**RouteAccess** — `resolveAccess` in three steps (premium, claim, create or reread) under
a unique key, playback tokens that live for `TTL`, and `hlsAsset`, which looks at the
token only.  Premium is `isPremiumForCentre`, whose answer may change at any time.

**Entitlements** — the rows of one user in `subscriptions`, and everything that writes
them.  The providers are external: `Buy`, `Renew`, `PaymentFails`, `Unsubscribe` change
a Stripe subscription, `Buy` and `StoreSays` a store transaction, and each `Announce`s
events, which stay in `due` until a handler's 200 reaches the provider.  A handler is
`stripeWebhook` or `revenuecat` down to `applyEntitlement`: `Fetch` is an event for
which the subscription is first retrieved from Stripe, followed by `Find` (the
`findFirst`); `Look` is an event that carries its own state; `Write` is the update or
insert, which the partial unique index may refuse (`Fails`).  `MayWatch` is
`isPremiumForCentre` for any choice of the row its unordered `findFirst` may return.
`jumbled` is a history variable: the places whose events were begun out of order, or
that an event left out.

**Storefront** — one learner in one tab, from a locked route to a paid one.  `tab` is the
page, its centre and what it was told of the access to it (`AccessAnswered`), on which the
next press acts; `Choose`, `Pay`, `Cancel` are paywall and Stripe, `Granted` the webhook,
which comes at any time after; `Interval`, `CheckAgain`, `CheckRead`, `CheckAnswered` the
result page, whose requests are read and answered in any order; `Second`, `Flush` are
`useWatchTime`.  How a webhook writes is Entitlements: here it opens a centre.  Histories:
`again` (Check again was pressed), `overtaken` (an older answer came later).

**Revenue** — the money of one test centre.  `Pay` and `GiveBack` are the providers;
`Webhook` is `recordInvoice` or `recordRefund`, one statement each.  A job is a call of
`runAttribution`: `ReadGross` (the run is looked for, the invoices are read),
`ReadWatch`, `InsertRun` (the period is `UNIQUE`), then `Line` and `Earn` by turns;
`Dies` ends it anywhere.  Histories: `early` (charges of which a refund was handled
before the payment), `broken` (months whose run died among its lines), `hasty` (months
that were run before they were over, as administrators may).

**Fund** — `payout` as check and insert, `runMonthlyContribution` as look-up, computation
and insert, with the code's rounding and percentages.  `overtaken` and `doubled` are
histories of calls that read before another wrote.

**InstructorVerification** — `submitInstructorVerification` (is there one pending, is the
number claimed, insert, list), `verifyInstructor` (one transaction, under the unique
indexes: `MayBecome`), then the role and the badge, outside it.  `crossed` is a history.

**Bookings** — the four methods, one statement per step, as each commits on its own.
`deleteSlot`'s `DELETE` meets the foreign key of `bookings`, `addSlot` the unique key
on instructor, date and time.  `updateBooking` writes any status over any other, as
the code does.  `disturbed` is a history variable: slots on which requests overlapped
or one died, or of which a booking left the status diagram of
`testing/09-STATE-AND-DATA-FLOW.md`.

**SlotLedger** — the abstract slot: taken, let go, never held twice by one booking.
Each slot of Bookings implements it as long as it is not disturbed.

**LessonScreens** — the dashboard, whose `load()` reads profile and slots (`LoadProfile`,
`LoadSlots`, `Loaded`) while settings are saved (`Save*`) and slots published and removed
(`Add*`, `Remove*`); the search of learners, whose queries overtake each other
(`SearchAnswered`); and the page on which a slot is booked; all over the rows that they
read and write.  `crossed` and
`unsaved` are histories.

**Community** — `onRoutePublished` (`ReadStats`, `ReadStanding`, `WriteAward`,
`AwardBadges`) and `onInstructorVerified` (`BoostReputation`), which overlap with others
about the same contributor or die, and `rebuildLeaderboards`, which every instance runs at
one hour of the night: `DeleteBoard`, then `InsertBoard` under a unique index.  `stale`, `lost`, `reached`, `listed` and `disordered` are
histories.

**TestCentres** — `create`, `update` and `remove` in their statements, with the geocoder
in between, and the import, one transaction that matches centres by `tc_norm_name`.  Below
it the form: `LeavePostcode` asks, `LookedUp` fills in what is still blank, and the page
stays in use.  `retyped` is a history: a postcode was typed after another was left.

### How they are put together

Modules meet where one's answer is the other's input: UploadClient sends what
UploadSessions receives, MediaPipeline queues what it accepted, VideoDedup and Publication
are what a worker does with a job, RouteAccess asks Entitlements, ClientSessions exchanges
the tokens of AuthSessions.  At each such place one side is reduced to its answers (said
in the module's header), because the product of two detailed modules is beyond TLC.
`MCStorage`, `MCSubmission`, `MCInstructors`, `MCLearners`, `MCContributors`, `MCAccounts`
and `MCDrive` check several modules in one run.  The modules share no variable, so nothing is lost by choosing one of them (`scope`)
in the initial state and letting the others rest: every behaviour of every module is a
behaviour of the run.  Their properties are those of the modules.  A module whose states are
too many for one run is checked in parts (`WizardPart`, `ScreenPart`, `CommunityPart` of
`MCInstructors`): each part bounds what its question does not need, and says so.

## 3. The runs

| Run | Shows |
|---|---|
| `storage` | *Uploads*: request and sweep overlap over two uploads of the same bytes: only fully verified uploads are queued (`VerifiedBeforeQueued`), deduplication never chains (`DedupOwned`), no open parts (`NoOpenParts`).  *Streams*: two workers, three routes of which two share footage, deaths anywhere: nothing serves foreign footage, and a key whose route was processed once always serves the rows that name it (`FootageStands`). |
| `submission` | *Recorder*: what is submitted is the drive, each position once (`DriveIsWhole`).  *Wizard*: it leaves whole objects or none (`WholeOrNothing`), and a submission ends (`SubmissionEnds`).  *API*, one request at a time, with partial batch deletes and stops: queued uploads keep their objects, shared objects survive, the sweep's ceiling is overshot by less than one upload (`StorageIsKept`). |
| `uploads_shared_race` | (violation) `init` points a row at an object between the sweep's reference check and its delete. |
| `pipeline` | Safety, liveness and the refinement of JobHandoff, with deaths and late reports; `completed` and `published` are only left by a decision (`StatusesStay`). |
| `pipeline_abort_race` | (violation) `abort` writes `failed` over a status `complete` has written since. |
| `instructors` | *Bookings*: overlaps, deaths and any status changes: undisturbed slots have one holder and an exact flag, no slot goes under a booking (`BookingsStand`), and each implements the ledger (`LedgerSpec`).  *Lessons' pages*: `ScreensTellTruth`.  *The wizard*: what is sent was reviewed, and the review is true (`ReviewStands`).  *Community*: `CommunityStands`.  *Test centres and their form*: `CentresStand`, `FormAsTyped`. |
| `bookings_double` | (violation) Two requests read one open slot and both book it. |
| `review_order` | (violation) Clips without a readable time are shown in one order and declared in another. |
| `learners` | *Premium*: a Stripe subscription and a store transaction, two centres or none; events repeated, reordered, overlapping, failing: a place not jumbled says what its last event said (`FoldsInOrder`), and no centre is watched past what was bought (`PremiumIsPaidFor`).  *Journeys*: submissions, attachments and analyses of one recorded drive overlap and die: what it shows is one recording and one upload, unless they met (`JourneyIsOneDrive`).  *Pages*: `PagesTellTruth`. |
| `contributors` | *Revenue*: it settles (`RevenueExact`); lines, ledger and pool agree (`RunSettles`), though two runs of a month overlap and die.  *Fund*: not overdrawn, one contribution a month, unless calls overlapped (`FundKept`).  *Verification*: who is shown as verified or pending has the application for it (`StandingIsBacked`). |
| `accounts` | *Sessions*: what revokes all of them leaves none that went on before (`NothingOutlivesASweep`), tokens are spent once (`TokensSpentOnce`).  *Clients*: callers that fail together keep their session (`SessionKept`).  *Access*: `OneFreeRoute`.  *Quota*: `QuotaIsKept`. |
| `drive` | From the logs and the merged track (`LogsAreTheDrive`) over the verdict (`VerdictFollowsTheDrive`), frames (`FilmIsTheDrive`) and cameras (`RearIsBesideFront`), to the published tables (`PublishedIsWhole`), the player (`ViewsAgree`) and the guide (`GuideFollowsTheDrive`). |

The parts of `StorageIsKept` about objects are checked for requests that do not overlap
(`Overlap = FALSE`) because they do not hold otherwise (section 6).

### Bounds, and why they are enough

* `storage`: two workers are the least that race on a row; three routes allow a row
  to be deduplicated, its owner re-run and a third kept apart; `MaxRuns = 2` lets a
  route keep its key, and give it away or re-take it.  Two uploads with one file of equal
  bytes each are the least that deduplicate.
* `submission`, API: a third file makes one upload larger than the ceiling
  `MaxObjects = 1`; `MaxCompletes` bounds how often an upload is queued.
* `submission`, page: files of no, five and one part; five exceed the pool of 3 and
  the batch of 4, three attempts are those of the code.  Recorder: two presses of Start
  and four moments are enough for two watches to write the same drive; the clock jumps
  back by 2 or on by 1.
* `pipeline`: two uploads of one route (map-only, then attached video) or one
  upload twice: `MaxCompletes = 2` bounds `complete` over any two uploads.  `MaxLate`
  bounds reports that are late at once.  Two requests and two workers are the least
  that overlap.
* `instructors`, bookings: two slots of one time and a third, three bookings, two requests,
  no more than four slots and bookings together (three slots with one booking to one with
  three): enough to book, cancel, rebook and cancel again while another request is at work.
  Pages: two prices, two postcodes of which one is unknown to the geocoder, two slots, so
  that there is another value to overwrite and another row to lose.
* `instructors`, wizard: two centres and two presses meet each other; selections have clips
  of one camera, of both, and three clips of any start and length up to three, which is
  enough for a gap, an overlap and one clip within another.
* `instructors`, community: two routes of one contributor, below and above the threshold,
  two calls at once and `MaxApprovals = 2` approvals; boards of two contributors and two
  instances.  Centres: two ids, three names and three postcodes, of which two are spellings
  of one each, a seed and an official list that has one name twice; two administrators.
* `learners`: one subscription and one transaction are the least that compete for a
  place; three changes (`MaxChanges`) are a purchase and two more events; `MaxOpen`
  keeps a provider from running ahead of its webhooks, `MaxJumbled` leaves one place in
  order while two others are not; two periods (`MaxTime`) let what was bought end.  Two
  sessions, two requests, two attempts and one second are the least of which one overtakes
  or follows another.
* `contributors`: a webhook statement touches one charge and a run one month, so one of
  each suffices; two instructors and `Amount = 3`, `Pct = 50`, `MaxWatch = 2` give pools
  of 2 and 1 that are shared 2:1, 1:2, 1:1 and 1:0, with rounding up and down; two jobs
  are the least that overlap.  Three payouts of 0 to 50 are approved and refused over
  what two periods contribute; three applications let each of two users be refused, try
  again, and meet the other over one of two badge numbers.
* `accounts`: three sessions or mails are a login, its successor and one that another
  request makes (`Most` trades sessions against mails); an hourly cap of one mail; two
  tabs of two calls each make them wait for one refresh and for each other, with two
  pairs after the first; two routes of two centres and a token that outlives one tick;
  a cap of two, two calls and three months, one of which nobody uploads in.
* `drive`: `MaxFixes = 4` leaves the route, stays away for `sustainM` and comes back, on
  a straight route and on a hairpin, where a later vertex is near an earlier one; three
  clips overlap, have gaps and are out of order, by a clock that is right, wrong by an
  offset that is tried, or by twice one; two logs of three positions hold a stray, a
  repeat and a pause of more than `HEAL_MS`; one log of three lines holds a line without
  place or time between two with them, over a midnight (`DAY = 2`); five hops hold a
  roundabout (four bends after a straight), two turns apart, and a car at rest; rear
  cameras start within `MAX_LAG` and beyond, with a clock wrong by less and by more; a
  film of four frames is played, sought and stalled with the rear one early and late,
  along a track with two points at one moment and one without.
* Symmetry is used for interchangeable workers, routes, bookings, requests, centres,
  handlers, instructors and jobs, only in runs without liveness.  No run checks for
  deadlock: every system here may rest.

### Fairness

MediaPipeline's `FairSpec` asks that a request that has begun goes on (Node resumes a
handler when its await settles) and that a worker whose list is not empty, or that is
inside `process_route`, goes on (`main.py` loops for ever).  Nobody is obliged to send a
request, to moderate, to deliver a late report, or to die.  UploadClient's
`ClientFairness` asks that the page goes on while it awaits anything: an
XMLHttpRequest or `fetch` answers or fails at some time, and `directUpload.ts` gives up
after its attempts.  Nobody is obliged to press a button.

## 4. What is proved

For any values of the constants, from the named assumptions in the modules.

| Module | Theorem | Inductive invariant |
|---|---|---|
| VideoDedupProofs | `TypeCorrect`; `ForeignFree`; `OnceProcessedServes`; `FootageAlwaysStands`; `AloneOneRow` | `ForeignInv`: a key holds its route's footage or nothing, and what a worker decided on has the hash it assembled.  `KeyInv(k)` for a key processed once: nobody names it before its own worker has published it, and afterwards nobody is at work on that route who could delete it. `AloneInv`: with one worker no row appears between delete and insert. |
| VideoDedupProofs (Navigation) | `GuideAlwaysFollowsTheDrive` | Holds of every track, so that the type invariant is all it needs.  `AscendingIs`: numbering a set by rank puts it in order; `TrackIs`: bends as the code finds them are those driven (`AngleIs`); `TellingExists`: the recursive function that tells has a solution; `TellingLeads`: what it tells lies at bends each past the one before and leaves no sharp one out, refuted from the last bend where it would fail. |
| UploadSessionsProofs | `TypeCorrect`, `QueuedIsVerified`, `DedupNeverChains`, `PartsReleased` | `IInv`: every declared file of a known upload has a row (`DeclareInv`); what `complete` has passed is verified (`SeenInv`); whom deduplication looked up is held (`DedupInv`); an open session belongs to a row that is still open or to the file being declared (`PartsInv`).  `QueuedIsVerified` alone is not inductive: it needs that a request between its checks and its write has seen every row. |
| UploadSessionsProofs | `StorageAlwaysKept` | Assumes `InTurn`, the setting of `submission`: one request after the other, each upload completed once; section 6 shows what is lost without it.  `OnceInv`: an upload is at one place of its one life (not accepted, marked, a job, with the worker), and who sweeps one finds it unneeded.  `SweepInv`: what a sweep is about to delete belongs to rows of its own upload and to no other; what `complete` has passed is there; the nightly sweep takes up an upload only below its ceiling. |
| UploadSessionsProofs (UploadClient) | `ClientTypeCorrect`, `AlwaysWholeOrNothing` | `Apart`: while a file is sent, each part signed so far is answered, waiting or with one sender, and is so once.  `Rests`: only the pool, and a page that has given up, has senders at work; `Stages`: how far each page has got.  `PartsInOrder`: as many part numbers as there are parts, no two alike, sorted, are all parts. |
| UploadSessionsProofs (Recorder) | `RecorderTypeCorrect`, `DriveIsAlwaysWhole` | `OneWatch`: unless starts met, the one watch is that of the page, nothing is awaited once it records, and no watch is on when the drive is over.  So one position adds one fix. |
| MediaPipelineProofs | `TypeCorrect`, `NobodyIsForgotten`; `NoJobTwice`, `StatusesAlwaysStay` | `UploadsMove`, `RoutesMove`: whoever writes a waiting status is himself the one who moves it on; `LateIsHurt`: late reports are about hurt uploads only. `NoneTwice`: of each upload, who is asking, its jobs in the list and who works on it, counted together, never exceed what was asked for. `FiniteAssumption`: requests and workers are finitely many, so that they can be counted. |
| BookingsProofs | `TypeCorrect`, `OneHolderEach`, `FlagIsExact`, `NoBookingOrphaned`, `BookingsAlwaysStand`; `LedgerImplemented` | `Calm(s)`: one request at most is about an undisturbed slot, and what it found out when it began still holds when it writes; `Fresh`: a booking about to be inserted has no row.  From these and the type invariant each step maps to a step of SlotLedger or to a stutter. |
| LearnersProofs (Journeys) | `JourneysTypeCorrect`, `JourneyIsAlwaysOneDrive` | `AnalysisInv`: an analysis that is alone is the only one under way and has got as far as its place says; one that is not has marked its journey as disturbed.  `AttachInv`: unless contested, a journey's upload is one that points at it, is about to, or that it was made for; and who works for an upload works on its journey. |
| LearnersProofs (Entitlements) | `EntitlementsTypeCorrect`, `AlwaysFoldsInOrder`, `PremiumIsAlwaysPaidFor` | `SaidInv`: nothing under way is newer than what was said last.  `OrderInv`: of a clean place nothing older than what was begun last is under way.  `ApartInv`: a clean place's rows are touched by its own handlers only.  `FoldInv`: whoever handles its newest event writes what it says into the newest row.  `PaidInv`: a clean place's rows end no later than what was bought for it; an event without an end finds a row that has one. |
| LearnersProofs (Storefront) | `StorefrontTypeCorrect`, `PagesAlwaysTellTruth` | `Asking`: a result page that waits has its timer until its last attempt.  `Unlocks`: what an answer under way names was open when it was read.  `Sold`: the paywall of a centre was reached through a refusal, and so was every session for it. |
| BookingsProofs (TestCentres) | `CentresTypeCorrect`, `CentresAlwaysStand`; `AlwaysFormAsTyped` | `Aimed`: an edit about to be written is where its postcode is, so that it does not matter what others wrote since it read.  `FormInv`: until a postcode is typed after another was left, the one being looked up is the one in the form. |
| BookingsProofs (LessonScreens) | `ScreensTypeCorrect`, `ScreensAlwaysTellTruth` | `SettingsInv`: settings that were not changed since are those that were sent, and once written they are the row; a load that has read the row has met no save.  `SlotFollows`: what is gone is not stored, what is shown and not gone is, and what is stored is shown but for the one slot just added; `SlotsInv`: while it loads, what was read is what is stored, and nothing is being removed. |
| ContributorsProofs (Revenue) | `RevenueTypeCorrect`, `RevenueIsExact`, `AlwaysSettles` | `Recorded`, `Settled`: what was paid, and the last total given back, is in the table or still due; `Bounded`, `TotalsBounded`: neither the table nor an event says more than was given back.  Without the last two a repeated older refund could not be told from a newer one.  `Alone`, `Progress`: one call at most has the lines of a month, and has written those it is past; `ReadOver`: a month read when it was over is as it was read; so a finished run has shared its pool by what was watched (`SharedBy`).  `SharesAddUp`: shares rounded one by one miss the pool by one half at most for each; sums over a set are taken apart element by element, and a smallest set on which the bound fails is refuted. |
| AuthSessionsProofs | `AuthTypeCorrect`, `NothingOutlives`, `SpentOnce`; `SessionAlwaysKept` | `SweepInv` says of a request about to open a session what the property says of the session.  `RotationInv`: a session that has a successor, or is being given one, is not live, and two that exchange it, or one that comes after, have it marked as shared.  `LinkInv`: an open link is newer than every link redeemed, and so is one that a request has checked and not yet spent, unless another held a link of that purpose too.  `LeadInv`, `HeldInv`: a tab knows which call leads its refresh; while nothing else befell the session there is one leader in all, who asks with the live pair, and without one that was answered the stored pair is live. |
| ContributorsProofs (Fund, InstructorVerification) | `FundTypeCorrect`, `FundAlwaysKept`; `VerificationTypeCorrect`, `BadgeAlwaysBacked`, `StandingAlwaysBacked` | A payout that nobody overtook still has the balance it read; a month being contributed has no other contribution, unless it was doubled.  `BadgeInv`, `PendingInv`: a request between the transaction and the badge has the application for what it will show. |
| ContributorsProofs (UploadWizard) | `WizardTypeCorrect`, `ReviewAlwaysStands` | `AnswersInv`: unless the page moved on by itself, each step it is at had what it asks for, and the clips under review are those picked.  `RoutesInv`: the list offered while none is awaited is that of the centre.  `PressesInv`: one press waits for the agreement, and once one is past it the page shows its step and no other is under way.  That the review is true (`PreviewTrue`) needs no induction over steps: where no clip lies within another the order by start is that by end, so that the gaps are apart and together are the span less what is shown (`GapsAre`, `DroppedIsMissing`), and lengths add up to what is shown exactly when no two clips meet (`CoverCounts`, `TwoIntervals`).  `MovedIs`: an arrow permutes the clips. |
| ContributorsProofs (Community) | `CommunityTypeCorrect`, `CommunityAlwaysStands` | `Knows`: the one call about a contributor who is not stale has found what the routes and the standing still say, or is about to add the boost that is missing.  `PaidFor`: credits and approvals count the same calls once those still to be paid for are taken off.  `StandsOrRebuilt`: a board is as its last rebuild left it, or empty and with one instance; `RanksAreAll`: as many ranks as contributors, no two alike, are all ranks. |
| AccessProofs (Publication) | `PublicationTypeCorrect`, `AlwaysPublishedWhole` | `PlanIsWhole`: a plan deletes and inserts each part once, next to each other, then writes the score and finishes.  `InTurn`: jobs begin in the order they were pushed, and only begun ones end; `OthersOver`: when the last job is alone every other is over; `AsPlanned`: the tables of such a job are what its plan has got to. |
| AccessProofs (Playback) | `PlaybackTypeCorrect`, `AlwaysViewsAgree` | `Followed`: the rear video is held near the front one's moment while nothing plays as well.  `SearchFinds`: the halving of a track of any length ends at the last point that was passed.  The one recursive function that satisfies the equation of `Search` is exhibited, and a shortest stretch on which another would differ is refuted: an induction that goes by the well-foundedness of `<`. |
| AccessProofs (CameraSync) | `RearAlwaysBesideFront` | `SyncInv`: what was found is what the sounds say.  Clips that follow without a break are one stretch of instants from where the camera began (`EnvelopeIs`), so that a lag lets all samples agree or none, the true one all (`PairsAre`, `FoundIs`), and a score that is enough comes from it alone.  From `SyncAssumption`: lags and lengths are natural numbers, the least overlap at least one. |
| AccessProofs (GpsIngest) | `LogsAreAlwaysTheDrive` | The types, and that a log has lines of its family only, are all it needs.  Lines picked in order tell what they told (`FixesAtPicked`), so that each parser is read off the set of lines it uses; sentences are read one by one, where the date kept is that of the last line that tells it (`Reads`); the four parsers are tried in vain but for one (`FamilyFound`).  The track is kept fix by fix (`Track`, `OfTheDrive`): what covers an honest fix stays or gives way to one that covers it too (`CoversOn`), and a stray comes so soon after a kept fix that it is a leap (`TeleportIs`).  From `IngestAssumption`: a stray is further off than `TELEPORT_SPEED_MPS` for `HEAL_MS` from every place the car can be at. |
| AccessProofs (Access, Quota) | `AccessTypeCorrect`, `OneRouteFree`; `QuotaTypeCorrect`, `QuotaAlwaysKept` | `AccessInv`: who is let in for free is at the claimed route, and what tokens open was let in.  `QuotaInv`: calls stay in the month they read; in a month nobody crossed a call alone knows the counter; earlier months are finished; what is past the cap was let through by calls that had read it below. |

The proof of `ReviewAlwaysStands` corrected the model: `jumped` used to be forgotten whenever
step 1 was passed again.  A third press could then be sent beside one that the page had
turned back from, which two presses do not show; it is now kept while a send is under way,
and the run holds with three presses as well.

From a theorem about a module follows the same about each run that lets it rest or move:
the scopes of a run share no variable.

Only model-checked: liveness (`ComesToRest`, `SubmissionEnds`, the fairness half of
`HandoffSpec`), because the prover does not handle fairness; and two properties of the
`drive` run, `VerdictFollowsTheDrive` and `FilmIsTheDrive`.  `Matching` and `ClipTimeline`
select and sort sequences by `SelectSeq` and `SortSeq`, which the prover cannot expand, and
their properties hold under the thresholds of the run, not under all: a share of overlap
that is asked for, or the length of a run that is forgiven, may be set so that less is
true.  Folds and recursive functions over sequences are inductions over data, which no
library theorem carries out here; each that is proved was carried out by hand, by
exhibiting the one function that satisfies the equation and refuting the least place at
which the claim would fail: the search of the player, the sums of the revenue share, of
the quality scores and of the review of clips, the length of a film and its envelope
(`CameraSync`), the guide (`Navigation`), the sentences and the track (`GpsIngest`).  The
type invariants of the other modules are stated and not among the properties of a run.

## 5. Which property guards which hazard

`PROJECT.json` lists the hazards at their lines with the properties that would catch
them.  Each has one.

## 6. Where code and documents disagree

Four are shown by violation runs: `uploads_shared_race`, `pipeline_abort_race`,
`bookings_double`, `review_order`.  The others listed under "findings" were met while modelling and have
no run: some hold of lines outside a model, others would need a run that says no more
than the line itself.  The properties of the passing runs carry the conditions they do
because of these and of the following.

Uploads and the worker

* A second `complete` after the worker finished queues the upload again; `abort` is
  accepted in between and deletes the objects of the second job
  (`uploads.service.ts:323`; bound `MaxCompletes = 1` in `submission`).
* A sweep or abort that began before `complete` deletes objects of a queued upload,
  although line 364 says it "can never be an orphan" (`Overlap = FALSE`).
* A sweep does not clear `verified_at` of the rows it emptied, so a later upload of the
  same bytes is pointed at nothing (`:562`).
* The sweep charges its ceiling after each upload (`:627`), hence an overshoot of less
  than one upload and not "never past the ceiling" (`:595`).
* A route processed again deletes the key that others were deduplicated onto
  (`pipeline.py:262`), hence `OnceServes` speaks of routes processed once.
* Two workers on one route leave two rows (`db.py:205`); with one worker `AloneOneRow`
  is proved.  A worker that dies between the delete and the insert leaves none, hence
  `PublishedIsWhole` speaks of runs that went through alone.
* A worker that dies, or an API that dies before `LPUSH`, leaves an upload waiting for
  ever (`main.py:27`), hence `hurt`.
* A report served late may set a completed upload back to processing
  (`webhooks.controller.ts:324`); completing the upload of a published route again
  takes the route back to processing (`uploads.service.ts:368`).
* An answer to `completeUpload` that is lost makes the page abort what was accepted.
* A second journey is made for a recording analysed again without one.

The wizard and other pages

* An analysis that ends late moves the wizard to the review although the user has turned
  back (`UploadPage.tsx`), hence `jumped`; the list of the old centre's routes stays offered
  until the new one's comes (99-111), hence `rash`; the button can be pressed again before
  the agreement is answered, hence `twice`.  The agreement stays ticked after Back.
* `updateMyProfile` sets a price that was left out to the default
  (`lessonPriceMinor ?? 3500`); publishing a slot loads the dashboard anew, over settings
  not yet saved; hence `unsaved` and `crossed`.  `InstructorProfilePage` does not
  drop an answer that comes after the learner has gone to another instructor.
* "Check again" sets the attempts to 0 although the interval is gone, so that the page says
  "Activating" for good if its one request comes too early (`BillingResultPage.tsx:120`),
  hence `again`; an older answer may overwrite a newer one, hence `overtaken`; a centre that
  was premium before settles the page at once.
* The paywall reached without a centre sells a subscription for all of them, though the
  page says that one covers one centre (`PaywallPage.tsx:52`).
* The answer to a lookup replaces a postcode typed in the meantime
  (`TestCentreFormPage.tsx`), hence `retyped`.
* The import says that "COALESCE keeps anything an admin typed", but it prefers the file's
  town and region (`import-test-centres.ts:344`).

Drives

* GPX waypoints that have a time become fixes (`gps_ingest.py`), though "track points"
  are promised; KML drops times and places that cannot be read each on its own, which
  shifts the pairs after them; month-first dates are read day-first.
* Clips whose declared order contradicts their timestamps are dropped where they
  overlap.  Reconciliation stores the verdict it had before its correction.
* `fingerprint.is_duplicate` does not leave out the route it is asked about.
* Roundabouts are told apart by a signed sum: a mirrored one is judged otherwise.
* The web player has no handler for the end of a film.

Accounts and money

* Cancelling a cancelled booking frees the slot whoever holds it by then
  (`bookings.service.ts:351`), hence `disturbed`.
* Events carry no order that `applyEntitlement` looks at, and an event of an old
  subscription rewrites the newest row of its centre, whichever purchase that row is of
  (`subscriptions.service.ts:151`), hence `jumbled`; an event without a centre sets the
  stored one to null (`:172`).
* `isPremiumForCentre` takes any premium row of the centre or without one and looks at
  the end of that row only, so it may refuse a centre that `premiumTestCentreIds` lists
  (`subscriptions.service.ts:46`, `:60`); `MayWatch` is the choice in the user's favour.
* A refund handled before its invoice is lost (`subscriptions.service.ts:242`), hence
  `early`; a run that dies among its lines counts as done
  (`revshare.service.ts:195`), hence `broken`.
* Two refreshes with one token both succeed (`auth.service.ts:420`), hence `shared`; a
  refresh that passed its check before a reset makes a session after it (`:561`), hence
  `past`; a link is spent without looking at how many rows were (`:618`).
* Two payouts may overdraw the fund (`fund.service.ts:83`) and two instances may
  contribute a month twice (`:139`), hence `overtaken` and `doubled`.  The month is
  computed from local time and written with `toISOString`; entries of type allocation
  count in no balance.
* `UNIQUE (adi_number, status)` refuses an expired number to be renewed twice, though
  `community.service.ts:219` invites to renew and submit again.
* Taking a published route back lowers neither counts nor reputation until the next
  approval (`community.service.ts`), `last_quality` is a maximum, a verification repeated
  adds its 20 again, and credits are written after the decision, hence `stale` and `lost`.
  A leaderboard is deleted and inserted outside a transaction, and a second instance's
  insert fails on the unique index, hence `disordered`.
* Concurrent `init`s pass the monthly cap together (`uploads.service.ts:731`), hence
  `crossed` and the bound on the overshoot.

## 7. What is not modelled

* Formatting, logging, mail texts, HTTP validation, plain queries, the other forms, lists
  and maps of the clients, deployment: nothing is kept between two steps there.
* `recordWatch` and `recordPractice` of progress have no caller; the list to which
  offline packages are pushed has no consumer in the repository.
* Agreements: single inserts.
* Encoders, hashes of tracks and the signal processing below an envelope: numerical
  code, in which a small instance shows nothing.
* The answer of a Valhalla server (`navigation._from_valhalla`): nothing in the
  deployment configures one.  Read but not checked: its `t_ms` is a shape index that
  nothing refines, and a roundabout's entry and exit, and the destination, count as
  guide entries each.
* In modelled parts: what the notes of `PROJECT.json` name, such as soft deletion of
  routes, prices of bookings, amortised yearly charges, completion of a multipart upload
  whose `HEAD` shows nothing.

What would come next: proofs about the two algorithms of the `drive` run that have none,
with the thresholds they need as assumptions.
