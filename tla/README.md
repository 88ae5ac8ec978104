# CityShield: TLA+ specifications

CityShield watches four web sites of Varna's utilities (`vik`, water; `epro`,
electricity; `vt`, public transport; `heating`), turns their announcements
into alerts, and pushes each alert to the users it concerns. The backend is one
Cloudflare Worker on D1 (`src/backend`), the app is React Native
(`src/frontend`). This directory specifies the parts of it whose correctness
depends on order, concurrency, failure and judgement: TLA+ modules, TLC
configurations and TLAPS proofs. `PROJECT.json` lists every run, the source
lines each definition stands for, the mutants, the hazards and the theorems.

## 1. Inventory

### Ingestion (`src/backend/src/ingestion`, `core`, `shared`)

| component | state | operations | what is hard | what makes it correct | module |
|---|---|---|---|---|---|
| Pipeline (`pipeline.ts`) | `alerts` rows: `notified_at`, `push_attempts` | parse, store, read back, duplicate check, send, count, stamp | every await is a point where the isolate dies or D1 fails; the send and its stamp are two systems | a stamped alert was delivered and is never pushed again | `Pipeline` |
| Id-listing crawler (`id-listing.ts`, heating) | `crawl_state.last_id`, `ingest_attempts` | bootstrap, batch, claim, give up, advance | cursor and attempts are written one message at a time between the pipeline's steps | the cursor passes settled messages only; oldest first; nothing pins it | `CrawlState`, `IdListing` |
| Id-probe crawler (`id-probe.ts`, ViK) | the same tables | probe numbered pages, count misses, step over dead ids | holes in the numbering, ids published late | an id is passed only when finished with, read as empty, or not listed; probing ahead of the site costs nothing; no hole stops the source | `IdProbe` |
| Seen-set crawlers (`epro.ts`, `vt.ts`) | `crawl_state.seen_ids`, at most 500 | bootstrap, process up to a budget per tick, add | capped read-merge-write, no attempt cap | nothing is marked that is owed; nothing marked is worked on again | `SeenListing` |
| Cron (`index.ts`, `runner.ts`, `schedule.ts`, `silence.ts`), health route, retention | `ingest_health`, `source_health` | rotate, due, time out, record, heartbeat, clean up | work that outlives its timeout; a kill that the heartbeat must report | one writer at a time, no source starves, health can be believed | `IngestTick` |
| Outbound calls (`scrape.ts`, `ai.ts`, `deadline.ts`) | none | attempt, back off, fall back | every step bounded by what is left of the tick | a call ends, and within its deadline | `Attempts` |
| Parsing guards (`normalize.ts`) | none | seventeen rules over the model's parse | the rules' order; any answer of the model | nothing invented, nothing named lost, no unsaid broadcast | `Normalize`, `Reach` |
| Place matching (`place-names.ts`, `fuzzy.ts`, `locations.ts`) | rows | name to row, within a settlement | one name in several settlements; ties | the row does not depend on the seed's order, nor leave the settlement | `Places` |
| Targeting (`alert-service.ts`, `bus-lines.ts`, `onesignal.ts`) | none (reads) | places to users | who must and must not be told | an alert reaches the users of its places and no others | `Targeting`, `Reach` |
| Block polygons (`polygon.ts`) | none | streets to a ring | clipping and counting cut short | the ring is a block of the named streets, found whenever there is one | `BlockPolygon` |
| Geocoding (`geocoding.ts`, `enrichment.ts`) | slot chain, `geocode_cache` | reserve, look up, fall back | concurrent callers, each with its deadline | one call a second; a pin and a cached miss are what a provider said | `Geocoding` |
| Schedules (`datetime.ts`, app `datetime.ts`) | envelope and windows | normalise, decide what is on | server and app read the same columns | an alert is on when its message says | `Schedule` |

### Accounts (`src/backend/src/api`, `core`)

| component | state | operations | what is hard | what makes it correct | module |
|---|---|---|---|---|---|
| Sessions (`refresh-tokens.ts`, `auth.ts`) | `refresh_tokens` | sign in, rotate, replay check, sign out, reset, erase, clean up | statements of several requests interleave; requests die between them | one usable token per device; an ended session stays ended; none of a deleted account | `RefreshTokens` |
| Mailed tokens, location, registration (`auth.ts`, `auth-tokens.ts`) | `users`, `auth_tokens` | register, verify, forgot, reset, put and delete the location, erase | two clicks, two mails; a slow reverse lookup between a read and a write | a link works once, for a password only; a completed lookup decides the region | `Account` |
| Preferences (`preferences.ts`, settings screen) | `user_notification_preferences`, `subscribed_bus_lines` | load, toggle, select | optimistic screen, requests that overlap | what is shown is what is kept | `Settings` |
| Feed (`alerts.ts`) | edge copy | recent | stale copies | see the inbox | `Inbox` |

### App (`src/frontend`)

| component | state | operations | what is hard | what makes it correct | module |
|---|---|---|---|---|---|
| Session (`AuthContext.tsx`, `api.ts`, `client.ts`) | the token ref, React state, phone storage | boot, sign in, renew, call, sign out | renewals race each other and a sign-out; answers are lost | one session everywhere; only the server ends it | `ClientSession` |
| Inbox (`notifications.ts`, `NotificationsScreen.tsx`) | stored list, dismissed set, screen | sync, read, delete | read-await-write without a lock | a deleted alert does not come back | `Inbox` |

Components interact through D1 only: a cron tick writes `alerts`,
`crawl_state`, `ingest_attempts` and the health tables; requests write `users`
and the token tables; the app sees both through HTTP. Nothing holds a lock or a
transaction across two statements, so one D1 statement is the unit of atomicity
of every backend module; in the app it is the code between two awaits.
`PROJECT.json` "components" has every part, also those left out.

## 2. Modules

### Pipeline

`ingestAlert` and `processOutageMessage` for one message at a time, one action
per await. `pc` names the call about to be awaited; `"submitted"` and
`"rejected"` are the code's `true` and `false`, and `"thrown"` is a throw, of a
guard's reads before the store or of the count or the stamp after the send.
`crawlIdListing` catches it and takes it for `false`, and so does
`crawlIdProbe`; nothing catches it in `epro.ts` and `vt.ts`, where it ends the
source's tick.

- `alert[m]` is the row of message m: absent, `"owed"` (stored, `notified_at`
  NULL) or `"notified"`. `pushFails` is `push_attempts`; `pushed` counts what
  the push provider accepted, which no table of the system records. It counts
  to `PushCeiling`, a constant that may be any number.
- A D1 statement has three outcomes (`D1Outcomes`): it succeeds, it fails
  without effect, or it fails after it committed. The last two use up one of
  `MaxFaults`.
- A parse is its outcome. A send is accepted, finds nobody, fails (and may
  have reached somebody all the same), or throws before sending.
- Hedged announcements (`Hedged`, `Restates`) go through the duplicate check;
  the check may answer "no duplicate" when there is one (another window,
  another wording), never the converse.

### CrawlState, IdListing, OrderedDelivery

`CrawlState` is the `crawl_state` row and the `ingest_attempts` rows with the
functions of `state.ts`, shared by both crawlers with a numeric cursor. Each
does what its catch clause does: `hasStateRow` answers true, `claimAttempt`
lets the message through, `recordSkip` and `writeLastId` swallow. Attempt
counts saturate one past the cap, where the code stops telling them apart.

`IdListing` is `crawlIdListing` around the pipeline, with the site it reads
(`visible`, `latest`; `Publish` may leave holes, `AgeOff` drops the oldest
link), the cursor, the attempt counter and the tick's own variables
(`storedId`, `todo`, `cur`), which `Kill` erases and the tables survive. Ticks
of one source do not overlap, because the runner bounds a tick to five of the
fifteen minutes (`IngestTick` has the check). `seeded` and `gaveUp` are history
variables. `Finished(m)`: m was there before the first run, was stamped, was
abandoned after `MAX_PUSH_ATTEMPTS`, or was given up.

`OrderedDelivery` is what a crawler with a numeric cursor promises, with no
tables, ticks or failures: messages are finished with oldest first, the cursor
moves forward over finished messages only, nothing at or below it is pushed.
`IdListing!Abstract` instantiates it with `settled <- finished`, and
`ImplementsOrderedDelivery` is checked and proved.

### IdProbe

`crawlIdProbe` on `Pipeline` and `CrawlState`. The site numbers its messages
upwards with holes (`published`), and its listing shows some of them
(`visible`), since it covers one message type. A walk (`from`, `id`, `misses`,
`processed`) fetches one id after another; `FetchPage` reads whether the page
holds a message at that moment, and the answer (`empty`) is used two awaits
later, after the claim. `missed` is what the running walk has read as empty.
`stale` stands for `updated_at` being six hours old: `GrowStale` sets it at any
time, every write of the cursor clears it, and without it `FindStuck`
(`stepOverDeadIds`) does not fire. `seeded`, `gaveUp`, `overEmpty` and `jumped`
are history variables: how each id at or below the cursor came to be there.

### SeenListing

`epro.ts` and `vt.ts` on `Pipeline`: a message number stands for the hash of
its text. `entries` and `seenIds` are the tick's copies of the page and of the
row; `AddSeenIds` merges into the row and keeps the newest `MAX_SEEN_IDS`, and
fails or commits unseen like any statement. epro's entries come from several
types of interruption (`Buckets`) of which any may fail to be fetched; vt asks
the model first whether a message changes a route (`Irrelevant`). There is no
attempt cap: `Unreadable` messages fail on every tick, and `PassOverFailed`
goes on with the next one. `EndTick` is the end of the list, the budget, the
deadline, which may have passed before any entry, or a throw. A failure of a
`Stalling` message always leaves the tick no time. `later[m]` is history:
how many ids were marked after m. Without a fault, the backlog of the first run
is never worked on (`BacklogLeftAlone`); a type of interruption that the first
run could not fetch is a fault, and its backlog is pushed later.

### Faults, IngestTick

`Faults` is what fails outside the code, a D1 statement or an isolate that is
killed, counted up to `MaxFaults`; `IngestTick` and `Geocoding` extend it.

`scheduled`, `runIngestion` and the read half of `GET /health`. Time is counted
in ticks and, inside a tick, in units of its budget. `due` is the set of sources
the tick has still to run and `current` the one it is at; the rotated list of
the code is the order `Place` puts them in. A run returns, throws or hangs; a
source that times out goes on in the isolate (`running`), and what it does then
counts against `OneSourceAtATime`. `started`/`completed` and
`firstRun`/`itemsAt` are the two health tables; every write of them may fail.
`StartCleanup` and `RunJob` are the seven retention jobs, each in its own
`try`.

### Geocoding

Each provider's slot chain (`queue`, `since`) as the promise chain of
`geocoding.ts`: a caller queues, sleeps out the spacing, sends, and its request
is aborted after `REQUEST_TIMEOUT` or at its deadline. `placeLocation` walks
area, up to `MAX_STREETS` streets and settlement; Photon is asked when Nominatim
has nothing near; the cache is read before and written after. Users' points are
looked up in reverse in the same chain. A provider's knowledge of a name is a
point near its settlement, one elsewhere, or none. `heard` and `spaced` are
history variables.

### RefreshTokens

The table and every request that works on it, one action per D1 statement:
login, refresh (claim, insert, read the user; or the replay check), logout,
password reset, erasure with its cascade, expiry and clean-up. `Drop` ends a
request anywhere, which is a dead isolate, a failed statement or a lost answer.
`held` is what some client has received: any held token may be presented again
at any time. Tokens are numbered as they are stored and a family is named by
its first token. The access token is left out: the code cannot revoke it and does
not try to. The table's columns are `status`, `user_id` and `family_id`, and
`filled` counts its rows; the definitions that every specification has are
called `TokensInit`, `TokensNext`, `TokensTypeOK`, so that a module can extend
this one and the phone's.

### ClientSession

One device: the boot effect, sign-in, sign-out, the screens' calls and the one
renewal they share (`inFlightRenewal`), against the server's refresh tokens,
here with one step per request (`RefreshTokens` has the statements). `ref` is
`refreshTokenRef`, `token` the React state, `stored` and `writes` AsyncStorage
and the operations issued to it and not done yet. Any answer may be lost; `Kill`
ends the app and keeps the storage.

`MCSessions` extends `RefreshTokens` and `ClientSession`, which share no state:
a behaviour exercises the server's side or the phone's, chosen at its start,
with the other at rest.

### Account

One address: registering, verification and reset links, the password, the
location and erasure. A request is a process between whose statements any other
request runs; sessions are counted, not detailed. `ReverseGeocode` takes any
time and may fail, between the read of the region and the write.

### Inbox, Settings, MCApp

`Inbox` is every handler of the inbox as a sequence of storage calls and
answers, overlapping freely; the feed may be answered from an old edge copy.
`Settings` is the optimistic screen against the two tables: a `PUT` is applied
whenever it arrives and its answer may be lost. They share no state;
`MCApp` extends both and checks the one or the other, as the behaviour's start
chooses, with the other at rest.

### Places, Targeting, Normalize, Reach, MCReach

The path of one announcement from its text to the users it is pushed to. A name
is a kind and a set of words; a text is a sequence of names and cues ("the
streets:", "in the area of", "the whole city", ...), which is what the regular
expressions look for. `Similarity` is computed from shared words in place of
trigrams; `Distance` lies on a line and is counted in tens of metres
(`Km == 100`). `Places` matches names to rows (threshold, tie band, kind,
in-city preference, spelling, distance); `Normalize` is the rules A1 to A17 in
the code's order;
`Targeting` is the audience of a location, the filters and the chunked send;
`Reach` chains them: any parse the model may answer, the guards, any ring a
block may get, and a send of which any chunk may be refused.

### Schedule, BlockPolygon, Attempts, Algorithms, MCAlgorithms

`Schedule`: the normalisation of dates, clocks and windows, the stored envelope,
and the app's `isActive`, against a reference definition of when a message says
it is on. `BlockPolygon`: names to street ids to lines, the clip window, and the
choice among the faces; the geometry library is external, and a face is its
area, vertices and, per sample of its ring, the streets in reach. `Attempts`:
one call of `fetchPage` or `aiParse`, its attempts, pauses and timers within the
deadline. `Algorithms` has them as alternatives beside `Reach`, states what is
right about a schedule and a block, and is what the proofs are about;
`MCAlgorithms` only gives the instance.

## 3. Runs

| run | configuration | shows |
|---|---|---|
| `heating` | `MCIdListing.cfg` | what the stamp, the cursor and a skip mean, what may repeat a push, order and finality of pushes, that no message pins the cursor, and that the crawler implements `OrderedDelivery` |
| `vik` | `MCIdProbe.cfg` | what the cursor may pass, what probing ahead of the site may cost, order of pushes, with holes and a fault |
| `vik_progress` | `MCIdProbeLive.cfg` | `ListedMessagePassed`: no message and no hole stops the source |
| `seen` | `MCSeenListing.cfg` | what a mark means, what is worked on twice, that a head that is never parsed holds nothing back, unless it takes all of every tick |
| `tick` | `MCIngestTick.cfg` | one writer, no starvation, what the health route can be believed on |
| `geocoding` | `MCGeocoding.cfg` | spacing, deadlines, honest pins and cache, every lookup ends |
| `sessions` | `MCSessions.cfg` | one usable token per family, ended sessions stay ended, what a reset leaves, no session of a deleted account; memory, storage and server hold one session, only the server ends it, no caller waits for ever |
| `account` | `MCAccount.cfg` | one account, links good once and for a password only, erasure, a completed lookup decides |
| `app` | `MCApp.cfg` | what a delete, a read mark, the list and the settings shown can be relied on for |
| `algorithms` | `MCAlgorithms.cfg` | texts to users, schedules, blocks, calls |
| `location_stale_write` | `MCAccountStale.cfg` | the first finding below |
| `another_settlement` | `MCReachEscape.cfg` | the second finding below |

Properties that a run checks together are conjunctions of named parts, and each
part that a bug could break alone has a mutant of its own: `CursorSafe`,
`PushesInOrder`, `TokensSafe`, `RenewerSafe`, `SeenSafe`, `TickSafe`,
`ThrottleSafe`, `AnswersHonest`, `AccountsSafe`, `LinksSafe`, `InboxSafe`,
`SettingsSafe`, `TextSafe`, `AudienceSafe`, `BlocksSafe`. The first part of each component's
main invariant is its `TypeOK`.

### Bounds

- `heating`: three messages, one of them history, so that a batch of two can
  hold a failed message, one ahead of it and one published during the tick; the
  newest message is a hedged restatement of the one before. One fault anywhere.
  The caps are two instead of five: a failure below the cap, at it and past it;
  the attempt counters saturate one past the cap. `PushCeiling` is 5: one fault
  and two counted failures allow four pushes of a message, so a fifth would be
  seen. The proofs of section 4 remove all these bounds but the finiteness of
  `MaxId`; `PushCeiling` is any number there, and one above
  1 + `MaxFaults` + `MAX_PUSH_ATTEMPTS` caps nothing. The other crawlers' runs
  count to 2, since their properties ask only whether a message was pushed.
- `vik`: four published ids of five, so that the walk can probe one that is
  never published; two misses to a walk, so that a hole can be stepped over by a
  success or be too wide for it; one fault and a cap of one, so that a lost
  release takes an unpublished id past the cap, and `UnpublishedNotPassed` fails
  if the bound on faults is ignored. `vik_progress` has one miss to a walk and
  no faults: every hole is then too wide.
- `seen`: five messages, three listed at once, a set of three hashes, so that the
  oldest mark is forgotten while its message may still be listed; a budget of
  two. Three messages never parse: two whose failure is quick, which alone leave
  some of the budget and together none, and one that uses up the tick; one has no
  route change; one can be delivered. One fault; one failed push gives an alert
  up, since counting below the cap is what `heating` is for.
- `tick`: three sources, one of them on every third tick, six ticks, so that
  every phase of the rotation is met twice; a budget of two units, so that a run
  can leave some of it, all of it or overstay it; two retention jobs; one fault.
- `geocoding`: a location with a street, one with a district, and a user's
  point, which is a chain of three with a deadline, none, and one that comes too
  late; spacing 2, request 2 and room 1 keep the order of the code's
  milliseconds.
- `sessions`: at the server two requests at once, which is what every race in the
  code needs (each conflict is between two rows' statements), three tokens (two
  sessions, or one session rotated twice), one reset. On the phone one device,
  one user, a screen's call beside the boot's and the sign-in's, three pairs, so
  that a rotation's answer is lost and a sign-in follows; one kill or storage
  failure. Requests are symmetric, also under the run's liveness property: all
  are idle in the phone's behaviours, which are the ones `CallsReleased` is
  about.
- `account`: two requests, two accounts in a row for one address, two links.
- `app`: two handlers (or two PUTs), two alerts, of which the inbox holds one, so
  that the feed outgrows it; two rebuilt lists.
- `algorithms`: ten texts that between them hold every cue; parses that file
  each name in every slot, invent a settlement and an area, split, merge and
  reorder; ten users in and out of every row. Three-clock days, up to two
  windows and any dates around today. All blocks of four of seven names. Seven
  deadlines, from none to more than every attempt needs.

Deadlock is checked where a system never stops (`heating`, `vik`,
`vik_progress`, `seen`). It is off where a bound ends the behaviour (tokens,
ticks, pairs, accounts, alerts) or where an algorithm has its result.

### Fairness

- Crawlers: weak fairness of their own steps, since the cron fires every quarter
  of an hour and an await returns; strong fairness of the fetches, since a site
  that always fails gives no progress to anyone. Faults are finitely many.
  Nothing is assumed of parsing or sending: they may fail every time, and the
  caps are what makes the cursor move. The exception is `seen`, which has no
  cap: a message that can be parsed is parsed in the end, and only the
  `Unreadable` ones never are. The deadline may end any tick of it before any
  entry, but a turn (the first, the second) that tick after tick comes to is not
  too late every time; this says nothing of what follows a `Stalling` message,
  where that turn is never come to. `vik_progress` also assumes strong fairness of
  each page's fetch, of the listing and of `FindStuck` (a walk gets to its end
  before the deadline often enough), and weak fairness of `GrowStale`, since
  time passes.
- `sessions`: a promise settles; the network may settle it with a failure.
- `geocoding`, `AttemptsEnd`: timers fire and a caller goes on; no provider
  need ever answer.

### Findings

`location_stale_write`: `PUT /location` whose reverse lookup fails writes back
the region and street it read before the lookup, over a second PUT that
completed meanwhile; `geocoding.ts:40` says "A failed lookup must leave the
columns alone."

`another_settlement`: when the settlement's own rows do not match an area, the
retry over all rows is refused only if it lands in a recorded other settlement
(`alert-service.ts:189`). A town's own row records none (`settlement_id` is
NULL), so an area of a village that bears a town's name resolves to that town,
and its districts and unplaced users are pushed. `alert-service.ts:200` says
"Outside the city the retry's answer is never wanted", and a test is called
"never lets an area outside the city resolve into another settlement"
(`test/alerts.spec.ts:568`). `StaysInTheSettlement` has this one exception.

### Limits of the code that the models show

These hold in the models because the properties name them as exceptions; each
was seen in a counterexample to the property without its exception.

- A kill or a failed stamp after an accepted send pushes the alert again; one
  failed read of `crawl_state` on the first run pushes history. Each needs a
  fault, and `OnlyFailuresRepeat` counts them.
- Failed pushes of a stored alert also spend the strikes meant for failures
  before the store. `recordSkip` swallows a failed write, and the cursor moves
  past a message that no row records.
- ViK: an id read as empty and published before the same walk's next success is
  passed undelivered.
- Of two concurrent refreshes the loser revokes the family it shares with the
  winner; a rotation claimed before its family is revoked inserts its token
  afterwards; a login or rotation under way during a reset keeps its session
  (the exceptions of `ResetEndsOldSessions`).
- A profile answered after a sign-out binds the device's pushes again.
- A consent withdrawal (`DELETE /location`) is overwritten by a slow PUT that
  started before it.
- The cap of the seen set forgets a message that stays listed while 500 others
  are marked.
- `epro.ts` and `vt.ts` have no attempt cap: a message that is never parsed and
  uses up the time of every tick, or as many such messages as a tick's budget,
  hold back all that is listed after them until they are taken down (`HeldBack`).
- Health: a source that never recorded a run is never silent; a tick whose
  start could not be written hides its kill.
- A caller queued behind others for a slot is refused only when its turn comes,
  which may be after its own deadline. Chains are per isolate.
- Overlapping handlers of the inbox undo each other's deletions and read marks;
  a read mark is lost when the alert leaves the stored list and returns. The
  bus lines revert to what they were at the tap, with whatever was tapped since.
- Targeting: a hedged location whose area slot holds the city reaches nobody; a
  hedge drops a street's residents who have no region.
- `BlockPolygon`: a message that writes both spellings of one street counts it
  twice; the branch "fewer than three streets after clipping" cannot fire
  (`ClippingLosesNoStreet`).
- `Schedule`: a window whose clocks are equal is a whole day to the app and
  empty to the server's envelope; the envelope ends with the window that starts
  last, not the one that ends last.

## 4. Proofs

Eight modules hold theorems: `PipelineProofs` (lemmas), `IdListingProofs`,
`IdProbeProofs`, `SeenListingProofs`, `AccountProofs`, `AppProofs` (the phone's
session, the inbox, the settings and the server's table of sessions),
`WorkerProofs` (the cron, geocoding and outbound calls) and `AlgorithmProofs`
(audience, schedules, blocks). The theorems hold for every value of the
constants that satisfies the `ASSUME`s of the modules: any number of messages,
sources, ticks, callers, requests, tokens, accounts and faults, any tables of
places, users and street lines, any schedules and faces. Each concurrent
component has an inductive invariant, `IInv` (`InboxInv`, `SettingsInv`,
`TokensInv`, `TickInv` and `CallInv` for the inbox, the settings, the server's
sessions, the cron and a call), stated in the component's own module, and a
theorem `Invariance` (`InboxInvariance`, `TokensInvariance`, `TickInvariance`);
the properties follow from it.

**IdListing.** No property is inductive by itself. `IInv` is `TypeOK`,
`PipelineInv` (a row is owed from its read-back to its stamp, `"stamp"`
follows a delivery, `"submitted"` is only answered for a message finished
with), `TickInv` (the stored cursor does not move under a tick; the batch is
ahead of the cursor, and everything visible below an entry is finished with or
listed before it; the cursor is written for settled messages only), and
`CursorPassesOnlySettled`. `PipelineProofs` shows what one pipeline step
preserves and how it changes the tables, whichever crawler runs it;
`IdListingProofs` shows the rest action by action. From `Invariance` follow
`TypeCorrect`, `StampSound`, `CursorSound`, and, as each needs only one step
from an `IInv` state, `StampFinal`, `PushOrder`, `CursorMonotone`,
`PassedStaysPassed`. `SkipsAreRecorded` needs a second invariant over `IInv`,
`SkipInv`: without a fault a given-up message is recorded and about to be
passed. `CrawlIsSafe` and `OrderKept` put them together as the properties the
run checks. `Refinement` maps every step to a step or stutter of
`OrderedDelivery`: a send to `Push`, the stamp, the abandonment and the
give-up to `Settle`, the cursor write to `Pass`, the bootstrap to `Seed`, and
everything else to a stutter.

`RepeatsAreFailures` (`OnlyFailuresRepeat`) bounds the number of pushes of a
message by one, plus the faults, plus the failed sends counted against it, for
every `PushCeiling`, so also for those the count never reaches. It has an
invariant of its own over `IInv`. `FirstRunInv`: until the first fault a listing that shows anything
shows its newest message, so the first run puts the cursor above the history.
`RepeatInv`: a message that can be pushed again has a fault, a failed push or
its first push to spare. The second part is what makes it inductive: the push
itself uses up what was spare, and each way back to a message pushed before
(a fault, or an answer that failed) pays for one.

**IdProbe.** `IInv` adds to the two invariants of the run: `PositionInv` (what
lies between the cursor and the walk's next id has been missed or is finished
with; the listing's answer at a jump lies below everything listed and not yet
passed), `MessageInv` (the message in hand is that next id, and only a page
that held a message reaches the pipeline), `ClaimInv` (an unpublished id has at
most one claim more than there were faults, the one being made) and
`HistoryInv`. Each gets its lemma, one step per action; `CursorStep` names the
four ways a step can move the cursor, and `PipelineProofs` carries the rest.
Theorems: `TypeCorrect`, `CursorSound`, `UnpublishedSafe`, `PushOrder`,
`PassedStaysPassed`, and over them `WalkIsSafe` and `OrderKept`.

**SeenListing.** `MarkingInv`: every step after the read of the set knows every
mark there is, so a tick does not take up what is marked. `PlaceInv` says where
a mark stands: as many places from the end of the row as there were ids marked
after it. A merge moves it by the number of ids it adds, the cap cuts from the
front, so a mark is only lost when `MAX_SEEN_IDS` came after it. That a batch
of ids is put in an order that keeps its newest last (`InOrder`) is shown by
counting the newer ones of each, which is injective and so onto. `BacklogInv`:
until a fault, the first run has all of the backlog before it and marks it.
`PipelineProofs` carries what the pipeline adds to "finished with". Theorems:
`MarksAreSafe`, `ReworkNeedsCap`.

**RefreshTokens.** `TokensInv` adds `TableInv` to the properties: rows are filled
in order, a family's id is an earlier token, and what a request carries came
from the table. Every step is one of three kinds (`RequestStep`): it only
takes rows and rotations away (`Shrinks`), turns a live token into a rotation
(`Claims`), or stores one token (`Stores`), and each kind is shown to preserve
`OneLivePerFamily` and to leave ended sessions ended. Theorems: `TokensInvariance`, `TypeCorrect`,
`OneLiveToken`, `ErasureComplete`, `TableIsSafe`, `OverForGood`, `ResetSound`.

**Account.** `IInv` adds to the properties: `RequestInv` (a request about to
save a completed lookup carries the region of its own point), `OneAccountInv`
(one account at a time, ids never reused) and `FreshLinkInv` (a link that can
be redeemed never was). One step per statement of a request, over any number of
requests under way. Theorems: `AccountIsSafe`, `LinksAreSafe`, `LookupDecides`.

**ClientSession.** "A spent token is only kept when an answer was lost" is not
inductive: between the server's rotation and the write of the answer, storage
does hold a spent token. `KeptInv` therefore excuses a token that is being
rotated (`Rotated`) or whose answer is in `lost`, and extends to every write
queued and not done. `WritesInv` makes the queue do that: a renewal has one
write in it at most, and nothing queued behind it puts back the token it spent.
`RenewalInv` ties what the renewal knows to the server's rows, `IssuedInv` keeps
every pair of the device among those issued, `ReadingInv` keeps everything else
still while the boot effect reads. Theorems: `SessionIsOne`, `RenewerIsSafe`.

**Inbox.** Handlers read a list, await, and store what they made of it, so what
is in storage says little about the next state: the invariants are about every
copy that may still be stored. `HandlerInv`: each copy is a list (finite, within
`MAX_ITEMS`), and only a handler under way counts as alone. `ReadInv`: a read
mark that counts is in storage and in every such copy. `DeletedInv`: an alert
deleted by a handler that was alone, and still in the server's window, is in
`dismissed` and in every copy of it that may be stored, is in no list that was
already pruned, and lies within the feed any sync answered, unless the edge
answered an older feed. `ScreenInv`: without overlap one handler runs, and each
of its steps is the one that brings the screen in line. `NewestBound`, the
length of the merged list, counts each alert by the number of those newer than
it, an injection into `0..MAX_ITEMS-1`. Theorems: `InboxIsSafe`, `DeletionHolds`.

**Settings.** `CrossingInv`, while nothing crossed: a load runs by itself and
what it has read is what the server has; one PUT at most is under way, and until
it is applied the tables hold what the screen showed before the tap, which is
what a failure puts back. Theorem: `SettingsAreSafe`.

**IngestTick.** `RunningInv` (whoever runs on beyond its turn has used up the
budget, so no other source starts), `HeartbeatInv` (a tick that is under way has
not completed), `FoundInv` (`items_at` is never later than the last find) and
`TurnInv`: without a fault a source runs in every tick that is its turn, because
then it is the first of the rotated list and the budget is untouched. That it is
the first is arithmetic (`TurnComes`, `OneFirst`), and rests on the assumption
`IntervalsFitRounds`: an interval is one tick or a multiple of the number of
sources. `SOURCE_INTERVAL_MINUTES` has it: 15 and 240 minutes, one and sixteen
ticks, with four sources. A cadence that broke it could starve a source, and
nothing in the code would notice. Theorems: `TickIsSafe`, `HeartbeatTells`,
`SilenceTold`, `NoneStarves`.

**Geocoding.** `ChainInv` says what a chain of promises is: who waits in a
provider's chain stands in it, once, and only its head sleeps. `SpacingInv`: the
head's sleep ends exactly when the spacing does. `LookupInv`: a location being
looked up is at a name no reference row answers, so what the cache is given is
a provider's. A step changes the clocks of one provider, the chain of one
provider and the pin of one location, and the lemmas `StepKind`, `StepMemory`
and `PinKind` sort the actions by that before the invariants are taken one by
one. Theorems: `ThrottleIsSafe`, `SlotLeavesRoom`, `AnswersAreHonest`.

**Attempts.** `WaitInv`: whatever a call waits for, its timer is not past the
deadline, because a request is only made, and a pause only begun, with time
left for it. That the primary model gets two of three attempts is a matter of
counting. `NEED`, `PAUSE` and `TIMEOUT` may be any times, deadlines any
instants (`CallConstants`). Theorem: `CallsAreWellSpent`.

**Reach (audience).** `AudienceIsRight` states `AudienceSafe`. Most of it is about
one alert, so the invariant (`SendInv`) is small: nothing is sent before the
alert is stored, everyone reached is a recipient, and an alert is done when all
of them were accepted. `ChunksCover` has that the chunks of a send are its
recipients and nobody else, whatever the chunk size: each recipient's rank falls
into one chunk. The rest is the lookup. `MatchCoreIn` and `MatchRegionOf` say
that a match is a row of the scope it was looked up in; `NamedRegionOf` follows
the retry without a scope and says where it may land; `UsersStay` takes the
ways a user is reached (street, district, unplaced but near) one by one and
finds them in the settlement. That the city by name alone reaches nobody
(`CityReachesNobody`) needs that the city is found for its own name: no core
scores above an equal one (`SimilarityOf`, which is counting), so the city's row is among the close ones
inside the city, and nothing that it does not beat bears another name
(`CityIsFound`).
Assumed of the tables: `RegionsAssumption` (ids are positive, rows of one id
agree, a region's parent has none: two levels), `StreetsAssumption`,
`CityAssumption` (rows with the city's name are the city), and
`UsersAssumption` (user ids are ordered, a chunk holds somebody).

`BroadcastIsSaid` is the part of `TextSafe` that guards the whole city: a push
to everyone goes out only when the text says so, whatever the model answered
and whatever the other rules removed. `BroadcastInv` carries the parse's fields
to the guard (`ParsesAssumption`: the schema the answer is read with has them);
`GuardOf` has the guard's three branches.

**Schedule.** `ScheduleIsRight`: an alert whose message closes its windows is
shown at every instant they cover and not past the last, and where the windows
are kept only at those, for any dates, windows, day of writing and moment of
storing. `DayOf` and `InstantOf` split an instant into its day and clock.
With the windows kept, the app's test by date and clock is the message's list of
hours (`KeptIsPublished`). Without, all that is left is an envelope, but then
there was one day and one window (`NotKeptIsAlone`), which the envelope tells
exactly (`AloneIsPublished`). `DayAssumption`: a day has at least two clock
readings. `SchedulesAssumption`: dates and clocks are numbers.

**BlockPolygon.** `BlockIsRight` states `BlocksSafe`. Counting stops early: a
prefix's count differs from the ring's by at most what is left (`HitsOf`), so it
stops only when both tests are settled (`CountOf`), and the tests as coded are
those on exact counts (`TestsOf`). The clip window is spanned by one fragment of
each street, the nearest to the anchor, and so reaches every street (`ClipOf`).
The face kept is one that no other eligible face beats, which exists because
"more streets, then the smaller area" is a strict order on a finite set
(`FirstOf`, `MinimalExists`); with `LinesInScope`, no line of another town's
street of the same name is among them. `WaysAssumption`: lines are finite and lie
in their boxes; `FacesAssumption`: the library answers a list of faces.

Model-checked only:

- every liveness property: the prover covers neither fairness nor `ENABLED`;
- `TextSafe` but for `BroadcastOnlyWhenSaid`. The rules select from lists,
  flatten and fold them (`SelectSeq`, `FlattenSeq`, `FoldLeft`): what these give for lists of any
  length is induction over data, which the installed provers cannot do. Two of
  its parts are besides not true of every table: a street hears of an alert
  (`NamedStreetsHear`) unless a district's name stands in the settlement slot,
  and the seed's order does not decide (`SeedOrderNeverDecides`) unless two rows
  lie at one distance on opposite sides;
- the two violation runs.

## 5. Not modelled, and the plan

Abstracted in the modules above: wording, HTML, prompts, trigrams, plane
geometry, rate limits, access tokens. Not modelled at all, with the reason of
each in `PROJECT.json`: cryptographic primitives, the middleware, the cache of
reference rows (read-through, rows do not change), message texts of pushes,
rendering and texts of the app, static pages, operator tools, migrations and
seeds, and the two manual injections (`POST /submit-data`, `/test-push`), of
which `Reach` only has the alerts they store.

Every safety property of the runs has a theorem, `TextSafe` in part. What would
be worth adding: the rules of `Normalize` over sets of located names instead of
lists, so that the rest of `TextSafe` could be proved under assumptions on the
tables; and the liveness properties, with a prover that has `ENABLED`.
