# novatip-backend in TLA+

This directory specifies the concurrent and stateful parts of novatip-backend in
TLA+, model-checks them with TLC on small instances, and proves the most
important results for every instance with TLAPS. `PROJECT.json` lists the
components, the runs, the lines each definition stands for, the hazards and the
theorems. Paths below are relative to the repository's `src/` tree.

## 1. The system

novatip-backend watches the TipReceived events of a Soroban contract, stores
each as a row, and tells the creator by webhook and e-mail. Creators sign in
with a wallet, claim a slug and a jar, and manage webhooks and preferences over
HTTP. It is one Node process over PostgreSQL (Prisma) and Redis. Between two
awaits nothing else of the process runs; at every await everything else may,
the requests of other clients, the indexer, the timers and a second process
during a deployment included. Most statements are transactions of their own.

| Component | State | Operations | Interacts with |
|---|---|---|---|
| Indexer (`src/indexer/`) | `IndexerCursor` row, position and failure count in memory, `running`, the sleep | start, poll, persist a tip, idle advance, back off, stop | the RPC; `Tip` and `Creator` rows; hands new tips to dispatch and e-mail |
| Webhook dispatch (`webhooks.service.ts`) | queue, busy slots, open dispatches, drain waiters | enqueue, dispatch, deliver, ping, drain | endpoints; `WebhookDelivery`; failure notifications; shutdown |
| Webhook failure notifications (`webhook-failure.service.ts`) | `Notification` rows | look at the last hour, write | dispatch |
| Webhook registration (`webhooks.service.ts`, `limit.ts`, `secret-crypto.ts`, `webhook-url.ts`) | `Webhook` rows | create, enable, rotate, delete, migrate secrets | dispatch reads them |
| Retention (`webhooks/retention.ts`) | timer, active flag | prune in batches, reschedule, stop | deletes deliveries and notifications |
| Tip e-mails (`email.service.ts`) | `Notification.sentAt`, timer | mail a tip under the hourly cap, digest of the rest | indexer; Resend; preferences |
| Contact address, notifications and preferences | two flags of `Creator`, `Notification` rows | list, switch | dispatch and e-mail read the flags |
| Creators and slugs (`creator.service.ts`) | `Creator`, `ReleasedSlug`, `Tip.creatorId` | claim, rename, delete, profile, splits, availability | indexer reads jar owners; cache; token revocation |
| Placeholder pruner (`placeholder-retention.ts`) | timer, flag | scan, delete | deletes `Creator` rows |
| Sessions (`auth/`, `redis.ts`) | nonces and revocation marks in Redis | challenge, verify, authenticate | creates `Creator` rows |
| Profile cache (`redis.ts`, `getCreatorBySlug`) | cached profiles | read through, invalidate | resolver, QR, profile pages |
| Analytics (`analytics/`), public feed | cached pages | aggregates, pages, export, splits | `Tip` rows; Redis |
| Messages (`messages.service.ts`) | `Tip.messageHidden` | hide, show | public feed; cannot run at this commit (section 5) |
| Life cycle (`app.ts`, `server.ts`) | `shuttingDown` | start, signal, forced exit | stops the indexer, drains, disconnects |
| Health, metrics, QR, resolver, OpenAPI, configuration, validation | none | reports and formatting | - |

What is hard here, in order of weight:

- *Crash and retry around the cursor.* Tips are stored one by one and the cursor
  after them; either may fail, be applied without an answer, or be cut off by a
  crash. No tip may fall between table and cursor.
- *Reads acted on later.* Jar owner, slug holder, hold, claim state and the
  pruner's candidates are read in one statement and used in another.
- *Ordering and limits of the delivery queue*, and a shutdown that must wait for
  all of its work and no longer.
- *Clocks and windows*: hourly caps, suppression windows, holds.

Correctness per component: the indexer never skips a tip, never moves back, and
gets to every tip; the queue respects its limit, loses and doubles nothing, and
drains; a tip is credited to a holder of its jar and stays credited; a name left
by a creator is held; a deletion detaches and a pruner does not. `PROJECT.json`
lists the hazards behind these at their lines.

## 2. Modules

| Module | Models | Extends |
|---|---|---|
| `Chain` | the Stellar network as the indexer sees it (external) | - |
| `TipLog` | what the indexer promises: the abstract specification | `Chain` |
| `Indexer` | the poll loop; instantiates `TipLog`, which it implements | `Chain` |
| `IndexerProofs` | its theorems | `Indexer` |
| `DeliveryDrain` | what the queue promises to a shutdown: the abstract specification | - |
| `WebhookDispatch` | queue, dispatch, ping, drain, failure notifications; instantiates `DeliveryDrain`, which it implements | - |
| `WebhookDispatchProofs` | its theorems | `WebhookDispatch` |
| `SlugRegistry` | claim, rename, deletion, holds, pruner, attachment of tips | - |
| `SlugRegistryProofs` | its theorems | `SlugRegistry` |
| `ContactEmail` | contact address, its confirmation, the e-mail switch | - |
| `TipEmail` | tip mail, the hourly cap, the digest | `ContactEmail` |
| `TipEmailProofs` | its theorems | `TipEmail` |
| `WebhookRegistry` | registration, cap, rotation, deletion, the migration of secrets | - |
| `RetentionPruner` | the deletion of old deliveries and notifications | - |
| `WebhookRegistryProofs` | their theorems | `WebhookRegistry`, `RetentionPruner` |
| `MCSlugRegistry` | a symmetry set and a bound for TLC | `SlugRegistry` |
| `Session` | challenges, nonces, the creation of an account, tokens, their revocation | - |
| `TipFeed` | the paged lists and their cached pages | - |
| `SessionProofs` | its theorems | `Session` |
| `Dashboard` | the aggregates and the split of a jar, as operators over the rows of the feed | `TipFeed` |
| `MCTipFeed` | amounts, supporters and a symmetry set for TLC | `Dashboard` |
| `PlaceholderPruner` | the passes that delete abandoned placeholders | - |
| `ProfileCache` | public profiles, their cache and its invalidation | - |
| `TipFeedProofs` | the theorems of the lists, the aggregates and the cache | `Dashboard`, `ProfileCache` |
| `Application` | start and shutdown of the parts beside each other | `DeliveryDrain` |
| `ProcessProofs` | the theorems of the process and of its pruner of placeholders | `Application`, `PlaceholderPruner` |

Where a module of proofs extends two specifications, one of them names its own
`Init`, `Next` and `Spec` after itself (`AppSpec`, `ProfileSpec`,
`RetentionSpec`).

Two pairs of modules meet in an abstract specification. `Indexer` implements
`TipLog` with its table and its cursor row. `WebhookDispatch` implements
`DeliveryDrain` with the set of calls that are under way, and `Application`,
which composes the life cycle with the queue, keeps to the same contract: the
dispatch assumes that no tip arrives once a drain has begun, the application
shows that none does, because the indexer is awaited first.

Operators named `X_Something` are faulty variants of `X`: a plausible slip at
that place. No specification uses them; each is what a property is tested
against (`mutants` in `PROJECT.json`).

### Indexer

`head` and `ledgerOf` are the chain, `tips`, `cursor` and `tied` the database,
`startLedger`, `persistedCursor`, `observedHead`, `idleChecked` and `failing`
the locals of `runLoop`, and `pc` the await it is at:

    down --StartIndexer--> boot --> poll --ReadHead--> fetch
    fetch --FetchTips--> handle --PersistTip--> notify --> handle ... save
    fetch --FetchNothing--> save | sleep;  save --SaveCursor--> sleep --> poll

`PollFails` is the catch of the loop; a failed write may or may not have been
applied. `Crash` may happen at every await. `StopIndexer` clears `running` and
wakes a sleeper. `tied` stands for the comparison of `createdAt` with
`ledgerAt`: which rows tie is a free choice at insertion, since the two come
from different clocks. `MetricsLinked` says whether `updateIndexerCursor` is
bound: at this commit it is not (see 5). The order of a batch is chosen freely,
as the SDK promises none. The SDK is external: a fetch returns everything from
the start ledger on, or `PollLimit` events and none of a later ledger before one
of an earlier. A transaction may emit more than one event, and a row of `Tip` is
keyed by `txHash`: the event that comes second finds the row of the first and is
not stored (`persist.ts:36`). So what the properties promise an event is the row
of its transaction (`WithRow`).

### WebhookDispatch

The four module variables have their names. `call` follows `dispatchWebhooks`
and `sendTestPing`, `step` one job through `deliver` and, if it failed,
`notifyWebhookFailure`; `phase` follows the shutdown. `ProcessDeliveryQueue` is
the whole loop of the source, waiters included. The content of a delivery is
abstracted to whether it succeeded.

### SlugRegistry

Every database statement of a request is an action (`ReadCurrent`, `ReadTaken`,
`CheckHold`, `UpdateClaim`, ...), so that other requests, the pruner and the
indexer run in between, which is how they run in the code; only
`deleteCreator` is a transaction, `CommitDelete`. `ON DELETE SET NULL` and the
refusals of foreign keys and unique constraints are part of the statements
that meet them. The placeholder of a creator carries the creator's own name.
Requests of one creator overlap freely. `slugsOf`, `jarsOf` and `creditedTo` only
record history for the properties; so do `rivals`, the claims under way when a
creator's first went through, and `overtaken`, which counts the writes over a
slug that the request had not read.

### ContactEmail and TipEmail

One creator, since every query names or is grouped by one. `ContactEmail` holds
the columns `email`, `emailVerifiedAt` (as `verified`) and `emailEnabled`;
`update` follows a PATCH /me from the read of the address over the write to the
link. `TipEmail` adds a clock in hours, the rows (`created` is the hour of
`createdAt`, `sent` is `sentAt # null`), `note`, the place of
`sendTipNotification`, and the digest: `pending` are the rows of its scan whose
group is still to come, `group` the one in hand, `mailing` the await it is at.
The indexer awaits `sendTipNotification`, so there is one at a time; the digest
runs on its own timer beside it. `mailedIn`, `digested` and `reached` record for
the properties what was mailed, when and where. A call may fail before or after
it took effect (`NotificationFails`, `DigestFails`), and a crash may come
between any two awaits; each counts as a fault.

Two auxiliary variables say where the code falls short of its documents
(section 5). `overtaken` are the updates of the address that read it before
another's write and write after it: `updateProfile` compares with an address
that has changed since and keeps the mark of another one. `late` are the tips
whose row became visible while the digest had their hour in hand: a row carries
the time of its insert and is there when that commits, in the same hour or a
later one, and the digest marks the whole hour.

### WebhookRegistry

The rows of one creator, since every query names it. A secret is who minted it
and whether it is sealed, that is, has the prefix of an encrypted value.
`process` follows each process from `migrateWebhookSecrets` to `server.listen`;
`legacyRows` are the rows it read and has still to update. `createWebhook` is
two steps, `CountWebhooks` and `InsertWebhook`: the transaction around them runs
at READ COMMITTED, where it does not exclude another. `overlap` records the most
registrations that were between the two at once. A delivery is its dispatch,
which reads the webhook and its secret, and its end, which writes the row of the
attempt; what lies between is `WebhookDispatch`. `minted` and `refused` record
for the properties which secret was shown last and which deletion was answered
by an error. A registration carries a secret of its own making, so it is named
after the webhook.

### RetentionPruner

A row is inside its window (`fresh`) or past it (`old`), and a row of the pass
in hand if it was past it at the cutoff (`due`). `stage` is the kind in hand and
follows `pruneRetainedRows` in order; `budget` holds the two counters, `ids` the
batch between `findMany` and `deleteMany`. Rows arrive and expire between any
two statements. There is one pruner: two processes that overlap delete the same
rows by id, which is harmless, and are left out.

### Session

One wallet: the keys of two wallets in Redis never meet, and what other wallets
do to the temporary slugs is a collision. `challenge` follows
`generateChallenge`, which fixes the expiry of the message before it stores the
nonce; `nonce` and `revoked` are the two kinds of keys in Redis with the end of
their TTL. A POST /verify goes

    idle --ConsumeNonce--> checking --CheckProof--> proven | refused
    proven --FindCreator--> signing | creating
    creating --CreateCreator--> signing, --SlugCollides--> creating | exhausted,
             --WalletConflicts--> refetching --RefetchCreator--> signing | creating
    signing --SignToken--> signedIn

`attempt` is the counter of the loop. Requests may carry the same challenge, and
one that is not theirs to sign; a message that `generateChallenge` did not write
is not modelled. Ids of accounts are never used twice (`created`). A deletion
is admitted by a token, commits, and sets the marker, or loses it
(`RevocationLost`). `late` records that a token was signed after the marker of
its account was set: `verifyChallenge` reads the creator before it signs.

### TipFeed

A row is its unique key, with the ledger time it has in the list; it enters the
list at any time and place, since a claim attaches old tips. A cursor is the key
of the row it encodes: encoding and decoding are inverse, and what the server
did not issue is refused. A client (`walk`) reads one list to its end, page by
page: the two feeds look into the cache, query and store (`LookUp`,
`QueryCached`, `StorePage`), the export and the notifications only query. `seen`,
`repeated` and `floor` record for the properties what it saw, whether it saw a
row twice, and the rows all of its pages could have known. The slug in the key of
a public page is fixed. Hidden messages are not modelled: the handler that hides
one cannot run at this commit, and the column `messageHidden`, which the queries
of the feeds select, is in the migrations (`20261021000000_message_hidden`) but
not in `prisma/schema.prisma` (section 5). The model takes the queries to be
answered, since which rows a page holds does not depend on that column.

### Dashboard

The queries of the dashboard keep no state, so they are operators over the rows
of `TipFeed`, in whatever order those arrived: `GetTotals`, `GetTimeSeries`,
`GetTopSupporters`, and `GetCollaboratorEarnings` with the splits that
`CreatorSplitsSchema` lets in. The ledger time of a row is its UTC day. A tie at
the limit of the supporters may fall either way. The whole of a tip is
`BpsTotal` parts, few for TLC and 10000 in the code; a share is rounded down as
the query does it, tip by tip. Each panel lies in the cache for 30 seconds on
its own, so two panels on one screen may be that far apart; that they fit
together (`DashboardAddsUp`) is said of panels read at one moment.

### PlaceholderPruner

`SlugRegistry` has what a batch does to jars and tips; this module has the rest
of `placeholder-retention.ts`. Creators are numbered in the order of their ids.
A slug is one of three forms, since the scan asks for a prefix and the filter for
the exact pattern. `stage` is the await of the pass, `cursor`, `ids`, `full` and
`batchesUsed` are the locals of `pruneBatch`, `due` what the cutoff admits. When
a batch has deleted the row the next page starts behind, the page finds the rows
behind it or none: that is for the database client to say, and `After` allows
both. A claim is its update and, after it, the release of the old slug, whose row
is what keeps the creator from then on; between the two the pruner may delete
the creator, and does (section 5). Retention is switched on.

Two things no property promises. A claimed slug may have the placeholder form
(`CREATOR_SLUG_REGEX` admits it): the caller's own, which changes nothing, or
another, which stays prunable once its release row names somebody else. And as
many near-misses as a pass may read, `BatchSize * MaxBatches`, keep every pass
from the rows behind them; `AbandonedGoes` asks for `Room`.

### ProfileCache

`version` counts the changes of a profile's columns, so an entry says of whom
and how old it is. A write is followed by the invalidations it owes
(`invalidations`), one after the other; a reader holds what it `found` until it
caches it. The hit path changes nothing. Names are free as soon as they are
left, since a hold may have lapsed. `excused` records for the properties which
names may be out of date, and why: an invalidation failed (`InvalidationFails`)
or was cut off (`RequestCutOff`), a reader cached what it had read before the
write, or a claim left a placeholder, whose entry nothing invalidates.

### Application

One life of the process. `app` is what the start or the shutdown awaits; the
indexer, the pruners and a request are kept as far as the shutdown depends on
them, the queue is `DeliveryDrain`. `Signal` is the stretch of `shutdown` before
its first await, with the calls it makes; `CloseServer` and `ServerClosed` are
`server.close()`, in which Fastify waits for the connections and then runs the
`onClose` hook: the drain, then both disconnects. `timer` are the ten seconds
after which the process exits whatever hangs. Three things the shutdown does not
wait for: a pass of a pruner that is in hand, a handler whose client has hung up,
and the deliveries of such a handler that begin after the drain.

## 3. Runs

| Run | Bounds | Shows |
|---|---|---|
| `MCIndexer` | 4 events in 3 transactions, 2 ledgers, limit 2, 1 fault | `CursorCovered`, `StoppedNeverSleeps`, that `Indexer` implements `TipLog`, `EveryTipStored`, `CursorFollowsHead` |
| `MCWebhookDispatch` | 2 tips, 1 ping, 2 webhooks, 2 slots | the limit, order, no loss, no doubling, no idle slot, the drain; every job settles, every drain ends; a notified burst grows no more |
| `MCWebhookRegistry` | 1 legacy webhook, 2 registrations, cap 2, 2 rotations, 2 processes, 1 tip | how far the cap is exceeded, rotations, readable secrets |
| `MCRetentionPruner` | 4 rows of any kind, batches of 2, budget 2, 1 fault | a pass is thorough, every old row goes |
| `MCTipEmail` | 2 tips, cap 1, 2 hours, 2 addresses, 2 updates that may overlap, 1 fault | marks, the cap, digests, proved addresses, every tip told of |
| `MCSlugRegistry` | 2 creators, 2 slugs, 1 tip, 2 requests of 2 creators or 3 of 1 (`ThirdRequestAlone`), which may overlap, 1 fault | credit of tips, repeated claims, releases |
| `MCSession` | 2 challenges, 2 verifications, 2 accounts, 1 collision, 3 attempts, a clock of 4 ticks, lifetimes of 2 | one sign-in per challenge, revocation, a token for every proof |
| `MCTipFeed` | 3 rows in 2 ledgers, pages of 1 row, 2 clients that share the cache; 2 supporters, 2 recipients, a whole of a few parts | exact paging; panels and breakdowns add up |
| `MCPlaceholderPruner` | 2 creators, pages of 1, 2 batches a pass, 2 faults | answered claims stay, abandoned placeholders go |
| `MCProfileCache` | 2 creators, 2 slugs, 1 reader, 3 writes, 1 fault | what may be stale, and that nothing stays so |
| `MCApplication` | 2 tips, 2 pings | what a clean exit waited for, the contract of the queue, the end after a signal |

`MCPlaceholderPruner` and `MCApplication` check their type invariants too; for
every module type correctness is a theorem (section 6). One more run, which finds
a property violated, is in section 5.

Why the bounds are enough: with 4 events and a limit of 2 a batch can be cut off
inside a ledger or a transaction, at its edge, or be one saturated ledger, and a
second batch follows; one transaction has two events; of two ledgers one may be
quiet, before or after the cursor. One fault is any one failed or half-applied
write, crash or stop; that no number of them breaks safety is what section 6
proves. Five jobs on two slots make jobs wait behind each other and finish in
any order. Two requests give every pairwise race of the statements of two
creators, beside the pruner and the indexer. Three requests of one creator give
two that overlap and one before, after or between them; names and their releases
relate two creators by nothing but refusals, so the third request is left to a
creator alone, which is what the constraint of that run says. For tip mail two
hours give one closed hour with the tips before, across and after its end, two
tips overrun a cap of one, and two updates change the address once or overlap.
Two processes and two rotations let one process rotate between the read and the
update of the other, more than once; three webhooks reach the cap and, after a
deletion, reach it again. Four rows and a budget of two batches of two use the
budget up exactly, end a kind with a full page, and leave failures to a pass of
their own. Two verifications race for one challenge or over two, one account can
go while they do, and a lifetime of two ticks ends before the clock does. Three
rows in pages of one give a page before, at and after a cursor, two of them in
one ledger, and two clients find each other's pages in the cache; the two feeds
take the same steps, so the run reads the public one. Two placeholders in pages
of one give a page before and behind a cursor, a near-miss in front of an
abandoned one and a budget used up; two faults let a claim be cut off and a
query fail. Three writes give a claim, a rename and the claim of the name that
was left, under one reader that may be late for each. Of two tips and two pings
one may be under way when the other begins or the signal comes. TLC reports
every action reached.

`CHECK_DEADLOCK FALSE` stands where a model's supply of requests or tips runs
out, or a drained process does nothing more. `Indexer` never deadlocks.

## 4. Fairness

`Indexer!Fairness`: weak fairness of the loop, because every await in it is a
timer, a database call or an RPC call that answers or fails (the body of
`getLatestLedger` is read without a timeout, `rpc.ts:44`; that it ends is an
assumption); weak fairness of a restart, because `docker-compose.yml` restarts
the container; strong fairness of `ReadHead`, because the idle check is due by
the clock once a minute and cannot be skipped for ever. Failures and crashes are
bounded by `MaxFaults` and are never fair. `CursorFollowsHead` is stated for all
of them, with one exception: when the cursor write of a batch failed, the
position is ahead of the row, and until another ledger closes no poll writes it
again.

`WebhookDispatch!Fairness`: weak fairness of the steps of a dispatch and of a
job, because a POST ends by its abort timer and a database call by its answer.
The lookup of the address precedes the timer (`webhooks.service.ts:292`); that
it ends is the operating system's promise. Nothing is assumed of `Exit`, of new
tips or of the shutdown.

`TipEmail!Fairness`: weak fairness of the clock, of `sendTipNotification` and
of the digest, whose timer fires every minute and whose awaits end. Nothing is
assumed of the creator: `EveryTipMailed` makes an exception for mail that is
switched off at some time.

`RetentionPruner!RetentionFairness`: weak fairness of the pass, because its
timer fires and every query ends, and of a start, because a process that exits
is started again. `EveryOldRowPruned` speaks of a finite backlog; successes that
keep arriving faster than a pass deletes them keep the failures from their turn
for ever, since the two share a budget and successes come first.

`Session!Spec`: weak fairness of a verification that runs, because its queries
and Redis answer or fail (`Abort`). `SignInSucceeds` makes an exception for
failures, and the assumption bounds what others may take from the loop: fewer
collisions and deletions of the wallet's account than attempts, as five random
suffixes make likely and the code does not enforce.

`PlaceholderPruner!Fairness`: as for `RetentionPruner`.
`ProfileCache!ProfileFairness`: weak fairness of the invalidation, which Redis
answers or refuses, of a reader that is about to cache, and of the expiry of an
entry. `FreshAgain` speaks of the end of the writes, which the model bounds.

`Application!AppFairSpec`: weak fairness of the ten-second timer and of nothing
else. An iteration of the indexer, a request, a delivery or a disconnect may hang
for ever, as a body read from the RPC (`rpc.ts:44`) or the lookup of an address
(`webhooks.service.ts:292`) can.

`WebhookRegistry`, `SlugRegistry` and `TipFeed` have safety properties only and
assume no fairness.

## 5. Disagreements with the documents

`MCIndexerNewTip` is a listed run whose counterexample shows that `persistTip`
reports new rows as old (`persist.ts:58` against its line 23), so neither
webhooks nor mail are sent for them.

Four documents promise what requests that overlap can break. For each of them a
`.cfg` beside the models has the counterexample; a property of a passing run,
which section 6 proves, says how far the damage goes, without assuming the race
away.

| The document | What the code does | Counterexample | What holds |
|---|---|---|---|
| "each creator claims once" (`creator.service.ts:264`) | two overlapping claims both go through (`:261`) | `EachClaimsOnce`, `MCSlugClaimTwice.cfg` | `RepeatedClaimsOverlap`: as many as were under way when the first went through |
| "two concurrent registrations cannot both pass the check" (`README.md:490`) | READ COMMITTED lets both count (`webhooks.service.ts:646`) | `WebhooksCapped`, `MCWebhookCap.cfg` | `ExcessByOverlap`: fewer than the sum of the cap and the largest overlap |
| "`sentAt` is set only after Resend accepts the email" (`README.md:626`) | the digest marks every unsent row of its hour, also one that became visible after its scan (`email.service.ts:312`) | `SentMeansMailed`, `MCTipEmailLateRow.cfg` | `MarkedWereMailed`: no other row |
| "Set only after the creator proves control of the notification address" (`prisma/schema.prisma:35`) | an update keeps the mark if the address it read is the one it writes, whatever is stored by then (`creator.service.ts:531`) | `VerifiedIsProved`, `MCContactEmail.cfg` | `MailOnlyToProved`: mail goes to proved addresses and those of overtaken updates |

More follows from the models; a `.cfg` beside them shows it where one is named:
a successful poll counts as a failure, because `updateIndexerCursor` is not
imported (`indexer.ts:209` against its line 233, `MCIndexerPollStatus.cfg`); a
creator who has just claimed, but whose release row is not written yet, is
pruned as a placeholder (`placeholder-retention.ts:107` against its line 13,
`MCSlugPruned.cfg`); a webhook with a recorded attempt cannot be deleted, so a
creator at the cap stays there until retention has run its course
(`webhooks.service.ts:834` against `limit.test.ts:134`,
`MCWebhookDeletion.cfg`); the notifications are paged by offset, since the route
drops the cursor, so a client may see one twice (`notifications.routes.ts:69`
against `notifications.service.ts:5`, `MCNotificationPaging.cfg`); two
WEBHOOK_FAILED rows in one window (`webhook-failure.service.ts:71` against its
line 16, `MCWebhookFailureRows.cfg`); a tip that stays unattached after its jar
is claimed (`persist.ts:32` against its line 54, `MCSlugTipLeftOut.cfg`); a pass
that leaves failures for want of budget and does not report it
(`retention.ts:163` against its line 46, `MCRetentionTruncated.cfg`); a slug
released after the look at the hold is taken against it
(`creator.service.ts:249`, `MCSlugHoldGap.cfg`); a rename off the placeholder
blocks the claim for good (`:365`, `MCSlugRenameFirst.cfg`); the tips of a
deleted creator go to the next claimant of the slug (`:289`,
`MCSlugMisattributed.cfg`). A delivery queued before its webhook is disabled or
its secret rotated is still sent, with the old secret. Tip mail: an hour may see
one mail beyond the cap, of a tip recorded just before it (`CapRespected`,
against `email.service.ts:4`), and a tip whose own mail is under way as its hour
closes is told of again in the digest. Sessions: a sign-in that has read its
account when a deletion runs gets a token that may outlive the marker; tokens of
a pruned placeholder are not revoked at all; a marker lost to a failure of Redis
is never repeated, since a second DELETE finds no account.

Some of the code cannot run as it stands, and the models take it to be repaired
where they need it. `creator.routes.ts` calls `nullableText` and
`nullableHttpsUrl` (lines 51-53, while it loads) and `setTipMessageHidden` (line
267) and imports none of them: the module throws when it is loaded, and with it
`buildServer`, which imports it (`server.ts:109`), so no process serves.
`updateIndexerCursor` of the indexer is not imported either, which the model
keeps (`MetricsLinked`), since the loop catches the error. The feed queries
select `messageHidden` (`analytics.service.ts:287` and `:519`), and
`messages.service.ts:20-23` writes it, a column `schema.prisma` does not have;
reading is taken to work (section 2), hiding is not modelled.

## 6. Proofs

Assumptions: those on the constants, which every run evaluates.

`IndexerProofs`. `CursorCovered` is not inductive: a step of the cursor is safe
only because of what the batch in hand, the position and the head read earlier
are known to be. `IInv` says, for each await, what is known there: after the
fetch, the tips in the table together with those still to do cover the planned
cursor (`PlanInv`); the head read before the fetch is behind the chain
(`HeadInv`); the position has everything before it in the table
(`PositionInv`). The lemma `BatchCovers` is the heart: whichever batch a fetch
returns, storing what `PlanBatch` selects covers the cursor it plans, the
truncated, the short and the saturated batch being its three cases. From
`Inductive` follow `CursorNeverSkips`, `PositionNeverSkips`,
`StopFindsNoSleeper`, `IndexerTypeCorrect` and `IndexerImplementsTipLog`.

`WebhookDispatchProofs`. `QueueOK` speaks of the queue, the counter and the
steps as they are in the middle of an action: the queue has no repetition and
holds exactly the queued jobs, the counter is the cardinality of the jobs that
hold a slot, within the limit. Jobs that join keep it because a call that still
reads has no job yet (`QueueGrows`, from `CallInv`), a recorded delivery keeps
it as it gives its slot back (`SlotFreed`), and `processDeliveryQueue` takes any
queue with `QueueOK` to one where no slot idles (`Processed`). `CallInv` also
counts the open dispatches, so that a drain is idle exactly when none is left.
From `DispatchInductive` follow `LimitHolds`, `SlotsAreUsed`, `QueueIsExact`,
which together are `QueueIsSound`, `DrainIsExact` and, by what one pass does to
two queued jobs (`ProcessedInOrder`), `OrderKept`. `DispatchImplementsDrain`
maps every step to a step of `DeliveryDrain` or a stutter: the queue is idle
exactly when the mapped `busy` is empty, which is the counting of the two
invariants again, so a waiter is resolved with the step that ends the last of
the work and with no other. `BurstEnds` bounds the race of failing deliveries
(section 5): from the first notification in a window on, the rows and the writes
under way together never grow (`BurstStep`), so only failures that had looked
before it can add to it.

`SlugRegistryProofs`. `CreditMatchesJar` needs that a claim on its way to
attach tips held the jar (`RequestInv`) and that the owner the indexer has just
read did (`JarInv`). `RegistryInductive` gives `RegistryTypeCorrect` and
`CreditFollowsJar`; `CreditStays` and `DetachedByDeletion` are proved step by
step from the type invariant, and together are `CreditHolds`. `ClaimsOverlap`:
a claim that may still go through has read the placeholder, and from the moment
the first went through there is none to read, so those that may are among the
claims that were under way then (`OverlapInv`); `rivals` counts the ones that
went through and these together. `LeftSlugsOnRecord`: a step adds a name to the
lost ones only where it cuts a request short or takes a slug that was not read,
and each of those steps is counted (`faults`, `overtaken`); the release that is
on its way covers the name that was. Neither theorem has a hypothesis: requests
of one creator overlap in any way.

`TipEmailProofs`. `CapOverrunBounded` rests on two invariants. `LateInv` orders
the mails: when a tip is recorded, all mail so far was of an earlier window or
of that hour, so two tips cannot both be late for one window. `CapInv` accounts
for an hour's own mails: those that lost their mark are no more than the
failures (`Unmarked`), and the count sees all others (`CountSees`).
`OnlyLateMarkedUnmailed` needs that the hours a digest has in hand are complete
but for the `late` rows (`HoursComplete`); `DigestsDoNotRepeat` that the scanned
groups are disjoint and unsent; `ScansTakeUnmailed` that a tip mailed by itself
is marked or about to be, until something fails (`MarkInv`);
`OnlyProvedAddresses` that an open update has read the present address unless
another overtook it.

`WebhookRegistryProofs`. `DeliveriesCanSign` needs to know why a process that
serves leaves nothing to migrate: each process that migrates still has every
unsealed row before it, with the secret it holds now (`StartInv`), since no step
adds an unsealed row or changes the secret of one (`LegacyShrinks`).
`ExcessBounded` rests on one count: the webhooks there are and the registrations
that have counted stay together below the cap and the largest `overlap`, since
the first of a row found room and each that joins raises the overlap or the row
got shorter (`CapInv`).

The same module has `RetentionPruner`. `PassInv` says of every stage what the
kinds before it may have left; `NextStageFound`, that a kind the order of stages
passes over has no window or no budget; `Advance` joins the two. A short page is
all that is left of its kind (`BatchInv`). `ReportIsThorough` is `PassInv` at
the end.

`SessionProofs`. `ChallengeSignsInOnce` needs that of the verifications that
carry a challenge at most one ever read its nonce, and none did while Redis
still holds it (`NonceInv`); each token is of such a one (`TokenInv`).
`RevocationHolds` needs that a token lives at most a lifetime from now, so that
a marker set now outlasts all there are (`MarkerInv`). `LoopInv` keeps the
attempts in their range.

`TipFeedProofs`. A page is `Honest` about its cursor: of the rows the list had
when it was read it holds those after the cursor, up to the one it names next. A
row that arrives moves no other (`ArrivalKeeps`), so a page stays honest for
ever, in the cache too, and a client that turns honest pages stays `Sound`: what
it saw lies before its cursor, what it is owed after it (`TurnIsSound`). That a
page which is not full holds all there is, is a fact on cardinalities
(`ShortPageIsAll`).

`AggregatesAddUp`: what the panels of the dashboard and the breakdown of a jar
show agrees, for any set of tips, amounts, days, supporters and splits. It rests
on what a sum over a set is, which the community modules define by a recursive
function under a CHOOSE, so two things come first: that such a function exists
(`RecursionExists`, one element more at a time), and induction over finite sets.
The induction theorems of the library take an operator, which no prover here can
instantiate; `SubsetInduction` and `CountInduction` speak of the set of the cases
that hold instead, and find a least counterexample by well-foundedness. On them
stand the laws the panels need: one element less and more (`SumRemove`, `SumAdd`),
agreement, sums, multiples and bounds of the function, and a sum taken class by
class (`SumByClass`). `SeriesAddsUp` takes the days as classes, `TopSendsMost` and
`AllSendAll` the supporters; `EarnedBounds` and `SharesBounds` are the rounding of
a split: what is shown never exceeds what arrived and falls short of it by less
than a unit for each share of each tip.

`StaleIsExcused`: an entry of the profile cache that differs from the database has
its name on the list of a request, or one of the excuses. A write puts every
name it touches on its own list (`WriteCovers`), and a list gets shorter only as
its head is invalidated (`Remaining`, `TailHas`); that a lookup has one answer is
that nobody shares a slug (`LookupFinds`).

`ProcessProofs`. `ShutdownInv` says what a shutdown has behind it at each await,
`QueueInv` how far the queue is then; with the types they are inductive, and give
`ShutdownIsOrderly` (no clean exit cut off a dispatch or the delivery of a tip)
and, step by step, `ProcessDrains`: the process keeps to the contract of
`DeliveryDrain`, which `WebhookDispatch` is proved to implement. `ClaimsAreKept`
needs that a claim which has been answered is out of the placeholder form, and
its release on record if the batch in hand was scanned before (`KeptInv`); that
a page in the order of the ids has a first is `Least`.

Each invariant and each action property of a passing run, and each of the three
refinements, is a theorem. Only model-checked are the liveness properties, which
rest on fairness and on ENABLED: `EveryTipStored`, `CursorFollowsHead`,
`EverythingSettles`, `EveryTipMailed`, `EveryOldRowPruned`, `SignInSucceeds`,
`AbandonedGoes`, `FreshAgain` and `ShutdownEnds`. The
disagreements of section 5 are counterexamples and need no proof.

## 7. Not modelled, and the plan

The plan from here: hidden messages, once the handler and the column are in
place; a digest of two processes that overlap in a deployment; and, as lemmas,
the safety facts that the liveness properties rest on (what a pass has deleted
it does not find again, a poll that is repeated starts at the saved position). A
webhook with deliveries cannot be deleted (`webhooks.service.ts:834`); no
property is about it, since what the code does there is what one statement
refuses.

Left out: rendering, configuration, the documents of the API, the validation of
input, the cryptography of signatures and secrets, metrics and health reports,
which keep no state of their own; the durations of the indexer's backoff, which
is a sleep of any length; the rate limits of the routes, which a plug-in keeps.
`pruneUnownedTips` (`persist.ts`) is called by nothing.
