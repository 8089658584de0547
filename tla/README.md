# A verification project for news-fanout

TLA+ modules that model news-fanout - ingest, classification, digest push, the in-app feed
and search, the rate limiter and the life of the processes - with TLC runs that check them on small instances and
TLAPS proofs of the theorems that matter most.

    tlc -config MCClassification.cfg MCClassification
    tlapm ClassificationProofs.tla

## The system

One image runs four roles (`api`, `ingest`, `classifier`, `push`), each in any number of
replicas. They share PostgreSQL (all state that lasts) and Redis (the push markers), and
call three external services: the article providers, the topic classifier and the push
provider. Nothing else connects them: every interaction is a row, a lock or a marker.

| Component | Code | State it keeps | Operations |
|---|---|---|---|
| Ingest job | `workers.IngestJob` | `sources`, `articles`, `article_bodies` | claim due sources, fetch a page, store it with its classify jobs and the new cursor |
| Classifier workers | `workers.ClassifierWorker` | `classify_jobs`, `articles_by_topic`, a sequence, advisory locks | claim a batch, classify, publish to topics, complete, fail |
| Push coordinator | `workers.PushCoordinator` | `topic_digest_state`, `push_page_jobs` | list pending digests, deliver a cold one, enqueue pages for a hot one, advance |
| Push workers | `workers.PushWorker` | `push_page_jobs` | claim a page, deliver it, checkpoint, complete, fail |
| Delivery | `workers.DigestDispatcher`, `dedup.PushDedupStore` | Redis markers, `users.device_token` | load a batch, claim markers, send, release, prune |
| Feed | `api`, `repository.read_unread_feed`, `ack_feed` | `feed_offsets` | read, acknowledge |
| Users | `api` | `users`, `subscriptions` | touch, register a device, subscribe, unsubscribe |
| Search | `api.search` | - | page through topics |
| Rate limiter | `adapters.RateLimiter` | a token bucket | acquire |
| Start-up | `app`, `migrations`, `main` | the schema | migrate under a lock, start and cancel the loops |
| Statistics, health, configuration, logging | | - | read-only |

What flows: a provider's article becomes a row and a classify job in one transaction; a
classifier worker publishes it to topics; the feed reads the topics above the user's
watermarks; the coordinator turns what is new in a topic into a digest, which is delivered
at once or as page jobs.

### What is hard

The interesting behaviour is not in any one function but between them:

- **Order of publication.** `post_id`s are drawn from a sequence, and both the feed and the
  coordinator remember one number per topic. If a smaller number became visible after a
  larger one, its post would be lost for good.
- **Leases without owners.** Completing, failing and checkpointing a job do not ask who
  holds the lease. A worker that was too slow goes on beside the one that replaced it.
- **Markers before sends.** A user is marked as notified before the push is sent. Every way
  of not getting from one to the other (a crash, a cancellation, a rejected send, an
  ambiguous one, a late one) is a way to notify somebody never or twice.
- **Two transactions for one decision.** Dispatching a digest and recording it are separate.
- **Watermarks on the read path.** Clients acknowledge late, twice, and out of order.
- **Replicas.** Claiming sources and listing digests exclude nobody.
- **Paging over something that grows.** Search keeps nothing on the server: a number is all
  that connects one page to the next while posts appear above and, across topics, below it.
- **A lock held asleep.** The rate limiter sleeps with its lock in hand, between the claim of
  the markers and the send, and a shutdown has to get through all of it.
- **Starting together.** Replicas run the same schema script at the same time.

`PROJECT.json` lists the hazards line by line with the properties that cover each.

### What makes each component correct

- Ingest: the cursor passes nothing that is not stored and queued; everything offered is
  ingested.
- Classifier: every topic is an append-only log of distinct articles; an article carries one
  whole answer or nothing; publishing does not deadlock; every job settles.
- Delivery: nobody is pushed a digest twice, unless a send is ambiguous or a marker is lost,
  and then once per such failure; a page that is done has reached everybody in it; working
  devices are not pruned.
- Coordinator: nobody is passed over but users of pages that used up their attempts; no post is announced twice; pages partition the
  users; the digest state only grows; every post is announced.
- Feed: a watermark hides a post the user was not shown only if a page had no room for it, and
  never goes back.
- Search: whoever follows the cursors to the end is given everything that matched when they
  began, and nothing twice.
- Rate limiter: over any window the sends stay within the rate plus one bucket; every call
  returns.
- Start-up: replicas neither fail because of each other nor wait for ever; a shutdown ends,
  and no task outlives its connections.

## The modules

| Module | Models | Builds on |
|---|---|---|
| `JobTable` | a row of a job table under claim, complete, fail, time | |
| `TopicLog` | *abstract*: every topic is an append-only log of distinct articles | |
| `Classification` | classifier workers, implements `TopicLog` | `JobTable`, `TopicLog` |
| `Notification` | *abstract*: a notification is taken by one sender, who tells the user, gives it back or loses it | |
| `DeliverPage` | `deliver_page`, step by step, its failures, and the users around it; `ImplementsNotification` | `Notification` |
| `PushWorkers` | push workers and page jobs | `DeliverPage`, `JobTable` |
| `DigestCoordinator` | coordinators composed with push workers | `PushWorkers` |
| `Feed` | reading and acknowledging on top of the abstract log | `TopicLog` |
| `Ingest` | ingest jobs against providers | |
| `Search` | paging through `GET /v1/search`, beside the feed | `Feed` |
| `RateLimiter` | the token bucket, its lock and its sleeps | |
| `Service` | processes that migrate, serve, stop and die; the tasks of one of them share the limiter | `RateLimiter` |
| `JobTableProofs`, `DeliveryProofs` | lemmas about the rows of a job table, and about the steps of a delivery | `JobTable`, `DeliverPage` |
| `ClassificationProofs`, `PushWorkersProofs`, `DigestCoordinatorProofs`, `FeedProofs` (with `Search`), `IngestProofs`, `ServiceProofs` | theorems | the module of that name |
| `MC...` | instances for TLC | |

`Feed`, `Search` and `DigestCoordinator` see the topics only through the promise of `TopicLog`, which
`Classification` is proved to keep: this is how the parts are put together without
multiplying their states.

### How state and actions correspond to the code

- One action is what happens between two points where another process can get in: one SQL
  statement or transaction, one Redis command, one call of a provider. A transaction is
  one action unless it waits inside (publishing takes advisory locks one after another).
- A coroutine is a program counter (`pc`, `phase`) with the local variables that survive an
  `await` (`cursor`, `batch`, `task`, `held`, `seen`, `claimed`, `page`, `reply`). What the
  code reads once and uses later is copied when it is read: device tokens when the batch is
  loaded, `attempts` when the job is claimed, `page_id_from` when the source is claimed,
  watermarks when the feed is read.
- Instants are reduced to the comparisons the statements make: `leased` is
  `lease_until >= now()`, `due` is `run_after <= now()`, `recent` is
  `last_pushed_at > cutoff`. Time passes by actions of its own that change only these.
- A coordinator cycle goes through several topics one after the other. `DigestCoordinator`
  follows any one of them: what the others do to it is to take time while it is `listed`, and
  to end the cycle with an exception before its turn (`CycleRaises`).
- In `RateLimiter` a tick is the time that one token takes; `elapsed` is `now - _updated`,
  and the queue holds the calls in the order in which `asyncio.Lock` serves them. The window
  that `age` and `granted` measure may begin at any tick, so what is said of it is said of
  every window.
- A process of `Service` that finds the schema only checks it; one that does not find it
  creates it, and fails if another has committed it in the meantime (`Clash`), which is what
  `CREATE TABLE IF NOT EXISTS` does without a lock.
- `SKIP LOCKED`, `RETURNING` and `created_at` ties leave the order of jobs open, so a claim
  takes any claimable job; a claim of sources may pass over those that another replica is
  just storing a page of (`Locked`).
- Topics are the ranks of their ids, users the ranks of theirs (0 for `None`), a digest its
  `post_id_to`; articles, workers and clients are model values.
- `markers` are the Redis keys, one command of the pipeline at a time; `pushes`, `spans`,
  `shown` and `cut` (the unread posts that some page of the feed had no room for) are history
  and steer nothing.
- A *fault* is a member of `Faults` and costs one of `MaxFaults`: `crash` (death, or
  cancellation, which passes by every `except Exception`), `lapse` (a lease runs out under
  a worker that is still at work), `reject` and `ambiguous` (the send raises, having pushed
  to nobody or to some), `claim` and `release` (the Redis calls raise), `db` (a statement
  raises) and `forget` (Redis loses any of its markers: it restarts, or they expire). A lease that runs out after a crash is no
  fault. Runs choose the kinds they are about.
- Definitions named `Mut...` stand before the definition they vary; each is a plausible bug
  used to show that a property can fail. The specifications do not use them.

## The runs

All bounds are constants of the `.cfg` files. Deadlock is not checked where a system whose
jobs are settled and whose users stay quiet really has nothing to do.

| Run | Instance | What it shows |
|---|---|---|
| `classification` | 2 workers, 2 articles, 3 topics of which two share a hash, batches of 2, 3 faults, 2 attempts | `TypeOK`, `LogInv`, `NoWaitCycle`, `OneAnswer`; topics implement `TopicLog`; every job settles, deadlocks notwithstanding |
| `push_faults` | 2 workers, 2 users, a digest dispatched to two pages and again to one, batches of 1, one fault of any kind | types, `RepeatsPaid`, `PruneSparesLive`, `EveryPageSettles` |
| `push_lapse` | 2 workers on one page of 2 batches and 2 attempts, 2 lapses or failing statements | `MarkersGuard`, `DoneMeansNotified`, `EveryoneNotified`, `EveryPageSettles` |
| `push_crash`, `push_zombie` | one page | **violations** of these two, see below |
| `coordinator_retry` | 1 coordinator, 1 worker, 2 posts, 2 attempts, a user who comes and goes (so the topic is hot or cold), 2 rejected sends or lapses | `NobodyPassedOver`, `OncePerPost`, `PagesPartition`, `EveryPostAnnounced` |
| `coordinator_replicas` | 2 coordinators, 3 users, cold digests in batches of 2, a fault of any kind that the markers are meant to survive | `AtMostOnce`, `ImplementsNotification`, `DigestStateMonotone` |
| `coordinator_crash` | 1 coordinator, a crash | **violation** of `NoPostTwice` |
| `feed_search` | 2 feed clients and a search, 2 topics, 3 posts; feed pages of two, search pages of one or two | `OnlyCutHidden`, `NeverRewinds`; `NothingMissed`, `NothingRepeated` and their invariant `CursorSplits` |
| `feed_paged` | 2 posts, pages of one | **violation** of `NothingHidden` |
| `ingest` | 2 replicas, 2 sources of 3 articles, pages of 2, 1 fault | `NothingSkipped`, `CursorMonotone`, `EverythingIngested` |
| `service` | a serving process with 2 tasks beside a `migrate` command; a bucket of 2, calls for up to 3, windows of up to 3 ticks | `RateInv`, `SleepSuffices`, `CallsReturn`; `NoStartFails`, `StartsServe`; `ShutdownEnds` |

Why these bounds are enough to be interesting: two workers are what it takes to race, and a
third adds nothing to a property about pairs; two articles share one topic and differ in
another, which is what lock order and partial publication are about; three users are a full
batch and a short one; two posts are what it takes for two digests to overlap. Two faults
allow a lapse followed by a failure of the worker that lost its lease; against two attempts
they also reach a page that is given up (`push_lapse`, `coordinator_retry`), and one that is
done and then requeued by the worker that came late (`push_lapse`). A digest dispatched
twice gives workers the same users without any fault. A call for more tokens
than a second yields is what the capacity of the limiter is raised for, and a third post lets
one appear below the cursor of a search that has had its first page. For the type and
safety properties with theorems the bounds do not matter any more.

Symmetry (of workers, coordinators, clients or articles) is used only in runs without
liveness properties.

### Fairness

Weak fairness is given to the steps of workers, coordinators and pollers, because
`run_loop` never ends and survives every exception, and to the passage of time (leases
lapse, back-offs and intervals end). In `Service` the limiter's steps and the ticks are fair
too, tasks that are cancelled get their `CancelledError`, and taking the advisory lock is
strongly fair, because PostgreSQL queues those who wait for it and the lock is free only now
and then. Nothing else is fair: users, posts, providers and
faults may do as they please, so no property leans on somebody reading, subscribing or
failing. Faults are bounded, which stands for "faults stop eventually"; with unbounded
crashes no job would ever settle, as the claim does not look at `max_attempts`.

### Where the code departs from what it says

- **`push_crash`**: a worker that dies between claiming markers and sending loses its users:
  the retry takes them for notified.
- **`push_zombie`**: if a worker outlives its lease and its send is then rejected, the other
  worker has already checkpointed past its users.
- **`coordinator_crash`**: a crash between dispatching and recording a digest announces posts
  again under another marker, because markers are per digest and not per post.
- **`feed_paged`**: with more unread posts than a page holds, acknowledging the page hides the
  older ones.

Three more departures have no run of their own, because the properties they concern are
checked under the assumption that excludes them, or hold:

- `AtMostOnce` needs sends that do not raise after the provider has accepted them, as the
  markers are released and the send is repeated; and a Redis that keeps its markers. What
  holds without them is `RepeatsPaid`.
- The docstring of `migrations.py` (line 5) speaks of a session-level lock; the code takes a
  transaction-level one. The code is right: a session-level lock would live as long as the
  pooled connection and keep every later replica waiting (the mutant of `StartsServe`).
- `OneAnswer` needs a classifier that repeats itself. A job that is processed twice with
  different answers leaves the union of both (`repository.py` 178-202 only adds rows).

## What is proved

For every value of the constants that satisfies the modules' named assumptions:

| Theorem | Statement |
|---|---|
| `ClassificationProofs!TypeCorrect` | `Spec => []TypeOK` |
| `ClassificationProofs!LogInvariant` | `Spec => []LogInv` |
| `ClassificationProofs!TopicLogImplemented` | `Spec => ImplementsTopicLog` |
| `ClassificationProofs!LockOrderPreventsDeadlock` | `Spec => []NoWaitCycle` |
| `ClassificationProofs!AnswersWhole` | if the classifier repeats itself (`Repeats`), `Spec => []OneAnswer` |
| `PushWorkersProofs!PushTypeCorrect` | `Spec => []TypeOK` |
| `PushWorkersProofs!OncePerUser` | without ambiguous sends and lost markers, `Spec => []AtMostOnce` |
| `PushWorkersProofs!ClaimsGuarded` | on the same terms, `Spec => []MarkersGuard` |
| `PushWorkersProofs!NotificationImplemented` | on the same terms, `Spec => ImplementsNotification` |
| `PushWorkersProofs!RepeatsArePaid` | `Spec => []RepeatsPaid` |
| `PushWorkersProofs!GivenUpLate` | a page is given up after `MaxAttempts` attempts and as many faults, not before |
| `PushWorkersProofs!LiveTokensSpared` | `Spec => PruneSparesLive` |
| `PushWorkersProofs!DoneIsNotified` | without crashes and without sends and claims that raise (`Reliable`), `Spec => []DoneMeansNotified` |
| `DigestCoordinatorProofs!PipelineTypeCorrect` | `PipelineSpec => []PipelineTypeOK` |
| `DigestCoordinatorProofs!DigestStateForward` | `PipelineSpec => DigestStateMonotone` |
| `DigestCoordinatorProofs!PagesCoverAll` | `PipelineSpec => PagesPartition` |
| `DigestCoordinatorProofs!PipelineOncePerUser` | without ambiguous sends and lost markers (`Dependable`), `PipelineSpec => []AtMostOnce` |
| `DigestCoordinatorProofs!PipelineRepeatsPaid` | `PipelineSpec => []RepeatsPaid` |
| `DigestCoordinatorProofs!PipelineImplementsNotification` | on the same terms, `PipelineSpec => ImplementsNotification` |
| `DigestCoordinatorProofs!NobodyIsPassedOver` | if `Reliable`, `PipelineSpec => []NobodyPassedOver` |
| `DigestCoordinatorProofs!EnqueuedIsNotified` | if `Reliable`, `PipelineSpec => []DoneMeansNotified` |
| `DigestCoordinatorProofs!EachPostOnce` | with one coordinator, `PipelineSpec => []OncePerPost` |
| `FeedProofs!FeedTypeCorrect` | `Spec => []TypeOK` |
| `FeedProofs!RepliesHideOnlyCut` | `Spec => []FeedInv` |
| `FeedProofs!WatermarksHideOnlyCut` | `Spec => []OnlyCutHidden` |
| `FeedProofs!RoomyPagesHideNothing` | `Spec => [](cut = {} => NothingHidden)` |
| `FeedProofs!WatermarksNeverRewind` | `Spec => NeverRewinds` |
| `FeedProofs!SearchTypeCorrect` | `SearchSpec => []SearchTypeOK` |
| `FeedProofs!CursorsSplit` | `SearchSpec => []CursorSplits` |
| `FeedProofs!SearchMissesNothing` | `SearchSpec => []NothingMissed` |
| `FeedProofs!SearchRepeatsNothing` | `SearchSpec => []NothingRepeated` |
| `IngestProofs!IngestTypeCorrect` | `Spec => []TypeOK` |
| `IngestProofs!CursorSkipsNothing` | `Spec => []NothingSkipped` |
| `IngestProofs!CursorNeverBack` | `Spec => CursorMonotone` |
| `ServiceProofs!ServiceTypeCorrect` | `Spec => []TypeOK` |
| `ServiceProofs!RateNeverExceeded` | `Spec => []RateInv` |
| `ServiceProofs!SleepsOnce` | `Spec => []SleepSuffices` |
| `ServiceProofs!StartsApart` | `Spec => []NoStartFails` |

The arguments:

- **The append-only log.** That a post commits after all visible posts of its topic is not
  inductive: one has to know what open transactions hold. `LogInv` adds it: a row that a
  transaction has inserted is protected by the advisory lock of its topic
  (`ExclusiveLocks`), its number is ahead of all visible ones (`PendingFollows`), and the
  sequence is ahead of everything (`SequenceAhead`). Colliding hashes are covered: they
  only exclude more. A commit then maps to a `Publish` step of `TopicLog`, and every other
  step to a stutter.
- **No deadlock.** Suppose every member of a set of transactions waits for another of it, for
  the very topic the other has locked. Whoever waits for the least of these topics holds
  one of them, which by `LockOrder` is even less. So a circle needs two topics of one hash.
- **Whole answers.** `OneAnswer` speaks of articles between transactions; `AnswerInv` adds what
  an open one is about to do: what is visible of its article, what it has inserted and what
  it has left to do make up a whole answer (`Covered`). If another worker has published the
  article in the meantime, that is the same answer, because the classifier repeats itself
  (`Repeats`), and the union of an answer with a part of it is that answer. Without
  `Repeats` the claim is false (see above).
- **At most once.** `MarkersGuard` says what a marker means: a sender's claims are marked
  and not yet pushed (`ClaimsMarked`), no two senders hold the claim of one user
  (`ClaimsApart`), and whoever was pushed is marked (`PushesMarked`). A release keeps it
  because it only removes markers of claims that were not pushed; this is what an
  ambiguous send breaks and why the theorem excludes it.
- **Repeats are paid for.** Every push of a digest to a user uses up a claim of his marker, and a
  marker can be claimed again only after it was released or lost. `PairPaid` counts: pushes
  and claims in hand together are at most one more than the faults, and no more than the
  faults while the marker is free. A send that pushes and then releases, or a lost marker,
  is what makes the difference, and is a fault.
- **Notification implemented.** The fate of a notification is a function of three sets: what
  is told, what is in flight and what is marked (`Fates`, `FateIs`). `MarkersGuard` keeps the
  first two apart and inside the third. A command of the claim pipeline then adds one pair
  to the second and third set (`Take`), a release removes the claims of one sender from both
  (`GiveBack`; `ClaimsApart` is why nobody else's go with them), and a send, an error of Redis
  or a crash takes them out of flight, some of them told, the others lost (`Settle`).
- **Pages that are done.** That everybody behind a checkpoint was reached is not inductive. A
  worker moves the checkpoint past a batch of which it has claimed only a part, because the
  others were marked. So one has to know that every marker stands for a push or for a
  sender at work (`NoneLost`), and that a worker at work covers everything between
  the beginning of its page and its cursor (`Covers`), which is what it starts a retry with,
  and what its next checkpoint will say. Both make up `PushCovered`, from which a page that
  ends is covered whole, whoever else is working on it. Nobody who is handled stops being so
  (`HandledStay`), unless a sender dies with its claims, gives claims back after a batch was
  rejected, or never learns what it has claimed: `Reliable` excludes these
  and nothing else. Leases that lapse, statements that fail and a Redis that forgets are all
  allowed (a forgotten marker makes a user be told twice, not never).
- **Nobody passed over.** `PipelineCovered` puts the coordinators on top of `PushCovered`:
  whoever works on a digest listed it from a digest state that has not gone back since
  (`Working`), before it advances it has `Reached` everybody with the digest, by itself
  or by page jobs whose ranges cover all users, and every post the digest state has passed is
  announced by a digest that `Reached` everybody. An advance from `from` to `to` then adds the posts
  between them, and those up to `from` had theirs before. Cold digests are the delicate case:
  the list of subscribers is read batch by batch while users come and go, so the claim is
  about steady ones.
- **Given up late.** A page left to a job is provided for only until the job has failed for
  good. `AttemptsPaid` gives an account of the attempts: every claim after the first was
  made possible by a fault, since the job was requeued by a worker that raised or its lease ran
  out, so attempts and workers that have raised together are at most one more than the faults;
  no worker has seen more attempts than the row has (`seen`), also if it claimed the job
  long ago. A worker that gives the page up has seen `MaxAttempts` of them and has raised, so
  there were `MaxAttempts` faults. This is the other half of `NobodyPassedOver`.
- **Pages.** Every page begins behind the greatest end below its own, and the last is open, so
  each user lies in the page with the least end that is not below him. That the new jobs are
  new, and none is overwritten, is by their numbers (`FreshIds`): the id of a job holds the
  number of jobs before it.
- **The pipeline implements Notification.** Senders are workers and coordinators alike, so the
  lemmas of `DeliveryProofs` about a step of a delivery serve both. What remains is that a
  coordinator only begins or ends a delivery with empty hands.
- **Each post once.** As long as nothing fails, a digest that was listed is behind the digest
  state, or its coordinator is still at it, and each begins where those before it end
  (`Undisturbed`). Both need that nobody else lists meanwhile (`OneCoordinator`).
- **Nothing skipped.** `IngestInv` adds what the pages on their way are: pages of what the
  provider had offered at the time, from the cursor that was claimed (`PagesOffered`), which
  may be older than the present one by then. Storing a page makes the cursor the larger of itself
  and the end of the page, and what lies between is stored by the same transaction.
- **Nothing hidden but what was cut.** `FeedInv` extends the claim from stored watermarks to
  those that clients still hold (`RepliesCover`). What a read has covered and not shown was
  unread and did not fit (`cut`), or was covered before. A post that appears later has a
  larger number than any watermark of its topic, because a watermark is a visible post and
  the topic is a log. The size of a page does not enter; if no page has cut anything, nothing
  is hidden.
- **A search misses and repeats nothing.** `CursorSplits`: everything given lies at or above
  the cursor, and of what matched at the beginning everything at or above it was given. A
  page is the upper end of what lies below the cursor (`NewestIsUpper`), and a page that is
  not full is all of it (`ShortPageIsAll`). Posts that appear later change nothing, because
  the promise is only about the posts of the beginning.
- **The rate.** `RateHolds` is not inductive: the bucket may be full when a window begins.
  `Saved` says where its contents come from: what has been granted in the window and what is
  still in the bucket were in it at the beginning or have been earned since, up to the last
  refill.
- **No task outlives its connections.** A task that is cancelled in `acquire` leaves no call
  behind because it had only one (`OneCallEach`), and the queue without one of its calls is
  the same queue otherwise (`RemoveCall`, `CallRemoved`).
- **Starts apart.** If a process runs the script without having found a schema, then there
  is none yet and nobody else runs it (`OneStarts`).

What `DoneMeansNotified` says needs a word: a push worker may finish a page while another,
which lost its lease on it, is still about to send to users it has marked. The property
therefore asks that everybody behind a checkpoint or in a page that is done was pushed, or
is in the hands of a sender at work. A crash, or a late rejection, breaks even that.
`NobodyPassedOver` has the same clause for the same reason: of two coordinators that deliver
one digest, the first may be through with it, and advance, while the second is still about
to send to the users it marked.

No part of `Reliable` can be dropped. With two coordinators TLC finds `NobodyPassedOver` violated
under any one of its four faults alone: a crash loses the claims in hand; a claim that
raises halfway leaves markers nobody knows of; a rejected send gives its claims back when the
other coordinator has already passed these users and advances, and nothing is listed again;
an ambiguous send does the same to those it did not reach.

Assumptions used: `ClassificationAssumption`, `DeliverPageAssumption`,
`PushWorkersAssumption`, `CoordinatorAssumption`, `FeedAssumption`, `SearchAssumption`,
`IngestAssumption`, `RateLimiterAssumption` and `ServiceAssumption`, which TLC evaluates in
the runs, and the library's theorems about finite sets and well-founded relations.
`PushWorkersAssumption` has it that pages start without a checkpoint, as the column's default
does. The hypotheses of single theorems (`Dependable`, `Reliable`, `Repeats`, `OneCoordinator`)
are stated with them.

Only model-checked:

- liveness (`EveryJobSettles`, `EveryPageSettles`, `EveryoneNotified`, `EveryPostAnnounced`,
  `EverythingIngested`, `StartsServe`, `CallsReturn`, `ShutdownEnds`), which is beyond the
  prover;
- `NobodyPassedOver` where sends are rejected but a single coordinator and a single worker
  are at work (`coordinator_retry`): there it holds, because nobody passes a user whose
  claim is given back, but `Reliable` excludes it.

All other invariants and action properties of the passing runs are theorems.

## What is not modelled

- A topic that fails for ever: it starves the topics that a coordinator cycle lists behind it.
  Faults are bounded, so the runs see such a cycle end only a few times.
- A job that crashes its worker every time: it is retried for ever, as the claim does not look
  at `max_attempts`. Faults are bounded, so every crash of the runs is one of finitely many.
- More due sources than a cycle of the ingest job takes: the claim has a `LIMIT` and no
  `ORDER BY`, so nothing says which are left out. The default configuration takes ten and
  has two.
- Rates that are not whole numbers, and a limiter with a rate of zero, which lets everything
  pass; the limiter is one process's, so replicas add up, and a restart begins with a full
  bucket.
- Search cursors that no reply contained, and limits below one.
- Commits whose outcome is unknown to the client.
- Device tokens die before a run starts, not during it; two users never share one token.
- Validation of requests, statistics, health checks, configuration, logging, the stubs'
  synthetic data, deployment scripts.
- Watermarks that a client makes up; the server stores whatever it is sent.

## Plan

1. Done: all modules and theorems above.
2. Next to prove: `NobodyPassedOver` and `DoneMeansNotified` with rejected sends where no two
   senders work on one digest at a time, and `OncePerPost` for several coordinators whose
   cycles do not overlap; the invariants that the arguments for liveness rest on (a page at
   work has a worker or a lease that ends; a call in the queue has a task).
3. Perhaps: ambiguous commits, and sources beyond the limit of a cycle.
