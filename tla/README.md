# Verification of apivo

TLA+ modules, TLC runs and TLAPS proofs kept beside the Go code under `src/`.
Everything is translated from the source; `PROJECT.json` maps each definition to
the lines it stands for.

## 1. The system

Apivo is one Go binary (`cmd/apivo`), run on several instances over one Postgres
database. It serves a news site (ingestion, translation, editorial review,
publication) and a cashback programme: affiliate networks report purchases that
members made after clicking out, the reports become credits, credits become
withdrawals, and a double-entry ledger follows every step. The parts talk through
tables, row locks and an event outbox; three things live outside the database's
transactions: the ledger (posted to on a connection of its own, or over HTTP), the
payment rail and the networks. Most of what is hard here comes from that.

### Inventory

| Component | State it keeps | Operations | Talks to | What is hard | What makes it correct |
|---|---|---|---|---|---|
| Event outbox (`platform/events/outbox.go`) | `domain_event` | append in the caller's transaction, idempotency key | every producer | commit order differs from stream order | an event is in the table iff its transaction committed |
| Subscriber registry (`subscriber.go`, `deadletter.go`, `dispatcher.go`) | checkpoint, completion rows, dead letters | tick: redeliver, poll, drain, park, save; requeue | outbox, handlers, scheduler | late commits, id wrap-around, crashes between three writes, two workers at once | no skip, no repeat without a fault, lane order, everything delivered |
| Scheduler, advisory locks (`platform/scheduler`) | session locks, the connection pool | tick, try lock, run, time out, release | every job, every handler | a lock session that dies under its run, a pool that fills up | one instance runs a job, the pool is never wedged, jobs keep running |
| Ledger port and adapters (`cashback/wallet`, `postgres`, `memory`, `blnk`) | accounts, transfers, balances; on Blnk the id of a ledger | ensure account, post, balance, history | earnings, payout | two posts spend one balance, replays after lost answers, lock order; two processes create one ledger, transfers applied late | no overdraft, sum zero, a replay gets the first answer, one namespace |
| Network calls (`networks/ratelimiter.go`, `backoff.go`, the clients) | a token bucket, where each call is | wait, give up, attempt, classify, back off | the networks' APIs | callers that give up in the bucket's debt, durations that overflow, Retry-After against the budget | the declared rate and the caller's budget both hold |
| Network poller, evidence (`cashback/networks`) | account row with two cursors, the chain of reports | forward and trailing sweep, supersede, connect | the networks' APIs | half-open windows, lag and clock skew, a network that changes its mind mid-read | nothing passed is unread, what was re-read is final |
| Earnings (`cashback/earnings`) | entries, transitions, the unattributed queue | credit, confirm, reverse, hold, release, reject | evidence, ledger, reconciliation, payout | pages that are stale when used, a transfer that no rollback undoes, overlapping runs | one credit per purchase, no state without its transfer, what is taken back is undone |
| Payout (`cashback/payout`) | requests, payouts, destinations, the vault | request, approve, reject, submit, retry, abandon, settle, record by hand, store and verify a destination | earnings, ledger, rail, vault | lost rail answers, crashes between transfer and row, opposite lock orders | nothing is spent twice, the recorded outcome is the true one, money goes to a verified destination of its owner |
| Participation, closure (`cashback/wallet`) | participation rows | opt in, leave, close a deleted account | outbox, withdrawals | a handler of several transactions, delivered again and in parallel | each membership is announced in turn, each withdrawal in flight flagged once |
| Operations desk (`cashback/ops`) | reconciliation runs, differences, decisions | import, detect, resolve, dismiss, verify, list, export | earnings' confirmation gate | detection is a later transaction than the import, operators decide from old pages | differences add up, an operator is told what is on record |
| Click-out (`cashback/clickout`) | clicks | count, check, mint, record, redirect | catalogue, participation, attribution | count-then-insert, a redirect without a recorded click | every reference a network returns names one click |
| Catalogue (`cashback/catalogue`) | retailers, routes, rate bands | import, hand over, publish, list | adapters, click-out | routes that pause, leave and return in any order, half an answer | one live published route for each retailer that has any |
| Money (`platform/money`) | - | add, subtract, split, round | every amount | overflow at the width, rounding | exact or refused |
| Feed ingestion (`ingestion`) | sources, items | poll, fetch conditionally, record, save the outcome | publishers | an edition half stored, validators of it kept, a cycle whose lock died | validators vouch for no more than is stored |
| Translation (`translation`) | translations, the month's spend | page, claim, re-check, call, record, halt | the provider | stale pages, paid calls that fail, a month's end, deaths between paying and recording | every unit charged is accounted for, no pair is paid for twice |
| Editorial, identity, reader pages | articles, roles, sources | approve, publish, withdraw, demote, edit sources, list | readers | a role that changes under a decision, a source deleted under its items | decided by editors, traced to a source |
| Registration, HTTP, configuration | rows, sessions | single-statement handlers | all | little that Postgres does not serialise | - |

`PROJECT.json` lists every component with its status, and under `hazards` what is
hard to test, at the line where it bites.

## 2. Modules

| Module | Models | Uses |
|---|---|---|
| `EventStream` | `domain_event` as producers write it and `pollStream` reads it: stream order, transaction ids on a circle, the two settlement horizons | |
| `Registry` | one subscriber's tick, statement by statement, for any number of workers | extends `EventStream` |
| `Ledger` | the port's promise: `Post` as one step | |
| `PostgresLedger` | the Postgres adapter's `Post`: judging the key, claiming it, locking rows in id order, checking funds, committing, answering | extends `Ledger` and refines it |
| `BlnkLedger` | the Blnk adapter, one HTTP call a step, by several processes | instance of `Ledger`, refines it |
| `Scheduler` | job loops and request handlers of several instances over their pools and the advisory locks | |
| `Sweeps` | one publisher account: both sweeps, the cursors, the supersession chain, the connect command, a network that changes its mind | |
| `Crediting` | the lifecycle job's three passes, reviews, statements and differences | instance of `Ledger` |
| `Withdrawals` | a request from reservation to arrival | instance of `Ledger` |
| `Catalogue` | imports, the published slot, rate bands, the listing | |
| `ClickOut` | click-outs beside each other and beside imports | extends `Catalogue` |
| `Amounts` | checked integers, the split and its roundings, the share, a network's decimals | |
| `NetworkCalls` | calls that share a token bucket, retry and give up | extends `Amounts` |
| `Market` | the two sides above in one process | extends `ClickOut`, `NetworkCalls` |
| `Feeds` | pollers, publishers and the register of sources | |
| `Translations` | the pipeline and the month's ledger | extends `Feeds` |
| `Editorial` | decisions, roles and pages | extends `Translations` |
| `Members` | participation, closure, destinations, withdrawal requests | |
| `Desk` | statements, differences, decisions, lists, export | extends `Members` |
| `MC...` | constants for TLC | |
| `RegistryProofs`, `PostgresLedgerProofs`, `SweepsProofs`, `WithdrawalsProofs`, `SchedulerProofs`, `CreditingProofs` | theorems | extend the module they are about |
| `NewsroomProofs` | theorems about the chain of `Feeds`, `Translations` and `Editorial` | extends `Editorial` |
| `Sums` | lemmas about sums over finite sets | used by the proofs about `PostgresLedger`, `Withdrawals`, `Crediting`, `Scheduler` and the newsroom |

How they fit together. `Sweeps` produces the chain of reports that `Crediting`
takes as `Report` and `Desk` as `PollReport`; `Crediting` treats claiming a confirmed
credit and giving it back as one step each, and `Withdrawals` shows what they are
made of, starting from confirmed entries; both post through `Ledger`'s operators,
whose single step is what `PostgresLedger` is proved, and `BlnkLedger` checked, to
implement. `NetworkCalls` is what a read of `Sweeps` or an import of `Catalogue` is
made of. The job runs of `Sweeps`, `Crediting` and `Registry` may overlap, because
`Scheduler` shows that they do, when a lock session dies. `Feeds`, `Translations` and
`Editorial` are one chain, and so are `Members` and `Desk`: the later module adds the
actors that disturb the earlier one.

How state corresponds to the code. A variable is a table column or a local that
lives across a statement; `pc`, `st` or `desk` is the place in the function. One action is one
statement whose effect others can see, or one whole transaction where nothing in it
can be observed half done. A transaction's row locks are variables, held until it
ends. Transfers are posted by an action of their own, before the rows they are
about (`post`, then `MoveEntry`), and nothing undoes them. Amounts are small
numbers; names, references and payloads are model values. The larger modules start
from several beginnings with a budget for each kind of step (`Exercises` in the MC
modules): which actors are exercised together is a choice of the instance, not of
the module.

* `EventStream`: an event is a transaction with a start time, which is its place in
  the stream, a transaction id, given at the append, and an end. Start times may
  tie, commits come in any order. Ids run on a circle of 16 under the comparison
  rule of 32-bit ids and start two before the wrap.
* `Registry` is library code at this commit: `docs/architecture` notes that
  `cmd/apivo` registers no subscriber yet. `local` is what a pass remembers (blocked lanes, the polled rows,
  which are recorded, the contiguous position). Every statement that can fail may,
  at the cost of a fault. `Exclusive` says whether the advisory lock holds.
* `Withdrawals`: `under` is the set of entries whose reserving transition names the
  request's transfer; `rail` is the truth outside; a lost answer leaves `rail`
  taken or not, with the caller none the wiser.
* `Crediting`: an item is the credit, the tip of its purchase's chain and the state
  the page was read with, and is used as such, however stale. Declined stands for
  reversed too. A statement is what it pays for each purchase of its period; a
  purchase lies in one statement's period. The commission and the member's share
  of it are one number. Hold rules give either verdict.
* `BlnkLedger`: the server is external and modelled by what the adapter asks of it.
  It stamps and stores a ledger in one step; two creates may get one time, but one
  that follows an answered listing is later than all it listed. `OneNamespace` rests on
  that: were a ledger to appear with an earlier time than one a process has resolved,
  oldest-wins would part the two. Names of ledgers are not unique, a reference is held
  by one transaction, a refused one is free or kept, which the adapter cannot know, and
  the legs of a split are created together. A waiting call keeps two things apart, as
  `awaitApplied` does: the transaction whose id it will answer (`seen`) and the status
  it last read, which after the first look is that of whatever its key names.
* `Catalogue`: a retailer is its slug, a route its programme. An import's statements
  are operators over the rows its transaction sees, applied when it commits, and
  refused as the constraints would. Imports are serial under their job's lock, so
  their instants increase. Awin is asked for two memberships in two calls: a
  programme that moves between them is in neither answer, or in both. The column
  `can_attribute` is true by default and no Go code sets it, so it is left out of the
  predicates that read it (`import.sql:201`, migration 0035); an importer that learns it
  (`networks/unattributed.go:148-149`) would be a further reason for a route to step down.
* `ClickOut`: the instant of a request is read once; `clicked_at` is the database's
  `now()`, so a click may lie after the end of the band it was sold under.
* `NetworkCalls`: one token refills in `Spacing` ticks, timers fire on time, the
  clock is Go's monotonic one. A `Retry-After` binds the call it answered and no other.
* `Amounts`: integers are six bits and a sign, the scale of basis points is 6, which
  stands to that width as 10000 to 64 bits for every product the code takes.
* `Feeds`: an edition is a set of entries; a publisher answers "not modified" by the
  validators it is sent. Items are told apart by source and body. A `Retry-After` is
  lost in a crash, as in the code. A publisher's later edition has a later date
  (`StampsIncrease`). The id of a deleted row does not come back, so `moved` is the
  sources that were patched or deleted, and a new row takes an id outside it.
* `Translations`: an attempt at the provider is answered, refused or lost, at a price
  that is stated or not; what a dead process or session had paid is `lost`. A page is
  any listing in the order of the query (`Listings`), as a cycle of `Feeds` is.
* `Editorial`: the triggers of the migrations are part of the statements that fire
  them; `now()` is when a transaction began. Ids of articles are in the order of their
  commits. Approval names one place.
* `Members`, `Desk`: the handler's check of the account and the statement that acts
  are two steps, and so are the read of a destination (`payable`) and the insert of the
  request that names it, where the foreign key and the trigger of migration 0014 look
  again. An event's place in the stream is when its transaction began, not when it
  committed: `announced` keeps the events as committed, each with its place, and
  `AnnouncedInTurn` reads them by place. `late` marks a membership begun by a request let in before the
  account was deleted, `early` a withdrawal asked for before it.

## 3. Runs

All finish in under three minutes on two cores. Every property has a mutant in
`PROJECT.json`: a plausible slip in the code that TLC must catch.

| Run | Instance | Shows |
|---|---|---|
| `registry` | three events, two lanes, one unhandled type, one shared key, batches of two, one worker, two faults, ids that wrap | no skip, lane order, no repeat without a fault, no dropped letter; every event delivered and passed in the end |
| `ledger` | two callers, three accounts, three keys, four transfers (one of which mints money), one lost connection | the adapter implements the port, its check of funds included; nobody waits in a circle; truthful answers |
| `blnk` | two processes, three keys, four kinds of transfer, two ledgers of the name, perhaps with one time, one of another, one fault | one namespace, every applied transfer is a `Post`, no reference for money that did not move but for one whose refused key was used again, no gap in a history |
| `withdrawals_race` | one member, three earnings of two brands, two requests, two callers, one crash, one lost answer | nothing spent twice, the outcome recorded is the real one, the ledger keeps step, each request stands on its transfer |
| `scheduler` | two instances, one job, two handlers each, pools up to four, the ledger elsewhere, one dead session | overlap only after a lost session, no lock left in the pool, no wedged pool, the job keeps running |
| `sweeps` | three purchases around a window's end, two facts, eight instants, one failed poll, two runs of connect | nothing behind the forward cursor is missing, what is behind the trailing one is final, every purchase gets there |
| `crediting` | two purchases, one restated, a statement that pays one of them, one operator, one lost transaction | withdrawable money was approved and covered; no state without its transfer; the books agree unless a transaction was lost |
| `crediting_live` | two overlapping runs, one restated purchase that may lose its click | credited once, since both reports name one click; undone in the end when taken back |
| `crediting_unpaid` (violation) | one restated purchase, a statement that leaves it out | a credit is confirmed although no statement paid for it and nobody decided about it |
| `market` | two networks, four programmes (three of one name, one of none), four requests of two members and one device; three calls on a bucket of one token, three attempts each | a live published route for every retailer that has one; every redirect has its click; the click rule overshoots by the requests open at once and says exactly when it lifts; rate and budget hold; amounts are exact over the whole width |
| `newsroom` | two sources of two editions, two pollers, two translators, two months, two editors, two articles | validators vouch, the month's ledger is whole and its cap passed by the open calls at most, no pair paid twice, decided by editors, traced to a source |
| `desk` | two members on three devices, two operators, two processes that deliver a deletion, two statements, six reports | announced in turn in the order of the stream, deletions handled, paid where verified, differences add up, answers are the record, lists are whole |

Configurations beside the runs, for what is also worth checking by hand:

| Configuration | Checks |
|---|---|
| `Withdrawals_live.cfg` | `KnownOutcomeIsRecorded`: a payment the rail finished is recorded in the end, although retries deadlock with settlements |
| `Market_catalogue.cfg` | types, `PagesAreWhole`, `OnlyTheAbsentLeave` |
| `Newsroom_walks.cfg` | `WalksAreWhole` |
| `Registry_overtaken.cfg`, `Withdrawals_stranded.cfg`, `Scheduler_pool.cfg`, `Market_window.cfg`, `Desk_export.cfg`, `Blnk_reused.cfg` | counterexamples to what a text says, section 5 |

Why the bounds are enough to be interesting. Two of whoever races suffices to
disturb each other's read-then-write; three events give a head, a follower and a
stranger on another lane; three entries let a withdrawal take some and leave some;
a fault budget of one or two is one crash, and one crash in the repair of another.
Two reports to a purchase are all the sweeps can produce: each period is read
twice. A page of one row makes every list a walk of several pages. Two editions give
an item that stays and one that is new; costs of one and three straddle both caps.
The proofs lift the bounds for the properties they cover, all but the two reports to
a purchase, which the ledger's agreement with the credits rests on (section 4).

Deadlock checking is off in `Registry` (bounded events and clock: everything
delivered is the end), `Sweeps` (bounded clock), and `Market`, `Newsroom` and `Desk`
(budgets run out), on everywhere else.

### Fairness

* `Registry`: a worker's next step, because the job ticks for ever; the end of
  every transaction, because connections have time-outs; the clock; and an
  operator's requeue: a parked letter is delivered only if somebody asks for it, so
  delivery cannot be promised without. Faults are finite.
* `Scheduler`: pgxpool serves waiters in turn, so a waiter is served if connections
  keep coming back (strong fairness); runs carry a time-out; the loops tick. New
  requests are nobody's duty.
* `Withdrawals`: a call goes on; a row lock comes to whoever queues for it; the
  sweep asks about every payment again; Postgres ends a deadlock, and a retry is
  its victim at least sometimes. If the detector always shot the settlement, and
  somebody retried for ever at the right moments, nothing would be recorded.
* `Sweeps`: the jobs tick, a poll ends, time passes and the network reports within
  its lag. Switching an account on is not assumed: the property is about accounts
  that stay on.
* `Crediting`: the job runs again, its passes go on, an operator's request ends.
  Nothing is assumed of the network, of statements or of withdrawals.
* The other modules state safety only and assume no fairness.

## 4. Proofs

TLAPS proves, for every value of the constants under the assumptions the modules
name:

* `RegistryProofs` (assumptions `StreamAssumption`, `RegistryAssumption`): type
  correctness, `NoSkip`, `LetterOutlivesFailure`, `RecordedWasHandled`, with or
  without the advisory lock and for any number of workers, events and faults; and
  `LaneOrder`, with the lock.
  `NoSkip` is not inductive. The invariant says, beside the types, that every
  transaction started no later than now (`StartedByNow`), that the saved checkpoint
  is safe (`Safe(checkpoint)`: no transaction in flight can still put an event
  behind it, and each event behind it is accounted for), and of every worker
  (`WorkerInv`) that the position it has reached is safe too, that nothing is missing
  or can still appear between that position and a row it takes for settled, and that
  what it believes recorded is recorded. The horizon read
  before the poll is why a late commit cannot slip in: it bounds, from below, the
  start and the id of everything that was open.
  `LaneOrder` needs to know what a pass has seen, letter by letter (`LaneInv`): the
  lane of each dead letter is blocked, or the letter is still to be redelivered in this
  pass, or enough faults have happened to explain why not (`HeadsInv`); what a drain
  has left behind was handled, parked or lies in a blocked lane (`SeenInv`); and a
  repetition is paid for by a fault (`RepeatsInv`). Two workers at once may each handle
  an event, in any order, so nothing of this holds without the lock. The attempt to
  prove that nothing at all is overtaken failed for the reason
  that `Registry_overtaken.cfg` shows (section 5).
* `PostgresLedgerProofs` (`LedgerAssumption`, `PostgresAssumption`):
  `NeverOverdrawn`, `ZeroSum`, `ToldRefIsRecorded`, `FundsAnswerIsAboutFunds`, that
  posts never wait for each other in a circle (`NoWaitCycle`), and that the
  adapter implements the port (`Spec => LedgerSpec`): every commit maps to `Post`,
  everything else to a stutter. The invariant adds, for a caller between its claim
  and its commit, that it holds the key and the rows, that the funds it saw still
  stand, and that its transfer is valid (`CallerInv`). `NoWaitCycle` needs the other
  direction, who can be the holder of a key or a row (`WaitInv`): a caller past its
  claim, of a row its transfer draws, with a smaller id than every row it still lacks.
  Of all who wait for a row, take the one whose row has the greatest id: its holder
  wants a greater one, or none.
* `SweepsProofs` (`SweepsAssumption`, notably that validation and clock skew fit in
  the two lags): types, `NothingUnread` for clocks that agree, `RereadSettles` for
  any allowed skew, `TipIsLastRead`. The invariant ties the cursors to the horizon
  (`CursorInv`), says that a chain is empty ahead of the forward cursor and one row
  long ahead of the trailing one (`ChainInv`: no period is read a third time), that an
  open poll's window starts at its cursor
  (`PollInv`), and that what lies behind the trailing cursor is decided
  (`SettledInv`).
* `WithdrawalsProofs` (`WithdrawalAssumption`, `TransferAssumption`: no transfer is
  the value that stands for none): types, `SpentOnce`, `OutcomeIsTrue` and
  `BooksAgree`, for any number of members, entries, requests, callers, crashes and lost
  answers. `SafeInv` says who holds which row (`LocksHeld`), what each caller knows at
  its place in the code and may rely on until it commits (`CallersKnow`), how the rows
  of a request, its payout, the rail and the entries under it fit together
  (`RowsAgree`), and that requests which stand have no entry in common (`Apart`).
  `BooksInv` counts the money, as long as no call has died: a recorded transfer has a
  row or a caller to show for it, and a stage's balance is the sum of the entries it
  stands for, where an entry whose caller is between its transfer and its commit counts
  as moved.
* `SchedulerProofs` (`SchedulerAssumption`): types, `OneInstanceRuns`, and that a pool
  the capacity check admits is never wedged when the ledger is elsewhere
  (`PoolNotWedged` under `~LedgerOnPool`; with the ledger on the pool it is, see
  section 5). A run whose lock the database has given away is an orphan, and there
  are never more such jobs than sessions that died. What an actor has out follows
  from where it is (`ConnsMatch`): whoever holds a connection and waits for another is
  a job with one, and the check admits no pool that small.
* `CreditingProofs` (`CreditingAssumption`, `TransferAssumption`): types,
  `ConfirmedIsEarned`, `Backed` and `OneCreditPerPurchase`, for any number of
  purchases, reports, runs, operators and faults; and `BooksAgree`, for one run at a
  time and at most two reports of a purchase. There are three layers. `BaseInv` holds
  whether or not runs overlap: chains have no gaps, a credit rests on a stored report
  with a click and is undone only by an operator who found it held or by a later
  report that declines it, every actor between a transfer and its row has that very
  transfer under that very key in the ledger, an item's evidence does not go away
  while it waits on a page, and one click backs one credit, one in flight included.
  `LockInv` is what the scheduler's lock adds: one run works, on pages nobody else takes
  from, so no purchase on a page to be credited has a credit. `BooksInv` is about
  money, for as long as nothing was lost: a key in the ledger has a row to show for it
  or an actor that still carries it, so nothing is posted under an old key and silently
  not moved; and a stage's balance is what its credits are due plus what actors have
  moved ahead of their rows. Two reports are all that `SweepsProofs` lets a purchase
  have (`ChainInv`); with three the theorem is false, see section 5.
* `NewsroomProofs` (`StampsIncrease`, `FeedAssumption`, `CapsValid`,
  `TranslationAssumption`): `ValidatorsVouch`, `MonthIsWhole`, `PaidOnce`,
  `DecidedByEditors` and `ProvenanceIsWhole`, for any number of sources, pollers,
  translators, months, editors and articles, from one invariant in three layers, one to
  a module. `FeedInv`: items are numbered and their source is there (`ItemsKept`);
  validators are blank or name an edition that was served and whose usable entries are
  stored (`Vouched`), of a row and of every row a cycle has read; and what a cycle has
  fetched will be, once what is still `left` of it is (`VouchInv`). The property itself
  is about the edition served now and says nothing of one that a cycle fetched before
  the publisher moved on. `TranslationInv`: what a call knows of the pair it claimed
  and the month it is billed in, one translation to a pair (`PairsKept`), a price on
  the last attempt of a call only (`CostsBounded`), and the cap counted with room for
  each worker that has no call open (`CapKept`); the bound of `MonthIsWhole` alone is
  not inductive, since it forgets who has yet to begin. `EditorialInv`: what a request
  that has begun knows is older than it (`BegunKept`), and an open decision's editor
  holds the role, what it was made on still stands, and no two are open on one row
  (`DecisionsKept`). The attempt to prove `ValidatorsVouch` failed at first, on a source
  deleted under a cycle and created again under its id: no id comes back in the
  database, and the model now says so.
* `Sums` proves what those counts need (a sum over a finite set does not depend on the
  order, splits over disjoint sets and changes by as much as one of its terms does)
  from the definition of the community modules' fold, by looking at a smallest set for
  which a claim would fail. That takes the place of induction, whose theorems have an
  operator as a parameter and cannot be used.

The assumptions say that sets which are sums' or counts' domains are finite and that
values standing for "none" are none of the real ones; no instance of the code escapes
them. TLC evaluates them in every run.

Only model-checked: all liveness (fairness and ENABLED are outside the prover's
reach), `WalksAreWhole` of `Editorial`, and everything about
`BlnkLedger`, `Catalogue`, `ClickOut`, `NetworkCalls`, `Members` and `Desk`. Of these
the folds of an import and what `Amounts` computes over the whole width would need
induction over data. `WalksAreWhole` of `Editorial` is about pages in sorted order, by
the community modules' sort, which has no facts for the prover to work with.

## 5. Where code and text disagree

One disagreement is a run, with a finding in `PROJECT.json`: `crediting_unpaid`. Six
have a configuration that shows the behaviour; the others were met while modelling or
proving.

With a configuration:

* `Registry_overtaken.cfg`, `ParkedHeadFirst`. `events/subscriber.go:308` says a held
  event can never overtake its lane's parked head. With three events of one lane, a
  pass that redelivers an older letter of a lane lets go of the lane (`:354`),
  although a later letter of it is parked; with three faults an event behind that one
  is handled before it. `tick` also drains the stream when reading the requeued
  letters failed, with their lanes not blocked (`:331`), for which two faults are
  enough. `LaneOrder` excepts exactly these (`Overtaken`), and is proved to hold
  otherwise.
* `Withdrawals_stranded.cfg`, `RetryMovesNothing`. `payout/withdrawal.go:255` draws a
  new id in every call and the transfer's key is derived from it, so a request that
  dies after its transfer and is made again reserves the money a second time.
  `earnings/reserve.go:225-227` says a retry "re-posts to the same reference rather
  than moving the money again".
* `Scheduler_pool.cfg`, `PoolNotWedged`. `advisorylock.go:124` budgets two connections
  per job and two for everything else. With the Postgres ledger a handler's
  transaction needs a second connection of the same pool, and an admitted pool fills
  up with handlers that all wait for one more. `docs/ENVIRONMENTS.md:329-331` says the
  api refuses to start "rather than deadlocking its request handlers against its jobs
  under load".
* `Market_window.cfg`, `GrantsPerWindow`. `networks/ratelimiter.go:141-143` says a
  burst is the only thing that lets more than rate times window through. A caller that
  gives up in the middle of the queue hands its token to the level (`:348-361`) while
  those queued behind it keep the instants they were given, so a newcomer is let out
  at the same instant as one of them. For the same reason the level does not end
  "where it would have been had this caller never asked" (`:270-272`, `:345-347`).
  Over the time since the start the rate holds (`GrantsWithinRate`).
* `Desk_export.cfg`, `AdjacentExportsMissNone`. `ops/store/exports.sql.go:143-144` says
  two adjacent exports share no row and miss none. Rows are dated by `now()`, when
  their transaction began; one that began before a window's end and commits after the
  export is in neither.
* `Blnk_reused.cfg`, `ToldRefStands`. `wallet/blnk/blnk.go:1180-1181` says the reference
  returned is "Blnk's transaction id for the whole transfer, and it is readable the
  moment Post returns". The wait for a queued transaction asks for it by key and takes
  the status of what comes back (`:1644-1650`) without comparing it. If the transaction
  was refused meanwhile, and another caller posted the same key again and was applied,
  the first caller is answered the id of its refused transaction. That needs a server
  that frees a refused reference: Post's comment counts on it (`:1168-1171`, "leaves the
  key exactly as it found it"), as does `explainRefusal` ("the key is free"), while
  `explainCreateFailure` reports one that "will not free it". `ToldRefIsApplied` excepts
  exactly this (`Reused`), and holds otherwise.

Without one:

* `payout/queries/approval.sql:151` says locks are always taken request first;
  `settle.go:335` and `retry.go:277` lock the payout first. Postgres ends the
  deadlock; `Withdrawals_live.cfg` shows the work is done in the end.
* `payout/withdrawal.go:113` describes an awaiting request as holding a reservation;
  while a rejection is between its transfer and its commit (`reject.go:159`) it does
  not.
* `earnings/lifecycle.go:17` rests "read what is waiting, then act on each" on the
  scheduler's lock. The lock keeps other runs away and not withdrawals: a credit
  claimed after the page was read is reversed out of the confirmed stage, if other
  confirmed money of the member covers it. `BooksAgree` counts that as torn.
* The same lock is all that makes one purchase one credit. The schema allows one credit
  to a report and one to a click; two overlapping runs, of which the second read its
  page after the network restated the purchase under another click, credit it twice.
  Hence the condition in `OneCreditPerPurchase`.
* `earnings/queries/lifecycle.sql:62-72` does not ask whether an entry awaiting
  confirmation was reversed. After a third report of a purchase (pending, declined,
  confirmed) a credit that was undone while pending would be confirmed, out of other
  pending money of the member, although `0013_cashback_earnings.up.sql:130` says that "a
  paid or reversed entry never becomes payable again". The sweeps read no period a third time, so today there is no third
  report; `BooksAgree` is proved for two.
* `earnings/statemachine.go:145` calls the window between a posting and its row
  survivable. For a confirmation it is while the network stays with its word; if it
  declines meanwhile, the reversal looks for the money in the pending stage, where
  it no longer is. `TakenBackIsUndone` is checked without faults.
* `earnings/open.go:195`: the opening key contains the state, so a report whose
  credit was lost after its transfer and that is judged differently the next time is
  posted again under another key.
* `earnings/lifecycle.go:62` says that what a run does not reach, the next one reads
  first. The page is ordered by age, so entries that stay unreconciled keep the head
  of the page, and with 500 of them nothing behind is read.
* `catalogue/events.go:31-33` says an event announces a retailer "that had none
  regaining one". A route that becomes preferred in the very upsert that revives it
  is not announced (`import.go:320-346`): `SlotIsAnnounced` states the promise and
  fails.
* `clickout/clickout.go:165-168` judges a request at one moment, and the row is dated
  by the database at another.
* `editorial/sources.go:207-268`: a source whose location is patched keeps the
  validators of the old one. `ValidatorsVouch` leaves such sources out.
* `ingestion/poll.go:120-124` rests on one poller at a time; a cycle goes on when its
  lock's session dies.
* `translation/pipeline.go:17-23` says two replicas never pay a provider twice for the
  same pair. That holds while the claim's session lives (`PaidOnce`); a shutdown in
  the middle of a call loses what it spent. Items that always fail keep the head of
  the page before older ones.
* A member's request to join that was let in before the account's deletion may commit
  after the closure and leave a deleted member taking part; a withdrawal recorded
  after the deletion is not flagged. `DeletionIsHandled` excepts both, by `late` and
  `early`. Nothing in the repository publishes `identity.account.deleted` yet.
* A leave whose transaction began before a concurrent re-join is refused by
  `participation_left_after_opt_in`, and a withdrawal of an article begun before its
  publication by `article_withdrawal_follows_publication`.
* A re-join whose transaction began before a concurrent leave, and ran after it, stands
  before that leave in the stream (`occurred_at` is `now()`, `events/outbox.go:29-35`), so
  the stream ends with `ended` while the row is active. Migration 0018 calls per-subject
  order the only order the stream guarantees; it is the order of beginnings, not of what
  happened to the row. `AnnouncedInTurn` allows two memberships open at a place only
  there (`Overtaken`), and holds otherwise: no departure before its joining, and a count
  that agrees with the row. The consumer contract promises no more, since it orders one
  type of one subject.
* A `paid_not_reported` difference stays open after its report arrives.

## 6. What is not modelled, and the plan

Left out on purpose: rendering, configuration, telemetry, deployment, the web front
end (no state that outlives a call, or another program), HTTP decoding, and generated
code beyond the statements that decide. In modelled parts: `EnsureAccount` and
`Balance` of the Postgres adapter (idempotent or reads); the totals of a wallet, four
reads that may disagree; the zero-sum audit, a read; most announcements appended with
a change (they commit with it; the outbox is `EventStream`); the canary; the hold
rules' verdicts; the 500-row page; two operators publishing a band at once; skew between
the clocks of two importing instances; collisions of `hashtext` between claims; and the
in-process dispatcher, which nothing uses.

What is left to prove, most important first:

1. `OneNamespace` of `BlnkLedger`: it rests on a claim and a re-read under it.
2. `GrantsWithinRate` of `NetworkCalls`.
3. `AnswersAreTheRecord` of `Desk` and `DeletionIsHandled` of `Members`.
