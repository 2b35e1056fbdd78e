# KapuLetu treasury backend: specification

TLA+ modules, TLC runs and TLAPS proofs for the KapuLetu backend (`src/`). Chama
treasurers forward M-Pesa messages to a WhatsApp number; the backend parses them into
an inbox, the treasurer approves, splits or rejects each one, and approved payments
become sealed entries of a ledger. Subscriptions, quotas and an administration surround
that core.

Line references are to files under `src/`. Where this text says `service.py` alone it
means `services/approval/service.py`.

## 1. The system

The backend is one FastAPI application, run by uvicorn in Docker or by Mangum on AWS
Lambda (`main.py`, `serverless.yml`). Lambda also takes SQS events (WhatsApp messages)
and scheduled tasks (the daily expiry sweep). Every request has a SQLAlchemy session of
its own on PostgreSQL 15 at READ COMMITTED. Handlers are `async def` with synchronous
bodies, so one process serves one handler at a time; **concurrency is between
processes** (Lambda instances, uvicorn workers, the SQS consumer, the sweep), and the
only things those share are the database tables, the payment providers and WhatsApp.

| component | state | operations | met by |
|---|---|---|---|
| Approval workflow (`services/approval`) | `pending_transactions`, `transactions` | approve, split, edit, reject, undo, bulk approve, clear history, PATCH, re-parse, notes | treasurer's requests, WhatsApp menu |
| Ledger (`services/finance/ledger_service.py`) | `transactions.ledger_hash` | seal, verify, query | approval, manual entry, reports |
| Ingestion (`services/ingestion/service.py`) | `pending_transactions` | check for duplicates, insert | gateway, API |
| Manual entry (`ingestion/manual_handler.py`) | `transactions` | check, insert, seal, commit | treasurer |
| Training hooks (`ingestion/active_learner.py`, `admin/ai_governance_service.py`) | training samples | log, **commit or roll back the caller's session** | approval |
| WhatsApp gateway (`ingestion/handler.py`) | blocked phones, waitlist, negative phone cache per process | block, unblock after 24 h, menus, approve by reply | Meta webhook, SQS (redelivers) |
| Subscriptions (`finance/checkout_router.py`, `fulfillment.py`, `subscriptions/expiry_worker.py`) | subscription, payments | checkout, webhook, polling, fulfilment, trial, override, refund, cancel, daily sweep | providers, treasurer, admin, scheduler |
| Plan guards (`finance/guards.py`) | counts of other tables | check a limit before an insert | all creating routes |
| Accounts (`services/auth`, `admin/user_service.py`) | users, one-time codes, token blacklist | register, send and verify codes, log in with and without a second factor, refresh, log out, change number, delete | everybody, admin |
| Groups, campaigns (`services/groups`, `services/campaigns`) | groups, campaigns | create under quota, archive, delete, settings, currency, PIN, goal notification | treasurer, menus |
| Settings (`services/settings`) | JSON documents of users, groups, campaigns | read, merge, write | treasurer |
| Broadcasts (`admin/crm_service.py`, `notifications/admin_dispatcher.py`, `tasks.py`) | broadcasts, communication log, a thread pool | dispatch, send with three attempts | admin |
| Reporting (`services/reporting`, `workspace`, listings of `campaigns`, `approval`) | none of its own | sum, count, list, page, export | treasurer, public |
| Administration, audit, configuration cache, parser, members, support, feedback | their own rows | single-row updates, read-only queries | admins, treasurers |

### How they interact

A message passes the gateway (is the number blocked, is it a registered treasurer),
the parser (a function of the text), and ingestion, which checks that neither the inbox
nor the ledger has its code and inserts an inbox row. Approval reads that row under a
lock and writes the ledger; inside its database transaction it calls the training
hooks, which commit the *same* session. Every ledger entry is sealed with a hash over
its key, code, amount and status, which an audit recomputes. Payments of subscriptions reach
the program twice: as the provider's webhook and as the answer to the browser's polling;
both call the same fulfilment.

### What is hard, and what makes each part correct

* **Approval and ledger.** Requests of several devices, a bulk approval and the
  WhatsApp menu overlap. The code relies on `FOR UPDATE [NOWAIT]` on the inbox row and
  on the unique constraint on owner and code. The hooks' commit in the middle of an
  approval breaks the first: the lock is gone and the entry is visible before it is
  sealed. An edit steps around the second: it renames the old row and
  inserts a new one with the old code. Correct means that a payment is counted once, that
  a split is recorded in all its parts, that a seal is still over the entry it was made for, that no edit loses an entry, that
  undo removes what it undoes, that requests do not wait for each other for ever,
  and that what is approved leaves the inbox.
* **Subscriptions.** Two independent notifications of one payment, a provider asked
  before the payment is saved, a sweep that reads, sends mail for minutes and then
  writes, and administrators who write the same rows. Correct means that a payment extends
  the subscription exactly once, that nothing is granted without one, and that what was
  bought is not taken away.
* **Gateway.** At-least-once delivery of menu actions with side effects, a stale
  negative cache in each process, a block counter read and written without a lock and
  also moved by batches of a treasurer that come to nothing. Correct means that a number is blocked only after the attempts, that a treasurer who is not counted out is served in the end, and
  that the daily limits bend no further than workers overlap.
* **Groups and campaigns.** Quota, slug and deletion are checked in one statement and acted on in another.
  Correct means that a limit is exceeded by no more than the overlapping requests, that slugs are unique and
  that nothing loses its group.
* **Settings and goal.** Documents are read, merged and written whole. Approvals commit first and add up afterwards.
  Correct means that what was acknowledged stays, and that a goal is not announced again and again.
* **Accounts.** A registration is a chain of commits that may break; a limit of 60 seconds on codes is checked
  before the insert. Correct means that a number has one owner, that a broken registration can be completed, and that a
  logged-out token opens nothing.
* **Broadcasts.** Dispatchers hold database connections while they wait for tasks that need
  some, each task tries three times, and the handler of a failure may itself fail. Correct means that SENT
  means sent, that nothing is queued with nobody at work, and that dispatchers end.
* **Reports.** One answer comes from several statements and a listing from several
  requests, with commits in between. Correct means that figures differ by no more than what was committed, and that
  paging misses no more lines than were changed.

`PROJECT.json` lists each hazard at its line.

## 2. Modules

| module | what it is |
|---|---|
| `Ledger` | what the transactions table promises: an append-only book in which a key counts at most once; entries are recorded (one or several together), sealed, revised or voided |
| `Approval` | the two tables of one treasurer and every request that writes them, as steps between locks, flushes and commits; its safety and liveness properties; the refinement mapping to `Ledger` |
| `ApprovalClaims` | what comments and documents of the repository say of the same state |
| `ApprovalInvariant` | the inductive invariant `IInv` |
| `ApprovalProofs` | the proofs: types, invariant, refinement of `Ledger`, the claims under the operations they need |
| `Subscriptions` | the subscription of one treasurer, the payments for it, and every request that writes them, as steps between reads and commits; its properties |
| `SubscriptionsProofs` | its inductive invariant `SInv` and the proofs |
| `Accounts`, `AccountsProofs` | registration, one-time codes, tokens and the removal of accounts, as steps between statements and commits; proofs with `AInv` |
| `Gateway`, `GatewayProofs` | queue, workers, block list, recognition of numbers, groups and campaigns by message; proofs with `GInv` |
| `Workspace`, `WorkspaceProofs` | groups and campaigns under the limits of the plan; proofs with `WInv` |
| `Campaign`, `CampaignProofs` | one settings document, currency and goal; proofs with `CInv` |
| `Broadcasts`, `BroadcastsProofs` | dispatchers, connections, tasks and logs; proofs with `BInv` |
| `Reports`, `ReportsProofs` | what each report asks of the ledger, statement by statement, and how listings are paged; proofs with `FInv` and `PInv` |
| `MCApproval`, `MCSubscriptions`, `MCAccounts`, `MCWorkspace`, `MCCampaign`, `MCBroadcasts`, `MCReports` | the instances for TLC: symmetry, and constants that a .cfg cannot write |

Where modules meet: `Approval` is what a receipt or a tap accepted by `Gateway` starts, and its approvals and
undos are the environment of `Workspace` (an entry refers to a group), `Campaign` (the total) and `Reports` (the lines);
`Subscriptions` changes the plan of `Workspace`; `Gateway` creates rows of `Workspace` past the plan. Each module
has these as actions with the effect they have on its state, at any time, which covers every order in which the other module could take them.

### Module Approval

State and code:

| variable | code |
|---|---|
| `pending` | a row of `pending_transactions` per primary key: `is_processed` and `workflow_status` as one `st`, the code, and as history field the payment it arrived for |
| `txn` | a row of `transactions` per primary key: status, code as `base`, `part`, `rev` (`C`, `C-0`, `C-REV-xxxx`), the seal, the session that has written it without committing (`by`), and as history field the payment |
| `request` | what each session is in the middle of: which lock it holds, which key it is about to insert |
| `torn` | history: entries whose approval died between its two commits |

Actions are handlers cut where another session can come in between: at a lock
(`ApproveLock`, `SplitLock`, `UndoLock`, `EditLock`), at a flush that meets the unique
constraint (`ApproveInsert`, `SplitInsert`, `ManualInsert`), and at a commit. Where a
handler locks, writes and commits with nothing in between it is one action (`Reject`,
`ClearHistory`). A read without a lock and the write that relies on it are two actions
(`IngestCheck`/`IngestInsert`, `ManualCheck`/`ManualInsert`, `CorrectRead`/`EditTx` or
`Reparse`). An undo reads the entry it will delete in `UndoLock` and deletes it by
primary key in `UndoCommit`.

An approval has three ways through its hooks: `TrainingCommit` (the hook commits the
session: entry visible and unsealed, lock released), `TrainingRollback` (the hook's own
error handler rolls the session back and the approval continues without its entry) and
`ApproveCommit` (no hook commits, everything is one database transaction). After the first
two, `ApproveCommitLate` seals and marks, or `ApproveStale` finds a row gone.

What PostgreSQL contributes is modelled in the guards: a row written by another
session's open transaction is invisible (`by`), an insert of a code another session has
inserted without committing waits (`InDoubt`), an insert of a committed code fails
(`Taken`), a locked row makes a request wait (or fail at once, `NOWAIT`), an UPDATE or DELETE by
primary key applies to the row as it is when the lock is free. A rollback (`Rollback`) removes the
session's uncommitted rows only.

Abstractions and assumptions:

* One treasurer: every query and the unique constraint filter by owner, so owners do not meet.
* PostgreSQL. On SQLite there are no row locks, and the branch at `service.py:92` works.
* Codes are model values. A PATCHed code is any payment's code or NULL; it is never
  the suffixed code of a split or a revision, and suffixes of revisions are fresh (they are random).
* Of an amount the module keeps whether a request carries it in cents or finer (`Amounts`). A seal hashes the amount
  as the request carries it (`service.py:257,388,591`), the column rounds to cents, and an audit hashes what the column
  holds (`ledger_service.py:33`). A late seal is over the amount as loaded or as it was. The arithmetic of splits, names and
  groups are left out; a request that fails a check on them changes nothing.
* Whether a message is a payment at all is the parser's matter and not modelled.
* Deleted keys are not used again (UUIDs).
* Notes, audit rows and notifications write other tables or other columns.

### Module Subscriptions

| variable | code |
|---|---|
| `sub` | the user's row of `subscriptions`: plan and end date |
| `hasUsedTrial` | `users.has_used_trial` |
| `payment` | the row of `subscription_payments` of a checkout, by provider reference; `"none"` before it is saved |
| `refunds` | how many refund rows a payment has |
| `request` | what each process is in the middle of, and the values its session will write to `sub` |
| `gateway`, `answered` | external: what the provider knows of a checkout, and whether its webhook call was answered |
| `now` | the clock, in days |
| `credited` | history: how often a payment has extended the subscription |

Handlers are cut where another process can come in between: between a read and the
commit that rests on it, and while a handler waits for the provider or a mail server.

* `CheckoutAsk`, `CheckoutSave`: the provider is asked first, the pending payment is saved
  with the correlation id of the answer. An M-Pesa prompt is on the phone before the save.
* `WebhookRead`, `FulfilRead`, `FulfilCommit`: look up the payment, test its status,
  read the subscription, commit both rows. `WebhookIgnored`: no such payment, or a
  finished one. Every ending of a webhook is a 200, `FulfilFails` included.
* `PollRead`, then `PollPaid`, `PollDeclined` or `PollUnknown` with the provider's answer. `PollPaid`
  goes on with the status read before the question: SQLAlchemy returns the object of its
  identity map and does not overwrite what it has loaded.
* `TrialRead`/`TrialCommit`, `OverrideRead`/`OverrideCommit`, `SweepRead`/`SweepCommit`:
  the other writers of `sub`. `Refund` adds a row and changes nothing else.

An UPDATE contains the attributes whose value differs from the loaded one (`Write`, with
`"same"` for a plan that was not changed), and applies to the row as it is at the commit
(`Apply`). Fulfilment assigns `plan_id` as a string, which never equals the loaded UUID, so
it always writes the plan. The end date differs in every handler that writes it.

Abstractions and assumptions:

* One user, who has the subscription row that registration creates. The branches for
  users without one (`checkout_router.py:138`, `fulfillment.py:44`) are left out.
* Two plans, Basic and one above it. The code finds plans by name; that trial and
  fallback look for "Professional" and "Free", which `scripts/seed_plans.py` does not create, is not modelled.
* A payment buys `Period`, monthly and annual alike; amounts are left out. An override grants `Period`.
* The clock stands still while a request or a sweep is at work: they last seconds or
  minutes, the clock counts days.
* A webhook call may come as long as the provider has the money, before the payment is
  saved and after it was answered. A webhook that reports a failure changes nothing.
* Signatures of webhooks are taken as valid, and `/webhook/flutterwave`, which calls a method
  that does not exist, is left out.

### Module Accounts

| variable | code |
|---|---|
| `user` | a row of `users` per key: stored, soft-deleted or gone, the phone number, phone verified, and whether it has a row of `subscriptions` |
| `otp` | a row of `otps` per code: user, purpose, age in units of the 60-second limit, and whether its message arrived; history: which process inserted it |
| `token`, `blacklist` | whom an access token was issued to; rows of `token_blacklist` |
| `request` | what each process is in the middle of |
| `loggedOut`, `cut` | history: tokens whose logout was answered; users whose registration ended before its last step |

A registration is `RegisterOpen`, `RegisterCheck`, `RegisterInsert` (or `RegisterRefused`), then the code
(`OtpDelete`, `OtpInsert` or `OtpTooSoon`), then `Subscribe`. Every request for a code (`AskCode`, `ResendTwoFactor`) goes through the
same two statements, and a code is found (`VerifyRead`) before it is used (`VerifyCommit`). `Login`, `Refresh`, `Logout`,
`ChangePhone`, `SoftDelete` and `HardDelete` commit once. `Crash` ends a request anywhere; `Tick` is the clock.

Invitations are not modelled: `generate_and_send_invite` (`services/admin/invites_service.py`) always raises
`UnboundLocalError`, because an import inside the function makes `datetime` a local name that line 28 uses before the import. Passwords, roles,
suspension, the switch for the second factor (either kind of login may happen) and the heartbeat are left out.

### Module Gateway

| variable | code |
|---|---|
| `account` | what `users` and `waitlist_whitelist` say of a number |
| `block` | its row of `whatsapp_blocklist`; `old`: 24 hours since the last attempt |
| `made` | groups and campaigns created by message within the last day |
| `message` | accepted messages: in SQS (`queued`) or with a worker (`taken`) |
| `job` | what each worker is doing, and the row of the block list it has read; `late` is history: the row was unblocked after that |
| `refused` | each process's `_UNAUTHORIZED_PHONE_CACHE` |
| `attempts` | history: attempts counted since the number was last unblocked, up to `BlockAt` |

`Receive`/`Take` go through SQS, `ReceiveInThread` is the fallback; a `Crash` delivers the record again, or loses it if a
thread had it. Then, in the order of the handler: `Maintenance` or `ReadBlock`, `Unblock`, `ReadUser`, `ResolveOwner`; for a stranger
`ReadAttempts` and `CountAttempt`; for a treasurer `CheckLimit`, `Insert`, `Reply`. The periods (30 seconds, 5 minutes, 24 hours)
differ so much that time is not counted: `RefusalLapses`, `DayPasses` and `CreationAges` may happen whenever they are due.
The maintenance switch is read from a cache and may be either value.

`EmptyBatch`: several receipts in one text, of which none is valid and new, make `process_webhook` answer "error" to a registered
treasurer as well (`ingestion/service.py:133-135`), and `handler.py:590-591` counts every error as an unauthorised attempt. So a treasurer
who forwards the same receipts again, or whose batch a crash delivers twice, is counted, and blocked in the end.

A pick of a group (`NEW_CAMP_`, `handler.py:315`) creates a campaign without the daily limit. The module has it (kind `pick`); the run has kinds
`batch` and `group` only, for its size: `text` and `tap` take a part of the steps of `batch`, `campaign` those of `group`. A number on the whitelist that is not registered makes
`handler.py:712` read `is_active` of a row that has none: answered 500, the record consumed, nothing counted.

### Module Workspace

| variable | code |
|---|---|
| `plan` | the limits of the active plan |
| `group`, `campaign` | rows; those created by message have no slug |
| `ledger` | whether transactions refer to a group, and whether one of them is approved |
| `session` | what each request is in the middle of |

A creation is `CheckLimit` (`QuotaGuard`), `ChooseSlug`, then `InsertGroup`, `InsertCampaign` or `InsertRefused`; a deletion is `DeleteRead`, then
`Delete` or `DeleteRefused`. The unique constraints and the foreign keys are the guards of the last step. One treasurer is modelled. The branch of `QuotaGuard` for
other metrics reads `usage_tracking`, which nothing writes.

### Module Campaign

`doc` is one document, of the user, the group or the campaign (`owner`), with two keys that stand for what the settings service writes and for all
else; `ReadDocument` and `WriteDocument` are the two halves of each request that writes it (`UpdateDomain`, `UpdateCampaign`,
`RegeneratePin`, `UploadCoverPhoto`); `ReplaceDocument` is the PATCH of a group, which does not read and
erases the keys it does not name. `ReadCurrency` and `WriteCurrency` are the count of
approved rows and the update that rests on it. `Approve` commits, `SumUp` adds up the campaign afterwards, and `Announce` reads the target and compares (or `LoseAnnouncement`: a crash or a
failed insert, which is only logged). `ChangeRaised` is everything else that moves the total: splits, manual entries, edits and undos never announce. A target of 0 is never announced.

History variables carry the claims: `acked`, `exposed` (keys last written while another request had read the document), `erased` (keys a later PATCH of the
group did not name), `late`, and `announced`. The opposite of what `GoalNotSpammed` bounds happens too and nothing in the code prevents it: from 90 of 100, two
approvals of 20 commit, both then see 130, and no one announces. Which plan may have which setting (`settings_service.py:18-49`) is a refusal that changes nothing; `remove_watermark` in a campaign's PATCH is
not refused to any plan, and `resolve_setting` is never called.

### Module Broadcasts

| variable | code |
|---|---|
| `broadcast` | `broadcast_campaigns.status` |
| `dispatcher` | the background task that sends one broadcast: where it is, the recipients left |
| `log` | `communication_logs.status` of each recipient |
| `task` | `send_email_task` / `send_whatsapp_task` of each recipient: where it is, the attempt, what the client answered |
| `delivered`, `cut` | history: how often the provider accepted; logs whose task was lost or ended by an exception |

`Holders` counts who has a connection of the pool: a dispatcher from its first statement to a commit, and again from the read of the log's key until the
next one, also while it waits in `Finish` for its tasks; a task from `Read` to `Save`. `ReadFails` and `DispatchFails` are the 30 seconds of the
pool running out, or any failing statement. The provider may accept and the client see an error (`Send`). The older endpoint for notifications (`Inline`) runs
each task in the request. Nothing takes up what a `Crash` leaves.

### Module Reports

`line` is an inbox row together with the entry made from it (its campaign, the currency of its group, amount and method), `booked` the order of `created_at`, `reader` the report being read: the statements left, the figures
made so far and when. Each report is a sequence of questions (`Detail`, `Dashboard`, `PublicReport`, `ExcelExport`, ...): a sum or a
count over campaigns, currencies and methods (an amount is a set of units, so that a sum is the number of units of the entries it counts), a check of a limit, a load of entries, or count-then-page of a listing. `Commit` is any change by
another request, at any point between two statements. The overview totals only what is in groups in
shillings (`workspace/router.py:98-102`), while the campaigns next to it are added up in any currency, so these two figures are compared with what each would be now and not with each other.
Group and campaign of an entry are given independently (`Bookings`). Searches, other orders, date windows and rendering are left out, and so is a change of a
group's currency, which needs a group without contributions or the race of module Campaign. `KnownInList` is what the
group's list of campaigns recognises: not "M-Pesa", the form ingestion writes, which its normalisation misses. Left out as wrong by design
rather than by timing: `daily_summary.generate_summary` sums rows of every status; `generate_campaign_whatsapp_report` and
`TemplateEngine.generate_whatsapp_report` are never called, and rows of `ReviewAllocation` are never created.

## 3. Runs

The runs of `MCApproval` bound the inbox by `PendingIds`, the ledger by `TxnIds`, and
overlap by `Sessions`; these constants are the only bounds. Rows are never
reused, so every run ends when the keys do: hence `CHECK_DEADLOCK FALSE`, and liveness is
checked as a property. `Ops` and `Faults` select the operations and faults a run
exercises; `approval_safety` and `approval_steps` take all operations, the first also all faults. Permutations of payments, keys and sessions are symmetries
(the module never distinguishes them, `CHOOSE` in `EntryOf` chooses the only match and `CHOOSE` in `SplitLock` the only index); runs with a liveness property do not use them.

The runs of `MCSubscriptions` have two processes and one checkout; `Horizon` bounds the clock,
`MaxEnd` what overrides grant, `MaxRefunds` the refunds. They too end, with the clock.

| run | question | result |
|---|---|---|
| `approval_safety` | all operations, crashes and failing hooks, two sessions: inductive invariant and four of the five safety properties; four entries | holds |
| `approval_whole` | without splits, edits, corrections and failing hooks: is a payment counted once, is a row marked approved recorded with a seal, does an undo leave nothing of its payment counted? two arrivals, five entries | holds |
| `approval_steps` | all operations, amounts in cents and finer: does a seal stay over the entry it was made for (`SealHolds`), is every step one of the append-only book, and does every request end, whatever it waits for? three entries | holds |
| `approval_retry` | an attempt to approve was cut off between its two commits: does approving again take the row out of the inbox, as `service.py:90-91` says? | violated: on PostgreSQL the branch that should do so is never taken (section 5) |
| `subscriptions` | all operations: does a success mark mean paid and credited, how often can a payment be credited, is what was paid credited in the end, does what has run out end? | holds |
| `accounts` | two users, two numbers, two purposes of codes: does a number have one owner, how many codes can a user have at once, who is without a subscription? | holds |
| `accounts_live` | one user, three codes, a token: is whoever registered and keeps asking verified, does a logged-out token stay out? | holds |
| `gateway` | two workers, one number, batches and groups: is a block earned since the last unblocking, how many groups can messages make, is a treasurer served in the end? | holds |
| `workspace` | two requests, two groups, three campaigns, plans with and without a place: limit, slugs, references | holds |
| `campaign` | two requests over document, currency and goal of one campaign: does an acknowledged setting stay, does the currency settle, how often is a goal announced? | holds |
| `broadcasts` | a dispatched broadcast with two recipients and an inline one, two connections, one thread, two attempts, crashes: logs, completeness, and does every dispatcher end? | holds |
| `reports` | every report and listing, three lines, two currencies, pages of one line, two commits during a report: figures, order, paging | holds |

Types are checked by `accounts` and `reports`, and `IInv` contains those of `Approval`; the types of every module are proved (section 4).

Why the bounds are enough: two sessions are enough for a step of one request
between any two steps of another, and every property relates at most one payment's
rows or two entries. Three entries (four in `approval_safety`) hold an approval and two revisions, or
a split of two parts and a revision of one; two inbox rows hold the same payment
ingested again after clearing. In `subscriptions` one M-Pesa checkout, which
both webhook and polling confirm, meets each other writer of `sub` once or more before the clock ends; a
card takes a subset of its steps.
`accounts`: two users suffice for two claims on one number, two processes for a code between another's delete and insert; a code's life
is one unit (60 seconds) instead of ten, which only removes waiting. `gateway` blocks at the second attempt instead of the third
(with the third the run does not end in time; `BlocksAreEarned` is proved for any) and has one number, since rows of numbers never meet.
`workspace`: with `MaxLimit` 1 and two requests the bound of `WithinPlan` is 2, which it reaches; three campaigns could exceed it.
`campaign`: amounts 1 and 2 and target 2 hit the goal exactly, from below, and in one step; target 0 is there; sessions and the values of a setting are symmetries. `broadcasts`: two connections are held by two dispatchers
while their tasks wait, one thread keeps a task in the pool, two attempts give a retry and a last attempt.
`reports`: with pages of one line every change moves the edge of a page; the shown campaign is in a group not in shillings, the line without a campaign in one that is.
The safety properties of `approval_safety`, `gateway`, `workspace`, `campaign` and `broadcasts` do not depend on the bounds: they are proved for all constants.

Every property of a passing run is known to be able to fail: `PROJECT.json` names for each a slip (a definition of the module marked "Slip") under which its run finds it violated.

Fairness. `FairSpec` requires strong fairness of each session's next step: PostgreSQL
queues the waiters of a row or a key, so a request which can proceed again and again is
not overtaken for ever, and `NOWAIT` requests never enter the queue. It requires nothing of
requests that have not begun. `PersistentSpec` adds that the treasurer keeps approving a row
that stays in the inbox (`service.py:63` tells her to try again). `InboxEmpties` asks only of runs in which, from some point on, no request dies in the
middle: one crash, early on, is enough for the violation.

`FairSpec` of `Subscriptions`: a request ends (weak fairness of its next step or its
death). The browser polls while it shows the payment as pending, which makes
`PollRead` of an M-Pesa payment happen again and again, and the scheduler starts the sweep every
day (`main.py:102`); that the poll finds the provider reachable, and that neither fails
at every attempt, is the strong fairness of `PollPaid`, `FulfilCommit` and `SweepCommit`. Nothing
is required of the user, the administrator or the provider, whose webhook may never
come. For cards nothing polls, and a webhook that came too early or failed has been answered
with 200 and is not repeated: `PaidIsCredited` is about M-Pesa only, because nothing in the code
brings a card payment to its end after that.

`FairSpec` of `Accounts`: requests end, by an answer or by dying; the user keeps asking for a code while not verified, and the strong fairness of `OtpDelete`,
`OtpInsert` with an arriving message, `VerifyRead` and `VerifyCommit` says that not every attempt is turned away, lost or cut off.

`FairSpec` of `Gateway`: a worker goes on with what it has taken and cached refusals lapse (weak fairness of `Handle` and `RefusalLapses`), a queued record is taken
in the end though others compete for the workers (strong fairness of `Take` for each message), days pass, the number keeps writing, and what it writes does not meet the maintenance
switch every time (strong fairness of `Receive` and of `AdmitWriting`). `RegisteredIsServed` is required only of runs where from some point on the account is active, processes stop
dying, since a crash takes nothing but progress, and no batch comes to nothing, since an endless supply of those blocks a treasurer for ever. That it needs the treasurer to write again
is the code's doing: a message that meets a cached refusal or a block is answered or dropped, not kept.

`Spec` of `Broadcasts`: dispatchers and tasks take some next step as long as they can; failing is one of these steps, since the pool's timeout is what resolves the
wait of everyone on everyone. Nothing is required of the provider or of commits.

## 4. Proofs

Proved by TLAPS for any sets of payments, keys and sessions, any number of
parts, and any `Ops`, `Faults` and `Amounts`, from `ConstantsAssumption` alone:

| theorem | statement |
|---|---|
| `TypeCorrect` | `Spec => []TypeOK` |
| `Inductive` | `Spec => []IInv` |
| `CountsOnce` | `Spec => []CountedOnce` |
| `SplitsAreWhole` | `Spec => []SplitWhole` |
| `SealsHold` | `Spec => []SealHolds`: a seal is the hash an audit recalculates, or the hash of the same entry with the finer amount a request carried |
| `SealsVerify` | if no request carries an amount finer than cents, every seal is the hash an audit recalculates |
| `OnlyTornIsUnsealed` | `Spec => []UnsealedIsTorn` |
| `NothingIsLost` | `Spec => []SupersededIsReplaced` |
| `RequestsKeepTheBook` | `Spec => ImplementsLedger` |

The properties are not inductive: that a code counts once after an edit commits
depends on what the edit holds while it is open. `IInv` therefore says, besides the
types:

* `KeysOK`: a request past its first step has the keys its next step uses;
* `RowsOK`: approved entries carry no revision suffix, superseded ones do, and an uncommitted
  row belongs to a request at a step that has such rows;
* `OwnRowsOK`: an approval, a manual entry or an edit owns exactly one uncommitted
  row, a split exactly one for each part, all of one code;
* `TargetsOK`: the entry a request will seal, supersede or delete is committed, and
  an edit's entry is live, locked by it alone, and matched by a replacement of the same code and part;
* `CodesOK`: two approved rows of one code, committed or not, are the same row
  or an edit's entry and its replacement. This is what the unique constraint and
  the waiting of `InDoubt` achieve together; with no edit open it is `CountedOnce`;
* `SealsOK`: an approved row's seal is over that row as approved, with an amount that requests may carry (`OwnSeals`), or it is missing
  because the approval is between its commits or died there;
* `SplitWhole` and `SupersededIsReplaced` themselves.

`ApprovalProofs` has one lemma per action that `IInv` is kept, with one step
per conjunct the action touches. Shared lemmas treat the two ways a session ends: `Rollback`, used by
five actions, and steps that leave the ledger alone. Its last part maps each action to a step of
`Ledger` or a stutter: approval, split and manual entry are `Record` (when their rows become visible),
late sealing is `SealEntry`, an edit's commit is `Revise`, an undo is `Void`; `CountsOnce` of the book
follows from `CodesOK`.

The claims of `ApprovalClaims` are not true of all operations (section 5), so each theorem names in its `ASSUME` the operations and faults it is without, and
allows everything else:

| theorem | statement | without |
|---|---|---|
| `PaymentsCountOnce` | `Spec => []ApprovedOnce` | split, correct |
| `ApprovedStaysRecorded` | `Spec => []ApprovedIsRecorded` | correct; fault learner |
| `UndoLeavesNothing` | `Spec => UndoEmptiesLedger` | split, edit, correct; fault learner |

That is more than the run `approval_whole` explores, which has neither edits nor splits nor learner faults. No hypothesis can be dropped:
section 5 has a behaviour for each operation and fault that is excluded.
The three invariants build on `IInv`:

* `ClaimBase`: while nothing is corrected, the code of a row, in the inbox or in the ledger, is that of the payment it was made for; a code is in the inbox once; and a
  row that a request has locked is in the inbox and locked by no other. With `Whole` (no entry is a part) `CountedOnce` is then `ApprovedOnce`.
* `RecordsOK`: a payment recorded in parts stays recorded, since no undo finds a part. One that is not satisfies `RecordedWhole`: its approved row has
  a sealed entry; and while an approval is between its two commits, no row of its code is approved, no second approval is as far, and its own entry counts or has
  been replaced by an edit, which seals. `FlushedIsAlone` is the reason that this state is entered safely: an insert waits for the code and finds it free, so
  the one that has flushed is the only one. `WritesCode` ties what an undo or an approval is about to write to the code of its row; `Frame` and `Quiet` say
  once what a step leaves to other requests and to committed entries, and each action shows these two.
* `UndoFinds`: an undo of an approved row holds the entry that counts for its code. It is true when the undo begins, by `RecordsOK`, and stays so (`NoUndo`), because
  without edits only an undo ends an entry, and another undo has another row, hence another code.

In `SubscriptionsProofs`, for any checkouts, any finite set of processes and any periods and bounds:

| theorem | statement |
|---|---|
| `SubscriptionsTyped` | `Spec => []TypeOK` |
| `BooksAlwaysAgree` | `Spec => []BooksAgree` |
| `CreditIsBounded` | `Spec => []CreditBound` |

Their invariant `SInv` adds to `TypeOK` and `BooksAgree`: `RequestsOK`, that a request past the
idempotency check has a checkout, saved, and paid once it extends the subscription;
`CheckoutsOK`, that a checkout which is being saved or not asked has no payment
yet; and `PursuitBound`, the reason for the credit bound: until a payment is successful it has
no credit, and from then on its credits and the requests still pursuing it are together
no more than the processes, because no new request gets past the check and each one that
commits leaves. The theorem is about the cardinality of the set `Pursuing`, and cites
`FiniteSetTheorems`.

In the other proof modules, from the `ASSUME` of each module alone:

| theorem | statement | what the invariant adds |
|---|---|---|
| `GatewayTyped`, `OneWorkerOnly` | `[]TypeOK`, `[]OneWorkerEach` (no message is with two workers) | `HasMessage`: a worker at work has a message |
| `BlocksAreEarned` | `[]BlockIsEarned` | `CountsEarned`: no count, neither in the table nor as a worker has read it, is above the attempts made since the last unblocking, but for a worker that read before it |
| `GroupsAreBounded` | `[]GroupsBounded` | `InsertBound`: groups made plus the workers that have counted and not inserted stay within the limit plus the workers less one |
| `WorkspaceTyped`, `SlugsStayUnique`, `GroupsStay` | `[]TypeOK`, `[]SlugsUnique`, `[]NothingOrphaned` | `DeletesGroup`: what a request is about to delete was a group |
| `PlanHolds` | `[]WithinPlan` | `LimitBound`: rows plus the requests that have counted and not inserted stay within the highest limit plus the requests less one |
| `CampaignTyped`, `AcknowledgedStays` | `[]TypeOK`, `[]AcknowledgedIsKept` | `ReadsAgree`: what a request has read is what the treasurer was told (`Told`: acknowledged and not erased since), but for exposed keys |
| `CurrencySettles` | `[]CurrencySettled` | `CurrencyBound`: late changes plus the requests that found no contributions are at most the requests |
| `GoalsAreNotSpammed` | `[]GoalNotSpammed` | `GoalBound`: announcements made plus the approvals that may still announce are at most the requests, since one that sums up above the target plus its own amount passes nothing |
| `BroadcastsTyped`, `SentIsDelivered`, `NoLogIsForgotten`, `SentMeansAll` | `[]TypeOK`, `[]SentWasDelivered`, `[]QueuedIsUnderWay`, `[]SentIsComplete` | `BeginsOK`: a task exists once its log does, unless its dispatcher failed in between; `DeliveriesOK`: each attempt delivers at most once; `LogOK`: SENT is the end of a task; `DispatcherOK`: a dispatcher that finishes has no recipient left |
| `NothingIsSentAgain` | `SentIsFinal` | the same |
| `AccountsTyped`, `NumbersAreOwned` | `[]TypeOK`, `[]NumberIsOwned` | `RequestsOK`: which fields a request has filled at which step |
| `CodesAreBounded` | `[]CodesBounded` | `OwnCodesAreOld`: between its DELETE and its INSERT a process has no other code of its own for that user and purpose |
| `OnlyTheCutLackAPlan` | `[]UnsubscribedIsCut` | `RequestsOK`: only a registration goes on to the subscription |
| `LoggedOutForGood` | `[]LoggedOutStaysOut` | `LoggedOutIsBarred`: a token leaves the blacklist only when its user's row is gone, which no request brings back |
| `ReportsTyped`, `FiguresDriftLittle`, `LaterFiguresAreMore` | `[]TypeOK`, `[]FiguresDrift`, `[]LaterIsMore` | `Sequenced`, `ReaderOK`: each row is in the order once, and the report is one of the program's; `FiguresOK`: below |
| `PagesLoseFewLines` | `[]PagesLoseFew` | `PagesOK`: below |

The counting arguments (`InsertBound`, `LimitBound`, `CurrencyBound`) share a pattern: a request that passes a check moves from a set of candidates to what is counted, so
the sum of both is what stays bounded. `BroadcastsProofs` treats a step of one dispatcher (`DispatcherStep`, `MoveKeeps`) and of one task (`TaskStep`) once, and each action only shows what these lemmas ask for.

`ReportsProofs` holds for any lines, campaigns, amounts, page sizes and numbers of changes. `FiguresOK` compares a figure not with other figures
but with what it would be now: the two differ by no more than what was committed since it was read, and it is not above while entries were only
added. Two figures of one answer are then compared when the later one is read, and the distance in between is theirs. That a commit moves a count by at most one and a
sum by at most `MaxAmount` is shown once, for the units of a single line (`WorthOfALine`, `FigureMoves`). `PagesOK` splits the lines at the place the reader has
reached: those before it that it has not seen though they were listed all along (`Missed`), and those from there on that it has seen (`Ahead`). A commit shifts
the order by one place and so moves at most one line over that border; what is left over when the client stops is what the count did not announce (`Uncounted`).

Only model-checked: liveness (`RequestEnds`, `PaidIsCredited`,
`ExpiredIsDowngraded`, `RegistrantGetsIn`, `RegisteredIsServed`, `DispatchEnds`), which is out of this prover's reach. Every other property of the runs
is the statement of a theorem, or the type invariant of one.

## 5. Where the code and what is said of it part

The approval runs that pass with a choice of `Ops` and `Faults` are the boundary of what `ApprovalClaims`, which quotes the repository's comments and documents, can hold.
Each of the first six is seen by checking the named property with the operations and faults given (`MCApproval`, two sessions):

1. A payment that was approved can be split afterwards, and both are counted, although
   `docs/api/system_Scope_constraints.md:41-43` says a transaction cannot be approved twice: `ApprovedOnce`, operations ingest, approve, split.
2. Undoing a split deletes none of its entries (`service.py:484` speaks of deleting them): `UndoEmptiesLedger`, operations ingest, split, undo.
3. An undo that overlaps an edit of its entry leaves the replacement counted: `UndoEmptiesLedger`, operations ingest, approve, edit, undo.
   One that overlaps a correction of its row finds no entry and reopens the row (operations ingest, approve, correct, undo); so does the undo of an approval that
   has lost its entry as in 4, while a manual entry of the payment that was checked before is inserted (operations ingest, approve, undo, manual, fault learner).
4. When the training sample cannot be written, the entry is rolled back and the row marked approved
   all the same, against `service.py:24-26`: `ApprovedIsRecorded`, operations ingest, approve, fault learner.
5. A correction that read its row before the approval, and writes the code after it, takes the approved row away from its entry. An undo of another row that has come to
   carry this code then deletes that entry: `ApprovedIsRecorded`, operations ingest, approve, correct, undo; and an approval whose hook has committed can be made a
   second time under the corrected code: `ApprovedOnce`, operations ingest, approve, correct.
6. An approval that dies after the hook's commit can never be completed on PostgreSQL, against `service.py:90-91`: the branch that should recognise the entry of the earlier attempt looks for
   SQLite's wording of the error. This is the run `approval_retry` (`InboxEmpties` under `PersistentSpec`, operations ingest and approve, fault crash) and a finding of `PROJECT.json`.
7. A seal over an amount finer than cents does not verify: 100 in three parts is hashed as 33.333..., stored as 33.33. `SealHolds` says that this is the only way in which
   a seal and its entry can part, and `SealsVerify` that without such amounts every seal verifies.

`Subscriptions` reaches two more states. A poll and a webhook of one payment, overlapping, both extend the subscription, although `fulfillment.py:28` means to
prevent it; `CreditBound` says how often at most. A payment that commits during a sweep over an expired Basic subscription loses its end date
to the sweep (`expiry_worker.py:105`), so that its plan never ends. Repeated refunds, and a trial over a paid plan, are also actions of that module that nothing refuses.

Seen while reading, with no timing involved: a group or campaign is looked up by slug over all treasurers (`group_repo.py:42`), though slugs are unique only per owner
or group, so that of two treasurers with groups of one name the second may be refused her own; `DELETE /notifications/clear-all` (`notifications/router.py:75-84`) is unreachable behind `DELETE /{notification_id}`;
sending an invitation always fails (module Accounts above); a cover photo's upload deletes the old file named by the row as it was read at the start (`groups/router.py`, about line 222);
paging through the inbox while approving what it shows skips as many rows as were approved, which `PagesLoseFew` bounds;
the list of groups next to the overview's total is in every currency, the total in shillings.

## 6. Not modelled

* The parser (`parser_engine.py`, `local_intent_parser.py`): a function of the text.
* Audit log: rows appended after the commits; nothing reads them to decide. Metrics, likewise (`common/middleware.py:67` sets counters to zero that it has read before, and loses what came in between).
* Members, support, feedback, in-app notifications: read-only queries and single-row create, read, update and delete. A ticket and its first message are two
  commits (`support/service.py:54`), and a reply that reopens a ticket races with an administrator who resolves it; nothing says what the outcome should be.
* Analytics, rendering of PDF, Excel and messages, wording of menus.
* The sum of split parts and its tolerance of 0.01 (`service.py:241`): `Approval` knows of an amount only whether it is finer than cents, so nothing here says that parts add up to the payment.
* Deployment, migrations and scripts.

`PROJECT.json` has each component with its status and the reason.

## 7. How the project grew, and what is left

`Ledger` and `Approval` came first, with `Subscriptions`: money that is counted or bought. Then the gateway and accounts (who gets in),
groups, campaigns and settings (what limits and settings promise), broadcasts and reports. Left, in order of worth:

1. An abstract specification of what a payment buys, refined by `Subscriptions` up to the two states of section 5.
2. `Gateway` composed with the ingestion half of `Approval`: a receipt that is accepted reaches the inbox once.
3. Split arithmetic as a pure module.
