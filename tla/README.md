# ListingJet in TLA+

A verification project for ListingJet (`src/`): a service that takes the photos of
a property listing through a pipeline of AI agents, a human review and an export,
and charges prepaid credits for it; and its browser application.  Paths below are
relative to `src/src/listingjet/`, and those of the browser (`app/`, `components/`,
`hooks/`, `contexts/`, `lib/`) to `src/frontend/src/`, unless they start with `src/`.

Contents: [the system](#the-system) · [modules](#modules) · [how the models map to
the code](#how-the-models-map-to-the-code) · [runs](#runs) · [what the code does not
keep](#what-the-code-does-not-keep) · [proofs](#proofs) · [only model-checked, not
modelled](#only-model-checked-not-modelled) · [plan](#plan)

## The system

One PostgreSQL database is the only thing the processes share.  API processes
(FastAPI) serve tenants, administrators and Stripe; worker processes poll the
database for pipeline work; each worker also runs the periodic jobs.  There is no
message broker: a handler and a worker meet in the rows they read and write, at
READ COMMITTED, some of them under row locks and some not.  Most of what can go
wrong is therefore a transaction that commits between another one's read and its
write, or a process that dies between two of its commits.

The browser application is the server's only client in the repository.  It runs in
one thread, but its handlers wait: between a click and the answer other handlers run,
the page changes, the answer is late, out of order, lost, or the handler's closure
still sees the state of the click.  A reload loses everything but `localStorage`.

### Inventory

| Component | State | Operations | What makes it correct |
|---|---|---|---|
| Pipeline definition (`pipeline/definition.py`) | none: 21 steps, what each requires, its gate, its attempts | validate, topological order, transitive requires | acyclic, every role present, every publishing step behind the review |
| Runner and workers (`pipeline/runner.py`, `worker.py`, `services/pipeline_start.py`) | `pipeline_jobs` rows: status, attempts, locked_by, started_at; in each worker the runs in flight | enqueue, claim, run, complete, fail, requeue, reclaim stale, hand back at shutdown, complete the review, retry, enqueue for an add-on, cancel | one owner per row; nothing published before the review; nothing lost; attempts bounded; everything ends |
| Listing workflow API (`api/listings_workflow.py`, `listings_draft.py`, `listings_media.py`, `bulk.py`) | `listings.state` | start, register assets, start review, approve, reject, retry, cancel | the state and the job rows agree |
| Sweep (`pipeline/periodic.py`) | none | time out a listing that no row moves | no listing stays in a processing state |
| Agents (`agents/*`) | content; four of them write `listings.state` | one `execute` each, with a commit of its own | being run twice, late, or over a state that has changed is harmless |
| Credit ledger (`services/credits.py`, `config/tiers.py`) | `credit_accounts` (balance, granted and purchased pool, cap), `credit_transactions` | deduct, add, refund, renew, open | pools add up, the transactions explain the balance, each reference posted once |
| Add-on purchases (`api/addons.py`) | `addon_purchases`, unique per listing and add-on | activate one, activate the bundle, remove | charged once, refunded once |
| Billing (`api/billing.py`) | tenant's plan, subscription | Stripe events: top-up, subscription changed, invoice paid | right whatever the order and repetition of events |
| Tenant administration (`api/admin_*.py`) | tenant and account columns | credit adjustment, plan and limits | the ledger survives it |
| Listing creation and deletion (`services/listing_creation.py`, `api/listings_core.py`) | listings, idempotency keys | create, delete | quota respected, deletion complete and refunded when due |
| Events, outbox, webhooks (`services/events.py`, `outbox_poller.py`, `webhook_delivery.py`) | `outbox` rows | emit, poll, deliver, mark | every event delivered at least once, in the listing's order |
| Rate limiting (`services/rate_limiter.py`, `endpoint_rate_limit.py`) | token buckets in Redis | acquire, with an optimistic retry | never more tokens than the capacity and the refill allow |
| Accounts (`api/auth.py`, `services/auth.py`, `api/team.py`) | users, lockout counters, token versions, invitations | register, login, refresh, logout, invite, accept | a spent token is not accepted again |
| Permissions (`api/listing_permissions.py`, `deps_permissions.py`) | grants | grant, revoke, check | a grant reaches exactly its listing |
| Demo listings (`api/demo.py`, `services/demo_cleanup.py`) | demo listings with an expiry | create, claim, clean up | a claimed demo is not cleaned up |
| Link import (`services/link_import*.py`) | `import_jobs` | create, run, poll | every job ends |
| OAuth and exports (`api/canva_oauth.py`, `services/canva_tokens.py`) | encrypted tokens | connect, refresh | a refresh token is used once |
| Scoring and selection (`services/weight_manager.py`, `health_score.py`, `video_select.py`, `plan_limits.py`, ...) | weights, scores | pure computations | bounds, normalisation |
| Tickets, brand kit, social accounts, posts, notifications, audit log (`api/support.py`, `brand_kit.py`, `social_accounts.py`, `listing_events.py`, `notifications.py`, `admin_dashboard.py`) | their rows | small reads and writes, mostly without locks | an update does not lose another's |
| Session (`contexts/auth-context.tsx`, `lib/api-client.ts`, sign-in pages) | user, token of the client, tokens in `localStorage` | restore, four ways to sign in, exchange, sign out, redirect | the token sent is the one stored; nobody is stuck behind a spinner or on a blank page |
| Creating a listing (`components/listings/creation-wizard/*`, `asset-upload-form.tsx`, `hooks/use-places-autocomplete.ts`) | form, step, draft in `localStorage`, uploads under way | details, photos, staging, add-ons, confirm, import, resume, start over | the draft survives; photos belong to their rows and listing; the price shown is charged |
| Following a listing (`app/listings/[id]/page.tsx`, `lib/use-listing-events.ts`, `pipeline-progress.tsx`) | copy of the listing, stream, timers | events, refetch, poll, review, approve, retry | the copy catches up with the server |
| Review queue (`app/review/page.tsx`) | copy of the queue, the expanded row's photos | poll, decide, keyboard, drag | as above; the order shown is the one stored |
| Chat and bell (`hooks/use-help-chat.ts`, `use-notifications.ts`) | messages; notifications and what was marked | stream, clear, rate; poll, mark | answers under their questions; nothing unread is missed |
| Administration and settings pages (`app/admin`, `settings`, `support`, `listings`, `dashboard`, `demo`) | copies of the server's rows, forms | load, edit, save | what is sent is what was shown; what is shown is what is stored |
| The rest: filters, mail, storage, analytics, providers, static pages, scripts, migrations | content columns | I/O, single-row edits, reads | no control that others rely on |

`PROJECT.json` lists the same components with their files and status.

### How they interact

* The API starts a listing: it charges the ledger and sets `UPLOADING` in one
  transaction, then enqueues one row per step in a **second** one.
* Workers claim rows with a compare-and-set.  An agent commits its own results and
  `listings.state` in **its** transaction, after which the runner marks the row in
  **another**.  The runner recognises a run that lost its row by `status` and
  `started_at`, read without a lock.
* The row `await_review` is a gate: it is WAITING until `approve_listing` (or
  packaging's auto-approval) completes it.  No worker runs it.
* Buying an add-on, at any time until and after delivery, resets rows of finished
  steps so that they run again.
* Cancelling or deleting a listing refunds its charge and cancels its rows, while
  agents in flight go on.
* Stripe delivers events at least once, in any order, possibly two at once.
* A browser calls the API with the token of the moment.  It learns of the pipeline by
  an event stream (`api/sse.py` reads `events` behind a cursor), by polling when the
  stream is down, and by reading again after its own calls.
* Several people act on the same rows from their own pages: reviewers on the queue,
  an agent and a customer on a ticket, visitors and the hourly clean-up on a demo.
  Nothing but the next read tells one of the other.

### What is hard

Zombie runs after a reclaim; crashes between the agent's commit and the row's;
retries of rows whose worker is alive; add-ons that re-run both sides of the review;
gated and failed-but-optional steps that others wait for; handlers that check
before they lock; redelivered and overlapping Stripe events; refunds reachable by
two routes.  In the browser: answers out of order, answers to a page that was left,
handlers that address rows by number, several calls of which one fails, a session
that is restored, exchanged and ended at once.  `PROJECT.json` lists the forty that
weigh most as hazards, each at its line, with the properties that cover it; what the
models show beyond them is under [what the code does not
keep](#what-the-code-does-not-keep).

## Modules

| Module | Models | Uses |
|---|---|---|
| `PipelineDefinition` | what a pipeline is: steps, dependencies, gates, roles; `GateGuards`, the structural fact that publishing lies behind the review | |
| `ListingPipeline` | the 21-step `PIPELINE` of `definition.py` and its validation | |
| `PipelineJobs` | runner, workers, workflow API and sweep for one listing, over any pipeline | extends `PipelineDefinition` |
| `ReviewedPublishing` | the abstract promise to the reviewer: approve once, publish after | instantiated by `PipelineJobs` |
| `PipelineJobs_proofs` | theorems about `PipelineJobs` and its `SerialSpec`; that a delivery is complete, and what `transitive_requires` computes | extends `Delivery` and `TLAPS` |
| `MC_PipelineJobs` | a contracted pipeline, the bound on disturbances, fairness | extends `PipelineJobs` |
| `Delivery` | when a delivered listing is complete: what is asked of a pipeline and of the people around it | extends `PipelineJobs` |
| `MC_ListingPipeline` | the same on the real pipeline | extends `MC_PipelineJobs`, `ListingPipeline`, `Delivery` |
| `CreditLedger` | a tenant's account, its transactions, and every handler that posts to it | |
| `CreditLedger_proofs` | theorems about `CreditLedger` | extends it and `TLAPS` |
| `MC_CreditLedger` | small prices, Stripe's redelivery of invoices | extends `CreditLedger` |
| `Session` | the browser's session: restoring it, the four forms that sign in, the exchange, sign-out, `ProtectedRoute`, reloads | |
| `Session_proofs` | theorems about `Session` | extends it and `TLAPS` |
| `MC_Session` | `Session` with two accounts | extends `Session` |
| `PhotoUpload` | the upload form of a listing's page: rows, batches, registration | |
| `LinkImport` | the import on the same form: request, interval, end | |
| `AddressSearch` | the address field: script loader, predictions, selection, lookup | |
| `Wizard` | the wizard, its draft, photos, staging, confirmation | |
| `WizardAddons` | the selection of three steps, the price shown, `start_pipeline`'s charges | |
| `ListingPage` | the page of a listing: event stream, refetch, poll, Review, Approve, Retry | |
| `PipelineProgress` | its list of pipeline steps | |
| `ReviewQueue` | the queue's two reads, Approve, Reject, the keyboard, others' decisions | |
| `PhotoOrder` | the photos of an expanded row: load, drag, swap, reload | |
| `HelpChat` | the streamed chat | |
| `Notifications` | the bell: polls and marks | |
| `ListingsIndex` | the two tabs of listings; deletion | |
| `Dashboard` | the dashboard: its reads, the bars of the listings under way, deletion | |
| `TeamPage` | roles, invitations, removal and blanket access | |
| `SharePanel` | the permissions of one listing | |
| `SupportTickets` | a customer's and an agent's view of the same tickets, and the server between them | |
| `DemoListing` | the demo: uploads, expiry, claims, clean-up | |
| `AdminTenants` | the administrator's roster, form and credit adjustment | |
| `AuditTab` | the audit log, read page by page while it grows | |
| `BrandKit` | the brand kit: form, pictures, save | |
| `SocialAccounts` | the social accounts: delete and create | |
| `SocialPosts` | ticks of posted platforms | |
| `MC_Forms` | fourteen of these on one screen, one at a time | instantiates them |
| `MC_Pages` | the eight that follow the server, with their fairness | instantiates them |
| `Wizard_proofs` | what the wizard and its requests rest on | extends `MC_Forms` and `TLAPS` |
| `Forms_proofs` | theorems about the upload form, the wizard, the team page, the demo, the tickets, the social pages and the administrator's and brand forms | extends `Wizard_proofs` |
| `Types_proofs` | the types of seven pages and of what the wizard sells, with the counts that bound them | extends `MC_Forms` and `TLAPS` |
| `Shown_proofs` | the theorem that a form at rest shows what the server has, and the types of all forms | extends `Forms_proofs`, `Types_proofs` |
| `Pages_proofs` | theorems about the order of photos, the steps, the chat, the import and the address field, and the types of all pages | extends `MC_Pages` and `TLAPS` |

A definition of the form "A variant ..." just above a definition is a plausible
mistake in it; `PROJECT.json` names the property that each of them breaks.

## How the models map to the code

`PROJECT.json` "map" gives the lines of every definition.  In outline:

### PipelineJobs

| Variable | Code |
|---|---|
| `listing` | `listings.state` |
| `status`, `attempts`, `lockedBy` | the columns of the listing's `pipeline_jobs`, per step; `"absent"` is no row |
| `run[k]` | what slot `k` of a worker holds in memory: its step, how far `run_job` is, whether the `started_at` it read is still the row's |
| `worker[w]` | up, or told to stop |
| `addons` | active purchases |
| `starting` | a request that has committed `UPLOADING` and not enqueued yet |

*Granularity.*  An action is one transaction, except where a transaction reads a row
without a lock and writes it later and the window matters: `claim_next` is
`PickCandidate` (the read) and `ClaimNext` (the compare-and-set); the last
transaction of a run is `RunJobResult` (the read of status and `started_at`) and
`RunJobWrite`.  `RunJobStart` (run_job's first transaction) and `AgentCommit` (the
agent's own) are separate.  In `SerialSpec` no other transaction writes the row of a
run between that read and that write, though it may write any other row: what holds
of it and not of `Spec` rests on that window being short.

*Abstractions.*

* One listing.  The 500-row window of `claim_next` needs several and is left out.
* `run_after` and back-off only delay a claim.  A RUNNING row may be found stale at
  any moment, because its worker may be slow as well as dead.
* The sibling reads of claim, retry, add-on and sweep are atomic with their writes.
  `reclaim_stale` is one row at a time.
* A crashed process's id becomes `Dead` in the rows it leaves: ids are not reused.
* A write that SQLAlchemy omits because the attribute is unchanged changes nothing.
* Administrators' edits of the state, deletion, the bundle, removal of add-ons and
  demo claims are not actions of this module.

### CreditLedger

| Variable | Code |
|---|---|
| `tenant` | plan, `included_credits`, `per_listing_credit_cost` |
| `books.account` | `balance`, `granted_balance`, `purchased_balance`, `rollover_cap` |
| `books.ledger` | `credit_transactions` in commit order: type, reference, amount, balance_after |
| `state[l]` | `listings.state`, or `"DELETED"` |
| `purchases[l][a]` | `addon_purchases` status and `bundle_id`; one row per listing and add-on, as the unique constraint has it |
| `request[p]` | what a request has checked and not committed yet |

*Granularity.*  start, cancel and delete hold the listing's row lock from their first
check, and every reference they post is the listing's own: one action each.
Renewal locks the account first: one action.  Buying and removing an add-on, top-ups
and adjustments look first and lock the account later, if at all: a `...Begin` and an
`...End`.  A handler that raises after its first look rolls back, so an `End` that
cannot commit only frees the request.

*Abstractions.*  The tenant is billed by credits (`billing_model`'s default).  A
start selects at most one add-on, or the bundle.  A registration leaves the tenant
with its columns' defaults (`included_credits` 0, listing cost 12) and the account
with the plan's credits and cap, as `register` does.  `Progress` is the pipeline:
it may put a started listing in any state, also a cancelled one, because agents in
flight do not look.  The low-credit mail, period dates and descriptions are left out.

### The session (`Session`)

A token is the account it was issued to.  `bearer` is `ApiClient.accessToken`,
`stored` the two keys of `localStorage`, `user` and `loading` the context's state.
The restoring effect is `boot` with a step per request; `exchange` is the shared
promise of `tryRefresh`; `signIns` holds the requests of the four forms, which go on
when their page is left (`here`).  `Reload` keeps `stored` and nothing else.  The
server answers each request with success or refusal; of the pages only those that
matter to the redirect are told apart.  The effect of `ProtectedRoute` belongs to the
action that changes what it depends on (`user`, `loading`) or mounts it, and runs once:
when the visitor's own navigation (`Visit`, at any moment; the palette opens over a blank
page too) or a late `router.push` of a sign-in (`SignedIn`, `ClaimEnds`) overtakes the
redirect, nothing asks for the login page again.  `overtaken` records that; `calm` is a history variable: no two
operations overlapped, and no sign-in got tokens without a profile.

### The pages

Each module has the React state of its component, the requests it has under way (a
request holds what its closure holds), and the part of the server it talks to.  A
click is an action, guarded by the button being drawn and enabled; the effects that
React runs after it belong to the same action.  A request is answered in one action,
or in two (the server reads or writes; the answer arrives) where something may happen
in between and the difference shows.  An answer may be refused or lost; `MaxLost`
bounds that where nothing else does.  Leaving a page drops its state and not its
requests, except where the code cancels them.

*The wizard.*  `AnimatePresence mode="wait"` (`wizard-container.tsx:245-295`) keeps the step
that is left on screen until its exit animation has ended, with live buttons and the props
it was drawn with last, while the container is already at the next.  So `drawn` and
`props` are what the buttons act on, and `step` and `form` what they act upon: a second click
on step 1's Next counts from step 2 and skips the photos (`hasty`), a second Confirm starts
a second confirmation.  What keeps a listing without photos from starting is the server:
`TagsAccepted` and `StartAccepted` are the checks of `set_staging_tags` and `start_pipeline`
(`listings_draft.py:49-59, 94-99`), and `ConfirmedPhotos` says when they have no reason to
refuse.  `WizardAddons` draws one step at a time: a leaving step there shows, and sends,
the selection it was drawn with.

*Reviewers.*  `PhotoOrder` has one: no colleague's swap and no re-run of packaging changes
the order while its row is open.  Decisions of others are in `ReviewQueue`.

*Server side.*  For tickets, posted platforms, demos, grants, social accounts,
notifications and the audit log the module contains the handler too, with its
unlocked reads: `SupportTickets` has `add_message` against the agent's edits,
`SocialPosts` has `mark_posted`'s read and write, `DemoListing` the clean-up's.  Of
the pipeline `ListingPage`, `PipelineProgress` and `ReviewQueue` only keep what a page
can see: states that change, steps done, events that commit in another order than
they were stamped.

*Histories.*  Variables marked `history:` record what the code does not, for the
properties: that two requests overlapped (`adrift`), that an answer was lost (`lost`),
that a value was touched.  Where a property excuses such a case, the section below
says what happens in it.

*Composition.*  `MC_Forms` and `MC_Pages` put one component on screen and leave it
there: a behaviour of `MC_Forms` is one of a component, its variables in the slots
`v1`..`v20`.  The components do not share state, so this loses nothing, and a run
answers one question for all of them: each property joins a property of several
components, whose comments say what it means for the code.

| Property | Joins |
|---|---|
| `PhotosFollowRows` | `PhotoUpload`: `RowsFollowBatch`, `RegisteredIsStored`; `DemoListing`: `DoneIsStored` |
| `ConfirmedPhotos` | `Wizard`: `ConfirmedPhotos` |
| `ActsOnShown` | `WizardAddons`: `ChargedAsShown`; `SupportTickets`: `ReplyGoesToShown`, `ThreadOfSelected`; `SocialPosts`: `RecordedWasTicked` |
| `UntouchedIsKept` | `Wizard`: `DraftKept`; `AdminTenants`: `PlanKept`; `BrandKit`: `KitKept` |
| `ToldIsTrue` | `DemoListing`: `ClaimedIsKept`; `SocialAccounts`: `SavedIsStored`; `SocialPosts`: `TickIsRecorded`; `SupportTickets`: `WaitsOnOpen` |
| `ShownIsStored` | `TeamPage`: `TeamShown`; `SharePanel`: `AccessShown`; `ListingsIndex`: `SharedIsFresh`, `CardsAreListings`; `AdminTenants`: `BalanceShown`; `BrandKit`: `SavedIsShown`; `SocialAccounts`: `AccountsShown`; `AuditTab`: `AuditHasNoGaps`; `Dashboard`: `BarsOfOwnListing` |
| `NeverFrozen` | `PhotoUpload`: `SpinsForOwnBatch`; `Wizard`: `NoFrozenConfirm`; `TeamPage`: `LoadingIsFetching` |
| `ChatInOrder` | `HelpChat`: `QuestionsKept`, `AnswersFollow` |
| `FieldsUsable` | `LinkImport`: `NoFrozenImport`; `AddressSearch`: `OneScript`, `TypedKept` |
| `CatchesUp` | `ListingPage`: `CaughtUp`; `ReviewQueue`: `QueueIsCurrent`; `Notifications`: `Missing` never for good |
| `SettlesDown` | the spinners of `PipelineProgress`, `PhotoOrder`, `HelpChat`, `LinkImport`, `AddressSearch` |
| `StepsGoForward`, `OrderShown` | `PipelineProgress`; `PhotoOrder` |

## Runs

All finish within about three minutes on two cores.  "pass" runs:

| Run | Question | Bounds |
|---|---|---|
| `pipeline` | Is nothing published before the review, under every interleaving of two workers, the API, faults and an add-on? Does the runner implement `ReviewedPublishing`? Do locks mark exactly the running rows? | 8 steps: the spine, an add-on step before packaging, two optional steps after it that join at distribution; 2 workers with one slot; 2 disturbances; 836,309 states |
| `serial` | Do attempts stay bounded, and cancelled and done rows stay so, when nobody writes a run's row inside its last transaction? | 5-step spine, 3 disturbances, 318,613 states |
| `fair` | Does every RUNNING row end, and every listing leave its processing states? | 5-step spine, 1 worker, 3 disturbances, 26,000 states |
| `listing_pipeline` | Does the real 21-step pipeline, with any choice of add-ons and one failed attempt, end delivered and settled, or failed? Is delivery complete? | 2 workers, 1 failure, 347,000 states |
| `credits` | Do the books balance after every commit, and are purchased credits spent last? | 1 listing, 1 add-on, bundle, 2 plans, 1 top-up, 1 invoice, 2 requests, 7 transactions; 980,172 states |
| `adjust` | Is a listing refunded once and an add-on charged once, also while an administrator adjusts? | 1 plan, adjustments of 1, 2 requests, 5 transactions; 197,790 states |
| `session` | Is the token sent the one stored? Does everybody see the account they act as? Does every form, spinner and blank page end? | 2 accounts, 1 sign-in and 1 sign-out in flight, any number of reloads and navigations; 178,584 states |
| `forms` | Do fourteen screens send what they showed, keep what was not touched, and show what is stored? | at most 2 requests of a kind (in the wizard 1 upload, 1 import and 2 confirmations), 1 or 2 losses, 2 items of each sort (3 listings on the dashboard, of which it reads 2 and draws 1, for 5 and 3); 2,160,238 states |
| `pages` | Do eight components catch up with a server that changes under them, and do their spinners end? | 2 events, 2 requests in flight, 1 loss of each kind, the stream's a series long enough for it to give up; 295,331 states |

*Bounds.*  A **disturbance** is anything beyond a listing's undisturbed course: a
crash, a shutdown, a lost run, a failed attempt, a reclaim of a row whose worker is
alive, a reject, cancel, retry, add-on, a second upload, a sweep of a listing that is
not stuck.  The undisturbed course is not bounded, and neither are the recoveries
(reclaiming an orphan, sweeping a stuck listing).  Two disturbances suffice for every
two-party race (a reclaim and a claim, a cancel and a late agent, an add-on and a
retry); `serial` and `fair` take three on the shorter pipeline.  The five- and
eight-step pipelines keep each role of the real one: before, at and after the
review, gated off, optional, a join.  Two workers suffice because a row has at most
one owner and one zombie that matters; the proofs cover any number.  In the ledger
runs `MaxLedger` bounds the transactions: 7 is enough for a grant, a charge of each
kind, a refund of each kind and a renewal in one behaviour, and prices are chosen so
that debits cross from one pool into the other and renewals expire some credits and
keep some.

*Symmetry* is used for workers (`pipeline`) and requests (`adjust`), in runs without
liveness only.

*Deadlock* is not checked: a delivered or cancelled listing that nobody disturbs is
a legitimate end, and the bounds stop the ledger.  What must not stop is stated as
liveness.

*Fairness* (`MCFairness`).  Weak fairness of: every slot's work (the worker loop
polls for ever and each step ends within its time-out), the reclaim of rows without a
run (every tick), the last step of a shutdown, the enqueue after a committed start
(the same request goes on to it; that it may instead be lost is the disturbance
`TriggerFailed`), and the hourly sweep of a stuck listing.  No fairness for users:
`CompletesOrFails` states the willing reviewer as its hypothesis.

In `session` the requests of the restoring effect are answered (`fetch` resolves or
rejects) and the router does what it was told; nobody has to sign in.
In `pages` weak fairness covers effects, timers and answers; strong fairness three
things that others may interrupt again and again: a debounced refetch that every new
event postpones, a poll that a returning stream stops, and the steps of a stream of
answers that the visitor may clear.  Of an import only the browser's part is fair.  The server starts it as a task nobody waits
for (`listings_import.py:98-107`) and nothing takes up a job whose process died, or that
raised outside its `try` or in the commit that says "failed" (`link_import_job.py:34-41,
93-100`): such a job is `JobAbandoned`, and `SettlesDown` excuses its interval.  That a job
is in the end one or the other assumes nothing.  Only one component is on screen, so conditions of
different components make one formula (`Fair1` .. `StronglyFair2`).  `forms` has no
liveness and no fairness.

*Bounds of the browser's runs.*  Every race in these components is between two
requests, or a request and a click, over one or two items: two of each are enough to
tell "mine" from "another's", first from second, and a lost request from an answered
one.  Three photos are needed to tell a swap from a shift, three audit entries for a
page, a next page and an entry written between.  The
constraint `Followed` of `forms` ends a behaviour of the wizard where it has strayed, of
which its properties say little, and explores a second confirmation only with no
upload or import under way and no photos skipped.  A form is saved at most twice
(`MaxSaved`), which is what it takes for one save to overtake another.  Values the code
passes on (texts, names, files) are model values; the tenants, and the plans, are
interchangeable (`Interchangeable`): no definition names one of them.

## What the code does not keep

Three runs expect a violation, each of a statement of the repository; TLC finds the
shortest way.  The quotations are in `PROJECT.json`.

| Run | Property | What happens |
|---|---|---|
| `zombie` | `OwnershipKept` | `run_job` reads `started_at` after the claim committed.  A slow run whose row was reclaimed and claimed again reads the new owner's, and later completes the new owner's row. |
| `references` | `PostedOnce` | The ledger's idempotency checks precede the account's lock: two deliveries of a top-up, two purchases of the bundle or two removals of an add-on are both posted. |
| `invite` | `InviteeSeesInvitation` | `/accept-invite` is not among the public paths: an invitee, who has no account yet, is sent to the login page instead of the invitation. |

Six more properties are stated in the modules, or hold of a smaller setting only; to
see how the code breaks them, add them to the configuration named:

| Property | Where | What happens |
|---|---|---|
| `ApproveOpensGate` | `MC_PipelineJobs_pipeline.cfg`, property (without SYMMETRY) | A listing cancelled while packaging runs is put back to AWAITING_REVIEW by the agent.  Its approval finds the gate cancelled, logs, and leaves an APPROVED listing that nothing moves. |
| `InvoiceGrantedOnce` | `MC_CreditLedger_credits.cfg` with `MaxDeliveries = 2`, invariant | `invoice.paid` drops the event's id: a redelivery (`Deliver`) grants the month again. |
| `RolloverFollowsPlan` | `MC_CreditLedger_credits.cfg` with `MaxDeliveries = 2`, property | Renewals use the cap the account was opened with, whatever the plan is now. |
| `PoolsAddUp` | `MC_CreditLedger_adjust.cfg`, invariant | An administrator's adjustment moves the balance but no pool. |
| `ActsOnShown` | `MC_Forms.cfg` with `BaseCosts = {12, 15}` | The wizard's total counts 15 for a listing (`step-addons.tsx:78`); a tenant whose `per_listing_credit_cost` is the column's default is charged 12. |
| `DialogEnds` | `MC_Forms.cfg`, invariant | The dashboard gives its cards no `onDeleted` (`dashboard/page.tsx:310`): after a successful deletion the dialog says "Deleting...", its buttons and backdrop are dead (`listing-card.tsx:133-217`), and it covers the page until that is left. |

Further observations made while modelling, with no run of their own:

* `DeliveredIsComplete` is checked with add-ons bought before the start.  An add-on
  bought while distribution is RUNNING leaves that row alone, and the listing is
  delivered with the add-on's steps queued (`runner.py:494-505`).
* After a failed optional step between packaging and distribution, a re-run of
  packaging for an add-on is not ordered with the re-run of distribution, and the
  listing can end in AWAITING_REVIEW with every row satisfied.
* The gate can be approved while packaging's row is still RUNNING: the agent's
  commit shows the listing for review before the runner marks the row.
* `remove_addon` pays the catalogue price also for add-ons that came with the
  cheaper bundle, and is allowed in AWAITING_REVIEW though its docstring says "if
  pipeline hasn't started"; a refunded add-on cannot be bought again.
* A tenant that has just registered is charged 12 for a listing, and 15 after its
  first subscription event.
* A listing refunded once cannot be cancelled again: `refund_credits` raises.
* `activate_addon` locks the account and then the listing, cancel and delete the
  other way round: they can deadlock (PostgreSQL then aborts one of them).

Of the session:

* A token exchange in flight at sign-out stores its token after the session was
  cleared: the client goes on sending it, with no user on screen
  (`auth-context.tsx:46-60, 171-181`).  In flight while another account signs in, it
  replaces that account's token.
* A sign-in whose profile request fails keeps its tokens: the page shows the old user
  and sends the new one's token.  The profile asked for at mounting time can overwrite
  the user who has signed in since.
* The periodic exchange ignores a refusal, although `api-client.ts:216-217` says the
  caller should log out; the refresh token a rotation returns is dropped.
* A navigation that overtakes the redirect of `ProtectedRoute` leaves the page blank for
  good: the effect depends on `user`, `loading` and `router`, none of which changes again
  (`protected-route.tsx:11-15`; `command-palette.tsx:72-80`, `register/page.tsx:73-83`).  To
  see it, drop `overtaken` from `SentToLogin`.
* The plan of the user who signed out stays in `plan-context.tsx:44-63`.

Of creating a listing:

* After "Start over" with an upload, import or confirmation under way, photos of the
  old listing appear in the new draft, and a late confirmation clears it (`strayed`).
* After a partial failure of an upload the n-th photo registered shows the preview of
  the n-th row (`step-upload-photos.tsx:216-222`; `Shots` in `Wizard`).  Success empties
  the upload form, failed rows and rows added meanwhile included.
* A second click on Next of step 1 while that step leaves skips the photos; the visitor
  goes on to Confirm, and the server refuses with 400.  A second click on Confirm while the
  step leaves, after Back, makes a second confirmation: the server refuses the later, but
  its `finally` frees the button of the first (`wizard-container.tsx:116-165, 245-295`).
* Tags of an attempt that failed at the start stay when the next one tags nothing: the
  call is only made with photos to stage (`wizard-container.tsx:138-140`).
* An import whose job the server abandoned keeps the form polling and its button disabled
  for ever (`listings_import.py:98-107`, `link_import_job.py:34-41, 93-100`).
* Edits of the details after the listing was created are never sent
  (`step-property-details.tsx:80-84`).  What is typed during a lookup is overwritten by
  its answer; late predictions reopen the list of addresses.
* Switching staging off leaves the staging tags; staging switched on under the bundle
  keeps the bundle's price.

Of the pages that follow the server:

* `ListingPage`: refetches answered out of order show the older state until the next
  one; a refetch that fails while the stream is connected is not repeated; an event
  that commits behind the stream's cursor is skipped; APPROVED is not polled.
* `ReviewQueue`: the two reads are not one snapshot; the keys `j`, `k` and space expand
  a row without loading its photos (`byKey`); `a` is not guarded by the loading state;
  a rejection's success closes another row's panel.  Overlapping reorders do not
  commute (`PhotoOrder`).
* `HelpChat`: clearing during an answer, and rating it, meet the rest of the stream.
* `Notifications`: the server has `read_at`, the hook counts by `is_read`
  (`use-notifications.ts:10, 63`): what was read is unread again after each poll.

* `/billing/status` answers `plan`, `has_payment_method` and `has_subscription`
  (`schemas/billing.py:34-37`); `plan-context.tsx:54, 71` looks for `billing_model`.  So
  the balance is never asked for (`WizardAddons.fetchPlanData`): the wizard's Confirm
  is never disabled for want of credits and the 402 is what the user meets, and
  `/billing` never draws the credits, bundles and transactions.  (Those bundles have no
  `id`, which `handlePurchase` would parse.)

Of the forms:

* `TeamPage`, `SharePanel`: overlapping changes of access show whichever read ends
  last; a failed read of the team shows an empty team; sharing twice makes two
  permissions; two concurrent blanket grants make `scalar_one_or_none` fail for ever
  after (`api/team.py:264-274`).
* `ListingsIndex`: a failed deletion closes its dialog silently.  `/listings?new=1` and
  `?create=true` are written and read by nothing.
* `DemoListing`: creating and finalizing a demo need a token
  (`middleware/tenant.py:31-35`), though `api/demo.py:59` says "No auth required." and the
  page "no account needed"; the week's demo is used up before a photo is sent;
  finalizing starts no pipeline; a signed-in visitor's claim is made again after
  `/register` and refused; a demo claimed while the clean-up runs is deleted (`raced`);
  two overlapping claims both succeed.
* `SupportTickets`: the agent's tab shows the last ticket until the next has come and
  acts on the one selected; a failed load leaves the old thread; a reply's answer is
  appended to whatever thread is shown; `add_message` and the agent's edit overwrite
  each other (`api/support.py:215-248`).
* `AdminTenants`: saving a name writes the plan the form was filled with; Apply is not
  guarded (`admin/page.tsx:563-570`); balances may arrive out of order; a webhook URL
  cannot be cleared; the plan field lacks tiers.  `AuditTab`: changing the filter during
  a read mixes two filters' entries, entries written between two pages appear twice.
* `BrandKit`: a removed logo is never cleared at the server (`api/brand_kit.py:58-59`);
  saving after a failed load overwrites the kit; a refused picture is only logged, and
  the kit names it; an upload that ends after Remove puts the picture back; a second
  user overwrites the whole kit.
* `SocialAccounts`: saving deletes and then creates: when the creation fails the account
  is gone and its stale id makes every retry fail.  Enter in the field saves while a
  save is under way.
* `SocialPosts`: a tick belongs to the card, not to the event chosen above it; it is
  not read from the server; two ticks in flight lose one (`api/listing_events.py:87-90`).

## Proofs

The proof modules hold for **every** value of the constants that satisfies the named
assumptions: any pipeline, any number of steps, slots and workers; any plans, prices,
listings, add-ons and requests in flight; any accounts and bounds.

### PipelineJobs_proofs

Assumptions: those of `PipelineDefinition` on the shape of a pipeline (roles are
steps, attempts are positive, requires are steps), `GateGuards` (what the pipeline
publishes lies behind the review gate; TLC evaluates it on the real one), and that
`"none"` and `"dead"` are no worker's name.

* `TypeCorrect` (`TypeOK`), with the stronger `TInv == TypeOK /\ RunsNotGate`: no run
  is ever of the gate's step.  Without it the gate's row could not be shown to stay
  among absent, waiting, done and cancelled.
* `ReviewComesFirst` (`ReviewedFirst`), `DeliveryIsReviewed`
  (`DeliveredOnlyReviewed`), `ApprovalLasts` (`ApprovalIsKept`).  `ReviewedFirst` alone
  is not inductive: skipped rows of post-review steps must be ones their gate
  switched off (`SkippedIsGated`), or an unreviewed listing could find its export
  satisfied; and the state DELIVERED must be tied to the runs that write it.
  `GInv == SkippedIsGated /\ ReviewedFirst /\ DeliveredOnlyReviewed` is inductive.  The
  argument is that a claim of a post-review step requires the gate to be done
  (`ClaimableIsReviewed`, from the transitive requires), and no action undoes a done
  gate: retry does not reset done rows, add-ons except the gate by name, cancel and
  the sweep cancel only what is waiting.
* `RunnerKeepsPromise` (`KeepsPromise`): refinement of `ReviewedPublishing`, the gate
  for `approved` and the post-review rows and runs for `published`.
* `LocksMarkRunning` (`LockedIffRunning`).

`StepMoves` says once what each action may do to the rows, so that each invariant is
proved against a few shapes of change instead of two dozen actions.

Three theorems of the same module are of `SerialSpec`: the run `zombie` shows what an
interleaved transaction does to the run it interrupts.

* `ClaimsAreBounded` (`AttemptsBounded`), `CancelledStaysCancelled` (`CancelledStays`),
  `DoneStaysDone` (`DoneStays`).  None is inductive: a run at its write would requeue or
  complete a row that has changed since it was read.  `WritesPrepared` is what the
  unlocked read leaves behind (the row is RUNNING, a retry has an attempt left, a
  hand-back writes one attempt less), and without interruption it still holds at the
  write.  `Budget` adds that a row that does not exist has no attempt, so that a row
  created by `enqueue_pipeline` may be claimed.

`RowMoves` lists the seven things any step may do to one row (create, claim, finish,
requeue, drop, renew it, or leave it); each theorem follows from that list alone.

The last part is about `Delivery`, and alone uses its assumptions: there are finitely many steps
(`StepsFinite`); and `DeliveryIsCovered`, a fact about the shape of `PIPELINE` that TLC
evaluates in run `listing_pipeline`: every step that leads to distribution also leads
there by a way without add-on steps, switched-off steps and the gate.

* `DeliveryIsComplete` (`DeliveredIsComplete`), of `UndisturbedSpec`: nobody retries the
  listing, and add-ons are bought before its rows exist; crashes, reclaims, shutdowns,
  cancellations and the sweep are all there.  The invariant is `DInv`: what has begun had
  all it requires (`BeganIsReady`), a satisfied row stays satisfied (`SatisfiedStays`),
  and only a run of distribution delivers.  The gate is left out of `BeganIsReady`
  because it cannot be in it: packaging's agent sets AWAITING_REVIEW before its own row
  is done, so the gate may be approved with packaging RUNNING.  Skipped rows are left
  out for the same reason, they are satisfied unseen.  So that a delivery is complete
  does not follow from the requires of distribution: it rests on packaging also being
  required by `video_baseline`, which nothing skips.  Both hypotheses on the people are
  needed: a retry requeues a failed optional step under its finished dependents.
* `TransitiveRequiresIsClosure`: `transitive_requires` gives the least set that is closed
  under `requires`, for cyclic definitions too.  `Reach` walks as many rounds as there are
  steps, and a round that adds nothing is the last.  Induction is over the set of good
  rounds (`Induction`, from the library's well-founded subset ordering), because the
  library's induction theorems take an operator.

### CreditLedger_proofs

Assumptions: `Prices` are positive, `PlanTypes` natural, `AdjustmentTypes` non-zero
integers.

* `CreditTypes` (`TypeOK`), `PoolsStayEqual` (`PoolsAddUp`), `LedgerExplains`
  (`LedgerChains`), `GrantedSpentFirst` (`GrantedFirst`), of `CustomerSpec`.  The
  induction is on `CustomerInv == Typed /\ Solvent(books)`, where `Solvent` joins the
  three: a debit keeps the purchased pool non-negative only because the balance it
  was checked against is the sum of the pools.
* `RefundsAreSingle` (`ListingRefundedOnce`), of `Spec`: the first look and the post of
  a listing's refund are under one lock, so an entry is appended only when there is
  none.  Adjustments may break `Solvent`, so this rests on `Typed` only.
* `ChargesAreSingle` (`AddonChargedOnce`), of `Spec`: the check is useless here, as it
  precedes the lock; the invariant is `RowPerCharge`, that every charged add-on of an
  existing listing has its purchase row, and rows disappear only with their listing.

`MovedFacts`, `PostedFacts`, `DebitFacts`, `CreditFacts` and `RenewedFacts` say what
the ledger's operators do; `BooksStep` classifies what any step may do to the books.

### Session_proofs

Assumptions: `None` is neither an account nor a step of the restoring effect
(`NoneAssumption`), the bounds are natural numbers.

* `SessionTypes` (`TypeOK`) and `TokenIsStored` (`BearerIsStored`): the client's token
  and the stored one only change together.
* `FormsAreFreed` (`NoFrozenForm`).  The property alone is not inductive: the end of one
  request of a form would free its button while another is under way.  `OneRequest`
  adds that a form on screen has at most one.
* `CalmAgrees` (`SessionAgrees`), with `CalmInv`: as long as operations came one after
  the other, the stored tokens are of one account, an exchange or a restored profile is
  for it, at most one sign-in is under way, and it has replaced the token exactly when
  it is waiting for its profile.

* `BlankPageIsLeft` (`BlankIsLeft`): on a blank page the login page, or another public one,
  has been asked for, unless another navigation has overtaken the redirect.  `SentToLogin`,
  that the page is then left, adds the router's fairness and is model-checked.

### Wizard_proofs, Forms_proofs

Assumptions: `FormsAssumption` (the limits are natural numbers, and `None` is not the
number of a listing), `KeptAssumption` and `ToldAssumption` (nor is it a draft, a kit, a
demo, a social account, a status or an answer).  One form is on screen for ever, so `FormsInv` has a part for each
form that these theorems are about.

* `ConfirmedHavePhotos` (`ConfirmedPhotos`): what a confirmation names are photos of its
  listing, and the listing has one unless step 1's Next was pressed again while the step was
  leaving (`hasty`); so the server's checks refuse nobody who took the steps in order.  The
  form is not what the server holds: photos are
  registered file by file, a closure holds the photos of an older render, and an import
  that answers late may empty the list.  `GroundedInv` therefore speaks of the server: past
  the step of the photos, in the draft too, the listing has photos, and at every step the
  photos a form shows are photos of its own listing; an upload and an import name the
  form's listing, a confirmation one that has photos, and what they captured of it is
  there (`Grounded`, `GroundedRequests`); the same holds of what a leaving step still shows,
  if it is of the form's listing (`GroundedLeaving`); while a listing is being created
  nothing else is under way, and a page that went has no request but its confirmations
  (`CreatingOrGone`).  It needs the types and `DraftNamed`: a saved draft names its listing.
* `PhotosStayWithRows` (`PhotosFollowRows`).  On the upload form a batch's rows are the
  first rows of the form: files may be dropped while it runs, at the end, and rows are
  removed only while it does not.  `UploadInv` adds that a form has at most one batch, and
  spins with it (`BatchesOfForm`); what a batch sent is in storage.  In a demo, the run
  counts the rows it has been over (`RowsOfBatch`), and a row before that is done only
  when its photo is stored.
* `SpinnersEnd` (`NeverFrozen`): the upload form from the same invariant; the Confirm
  button with `OneConfirm`, without which the end of one confirmation would free the button
  of another; the team page's is inductive as it stands.

* `UntouchedStays` (`UntouchedIsKept`).  A confirmation in flight is of the listing of the
  draft, or of one already started, and only the one that started a listing forgets the
  draft (`DraftInv`).  A save of a tenant's form sends the plan it shows: `PlanInv` says
  which saves still carry a plan the form read and nobody changed since.  The proof failed
  at two overlapping saves: the first one answered is a change the second did not see.
  `update_tenant` now says so to the history (`Overtaken`).  A save of the kit sends what
  was loaded or typed, and what was loaded is what the server has (`KitInv`).
* `ActsAreOnShown` (`ActsOnShown`), where every listing costs 15 credits, as the wizard's
  price list has it; the violation above is what happens elsewhere, so the hypothesis
  is needed.  The wizard sends what it shows and the server prices it by the same table
  (`AddonsPrice`, `OfferInv`).  The support page writes to the ticket selected and shows
  the thread that arrived last: until loads overlap or one fails there is at most one, for
  the ticket selected, and no reply is sent while it is under way (`ThreadInv`).  What is
  recorded for a post was ticked: a call adds its own tick to what it read (`TickInv`).
* `ToldStaysTrue` (`ToldIsTrue`).  A demo: the clean-up starts only on what nobody can
  claim, a claim that found it open is the only one that did, and what is there has
  its photos in storage (`ClaimInv`).  A social account: a save deletes and creates in two
  calls, and once a save was told no call of its platform that writes is left (`SaveInv`).
  A tick: a call alone on its event has read what is stored (`TickInv`).  A ticket: between
  the server's look at it and its commit only an agent changes it, which the flag `raced`
  records (`ReplyInv`).

Sequences are what the first proofs turn on, and a few lemmas each say what an operator does
to one: `UploadAppend`, `UploadRemoveAt`, `UploadStarts`, `DemoMarked`, `WizRank`.

### Types_proofs, Shown_proofs

Assumptions: those of `Forms_proofs`; `ShownAssumption`: no more rows are drawn on the
dashboard than pipelines are read (3 and 5, `dashboard/page.tsx`), the size of a page of the
audit log is a number, `None` is not a number, a state, a tenant or a request's state, and the
keys of the kit that the page does not know are no picture; and `BoundsAssumption`: prices,
balances and the bounds of the runs are natural numbers, and there are finitely many platforms
and events.

* `RestIsShown` (`ShownIsStored`): a form at rest shows what the
  server has.  The property speaks only of states in which nothing is under way, so the
  invariant says what is under way and what it carries: of the list of people, the access
  list and the social accounts one request at most, whose answer is what is stored
  (`TeamInv`, `AccessInv`, `ShownInv`); of the shared listings, that what was read since the
  tab was opened is not older than the opening (`VisitInv`); of a deletion, that it was
  told to its card or will be (`CardInv`); of a balance, that it is asked for the tenant
  selected, and that what is not asked for again is shown as it is (`BalanceInv`); of the
  kit, that a save under way carries the form (`SavedInv`).
  A change of access is the one that loads nothing again: it is patched into the page, and
  `TeamInv` excepts the person between the revocation and the new grant.
  The dashboard asks for pipelines by the number of a listing in a list and gets them back
  by that number: `RankOne` and `RankOnto` (the numbers are a bijection) are why the i-th
  answer is of the i-th row, though the rows drawn are cut from another list (`BarsInv`).
  The audit log grows at any place while its pages are read by offset.  `LogInv` says that
  the rows a filter has are only pushed down (`RowsMove`), so a request that goes on where the
  list ends skips none of those that were there: one that has its place within the list is in
  it, and so is every one above one that is.  `AuditTab` therefore counts rows (`Place`, `Nth`)
  where the code filters, orders and cuts: a sequence defined by recursion could not be
  reasoned about, and `Places` shows that the n-th row of a filter exists and is the only one.
* `FormsWellTyped` (`TypeOK` of `MC_Forms`).  The types bound what a page has asked for, and
  most are not inductive: the answer to one request sends another.  Beside each type stands an
  invariant that counts what is under way.  The administrator's tab: each adjustment under way
  will add credits once and ask for two reads more, each save one (`AdminAsked`).  The
  social accounts: an id is used up by a handler that may still create, and a handler runs
  under a number of its own (`AccountsNumbered`, `AccountIds`).  The brand kit: what was
  saved, with the save under way, is no more than what was asked (`SavesCounted`).  The audit log: a page at
  most in the list for every read answered (`PagesCounted`).  The posts: an event is announced once (`EventsOnce`), so the list of
  announcements is no longer than there are events (`NoRepetition`).  What the wizard sells:
  the price of a set of add-ons is a number (`PriceOfAddons`), and a balance is charged only
  what it holds.

### Pages_proofs

Assumptions: `PagesAssumption` (finitely many photos, of which no arrangement is `None`) and
`BoundsAssumption` (the bounds are natural numbers, positive where a page starts with one of
what they count; finitely many address fields).
`PagesInv` has a part for each component.

* `OrderIsShown` (`OrderShown`): `OrderInv` follows a swap.  Unless a drop overlapped
  another request or a reload failed, at most one swap is under way and nothing with it; it
  is shown and to be stored, or stored, or refused and to be loaded again; every order
  loaded is the one stored.  `SwappedIsOrder`: a swap permutes, no photo is lost or doubled.
* `ChatKeepsOrder` (`ChatInOrder`): while an answer is streamed the last message is its
  question or the answer so far, unless the chat was cleared (`EndIsOfStream`), so that
  what overwrites the last message overwrites an answer to the same question.
* `FieldsStayUsable` (`FieldsUsable`): an import that closes gives its button back or is of
  an earlier form (`LinkPut`); the script is on the page exactly while it loads; what a
  lookup captured is still what was typed, or something was typed since.
* `ListGoesForward` (`StepsGoForward`): a run of the effect that starts while the stream is
  up reads once, so an answer that is still to be shown saw at least what is shown.  With
  two reads in one run (polls, stream down) this fails, and the property says so.
* `PagesWellTyped` (`TypeOK` of `MC_Pages`), with `PagesTypes`.  What the types lack to be
  inductive: the stream of a listing has fewer errors than attempts until it gives up
  (`ErrorsCounted`); a poll of the bell returns notifications that existed when it was sent
  (`PollsOfThen`); a question has at most three messages, its own, an answer and the error
  after it, and the answer being streamed says how many are still to come
  (`ThreeToAQuestion`).

## Only model-checked, not modelled

Only model-checked: liveness (`RunningEnds`, `ProcessingEnds`, `CompletesOrFails`,
`LoadingEnds`, `SentToLogin`, `CatchesUp`, `SettlesDown`), which needs fairness and
ENABLED; the facts of the real
21-step pipeline, which TLC evaluates.  Every invariant and every action property of the
passing runs is stated by a theorem.

Not modelled: what agents and providers compute; mail, storage, filters, language
models; content columns; the server's side of accounts (lockout, reset), rate limits,
the outbox; of the browser the pages that read once and show (analytics,
billing, health, static pages), types and styling, the administrator's overview, users
and listings tabs, downloads and image edits of the listing's page, and
`CreateListingDialog`, which nothing opens.

## Plan

Done: 1. `PipelineDefinition`, `ListingPipeline`; 2. `PipelineJobs`,
`ReviewedPublishing`; 3. `PipelineJobs_proofs`;
4. `CreditLedger` and its proofs;
the browser: `Session` and its proofs, the wizard, uploads and import, the pages that
follow the server, the forms, and the proofs about them.

To do, in this order:

5. `ListingBilling`: `PipelineJobs` and `CreditLedger` composed, with the listing's
   row lock and the account's as state.  Deletion, removal and the bundle against the
   rows; the lock order of `activate_addon`; what a customer pays for a listing that
   is cancelled, reappears and is delivered.  Abstract specification: a listing is
   paid for or refunded, never both at delivery.
6. `ClaimWindow`: several listings, the 500-row window, parked rows; starvation.
7. `Outbox`: emit with the transaction, poll, deliver, mark; abstract specification:
   every committed event is delivered at least once.
8. `RateLimiter`, `Accounts` (lockout, refresh, logout, invitations, composed with
   `Session`), `ListingPermissions`, `ListingCreation`, the import's job, OAuth tokens.
9. Pure algorithms against reference definitions: packaging's selection and order,
   back-off, weights, plan limits, health score.

Proofs to add: the outbox's and the account's abstract
specifications; the composed invariant of `ListingBilling`.
