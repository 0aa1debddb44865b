# A verification project for agentbroker

agentbroker is a Python (FastAPI) service that lets AI agents reach small
businesses: an agent calls a tool over MCP, the server checks compliance, takes
payment, sends a message or books an appointment, and later attributes the
business's reply to the request it answers. Its state lives in process memory
and in Supabase (PostgREST over PostgreSQL); a Celery worker, a Polar billing
webhook, a WhatsApp webhook and a Cloudflare edge worker share that database.

This directory holds TLA+ models of the parts in which several requests,
processes and unreliable calls meet, TLC configurations that check them on small
instances, and proofs for every instance (TLAPS). Paths below are relative to
`src/`.

Contents: [components](#components) | [modules](#modules) | [runs](#runs) |
[bounds](#bounds) | [fairness](#fairness) | [proofs](#proofs) |
[disagreements](#where-code-and-documentation-disagree) |
[not modelled](#what-is-not-modelled) | [plan](#plan)

## Components

| component | state it keeps | operations | talks to |
|---|---|---|---|
| Idempotency gate and store: `agent_interface/idempotency_gate.py`, `storage/idempotency_store.py` | one in-memory record per (scope, tool, key): absent, pending, complete, with a 24 h TTL; a row of `idempotency_keys`: pending, released, complete | `reserve`, `complete`, `release` in memory; `_durable_lookup`, `_durable_claim`, `_durable_resolve` on the table; `claim` and the two resolutions that combine them | called by `_h_tools_call` around every write tool |
| Tool dispatch: `agent_interface/mcp_server.py` | none of its own | `_h_tools_call` (gate), `_h_tools_call_impl` (quota, x402, credits, dispatch) | every component below |
| Credit ledger: `migrations/credits_billing.sql` | `credit_accounts` (balance, granted, spent), `credit_ledger` (hold, commit, refund, grant), unique per (type, ref) | `credit_reserve`, `credit_commit`, `credit_release`, `credit_grant`, each one transaction | called by RPC from `billing/credits.py` and the Polar webhook |
| Metered tool runs: `billing/credits.py` | none in memory | `run_metered_tool`: grandfather grant, reserve, run the tool, commit or release, receipt | ledger; the tool |
| x402 rail: `billing/x402_gate.py` | payments at the facilitator | `run_paid_tool`: verify, run the tool, settle | dispatch; the facilitator |
| Data quota: `billing/data_quota.py` | `anon_data_quota`, one counter per address and day | check and count | dispatch |
| Polar webhook: `billing/polar_webhook.py` | `polar_order_events`, `ungranted_orders` | grant, escalate, mint, e-mail, revoke | ledger, identity |
| Identity: `agent_interface/identity.py` | tokens (stateless), sets of revoked tokens and customers in memory and in a table | issue, validate, revoke, hydrate | dispatch, Polar webhook |
| Free keys: `agent_interface/key_requests.py`, `key_request_logic.py` | `pending_keys`, counters in memory | request, verify, consume, machine mint | identity |
| Conversation threads: `core/conversations.py` | `conversations` (number, reference, state, expiry), `conversation_messages` | open, record outbound and inbound, set state, the four layers of correlation | sender, intake |
| Number pool: `core/number_pool.py` | the configured pool | `allocate`, by live threads per number | threads |
| WhatsApp intake: `agent_interface/whatsapp_webhook.py` | `whatsapp_inbound` | deduplicate, store, STOP words, correlate, resolve, digest replies | threads, demand queue, consent |
| Message sending: `core/send_message.py`, `channels/` | none | compliance, shaping, allocate, open, send, record, receipts | threads, demand queue, providers |
| Bookings: `core/schedule_appointment.py`, `channels/direct_api/calcom.py`, `reliability/async_runner.py` | none of their own | book, cancel, list slots, queue a job to the worker | Cal.com, outcome store, ownership |
| Outcome store: `storage/outcome_store.py` | records in memory, rows upserted fire-and-forget | set pending, executing, complete; get; owner of an appointment | bookings, status tools |
| Compliance gate: `compliance/pre_check.py`, `consent_store.py` | consents and opt-outs in memory, mirrored and hydrated | ordered checks, opt-out | sender, bookings, unsubscribe |
| Unsubscribe: `agent_interface/unsubscribe.py` | `opt_out_registry` | one-click and confirmed opt-out by a signed link | consent |
| Demand queue: `core/demand_queue.py`, `core/demand_shaping.py` | `demand_queue`, `demand_digests` | enqueue, expire, dispatch a digest, sweep, resolve a reply | sender, intake, consent |
| Sanctions screening: `core/screen_sanctions.py`, `scripts/refresh_sanctions_lists.py` | `sanctions_names` (EU and UK index); in memory, the two OFAC files, the marks of old copies, the age of each index | refresh (download, upsert, sweep); screen (fetch, score, look up, merge, judge) | the publishers, quota |
| Trade restriction verdicts: `core/map_trade_restriction.py` | none | screen each party, weigh the destination | screening |
| Circuit breaker and fallback: `reliability/` | one breaker per channel | is available, record success or failure | no request path |
| Webhook delivery: `reliability/webhook_delivery.py` | subscribers | deliver, retry | outcome store |
| Edge worker: `edge/src/` | rate-limit buckets, cache | limit, cache, proxy, x402 | server |

What is hard in them: every `await` is a place where another request of the
same process runs; Supabase helpers return `None` or `[]` for a failure, so a
failure looks like an absent row; writes to the database are abandoned after a
timeout and may land later; the process restarts with empty memory; webhooks are
delivered more than once. `PROJECT.json` lists the hazards at their lines, and
the property that watches each.

What makes each correct: the gate must have at most one effect per key, charge
it once and answer truthfully; the ledger must explain every balance, and a
receipt must say what the ledger did; nobody is refused data before the
advertised limit; a paid order is granted or a person is told, and a refunded
customer is refused; who is told that a key was issued has one; a reply must
reach the thread it answers or none, and once; a receipt of a booking is true of
the calendar, its record survives, only its owner cancels it and no call books
twice; a confirmed stop outlives restarts; a queued request is decided only by
an answer to its own number, and leaves the queue only if the business saw
it; a screen that clears a party, or names one, is true of the lists as they
were no longer ago than the advertised limit.

## Modules

### IdempotencyGate

One (scope, tool, key) triple; triples share nothing. `mem[p]` is the record of
the triple in process `p`, `rows` the triple's rows in the table, `late` the
durable writes whose caller timed out. A call walks

    Call -> LookupRead -> ReplayDurable | RefuseDurable | FallThrough
         -> DurableClaim -> Perform | Release -> Complete -> DurableResolve

and each arrow is an `await` of `claim()`, of the tool or of the resolution; the
code between two awaits is one step (asyncio runs it without interruption).
`reserve()` has no await, so check-and-set is part of `Call`. `Crash` empties
`mem[p]` and loses the calls of `p`; `Expire` is the TTL of a completed record.
A pending record does not expire in the model: the TTL is 24 h from the claim,
and the request that owns it is bounded by timeouts of seconds.

Flags select the environment: `UniqueIndex` (is the migration of
`idempotency_keys_claim_status.sql` applied), `Lossy` (may a durable request
fail, or land after its timeout), `MayFail`, `MemoryExpires`. Rows are a set:
equal rows cannot be told apart by a select with `limit=1` or a PATCH by key.
`effects` is a history variable, the runs whose side effect took place.

`MayFail` failures have no effect. Errors that x402 answers after an effect are in
`ToolsCall`; a tool that has its effect and then raises is in neither.

### RetryContract

The abstract specification: what a key promises to clients that retry with it.
At most one effect stands (`TakeEffect`), it is charged once (`Charge`), a
charge that could not be confirmed is given back for good (`GiveBack`), an
effect that was never paid for and of which nobody was told, because its call was
answered with an error, is written off and may be repeated (`WriteOff`), and clients are told the result of the effect or nothing (`Tell`).
`IdempotencyGate` and `ToolsCall` both implement it (`KeepsContract`); the gate
alone leaves `billed` empty and `paid` at 0.

### CreditLedger and MeteredTool

`CreditLedger` is the account row, the ledger rows and the four SQL functions as
actions with the reply as a parameter; a function locks the account row, so it
is one step. Its abstraction is one account. `MeteredTool` extends it with
`run_metered_tool`: each RPC is a request put into `net` and served at any later
time, or never (`Lossy`); the caller may see an exception in each of these
cases, which is what `rpc()` gives it. A grant that repeats (two first calls;
the webhook's order) is the SQL function's upsert followed by its own reversal,
one transaction. The hold id of a call is the call.

`Charge` reads a call's entries by type, of which the unique indexes of
`credit_ledger` allow one each. `confirmed[c]` says whether the receipt carries
a balance; the code does so when the reply it read was `ok`, or when the
reservation was refused. A tool fails in two ways: its receipt is an error
(`ToolFails`, `FailedAnswered`), or it raises (`ToolRaises`, `RaisedAnswered`,
`credits.py:338-347`), and then the caller gets the exception and no receipt. On
both ways the release is asked for and may fail.

### ToolsCall

The handler as a whole: `IdempotencyGate` around the rail around the tool. It
extends `MeteredTool`, whose `Calls` are the runs of the tool here (so `pc[r]` and
`verdict[r]` are about run `r`), and has an instance `G` of the gate, whose clients
are `Clients` and whose phases are `stage`. `Start` is the claim and
the choice of the rail (credits, x402, or neither); `Meter` the steps of
`run_metered_tool`; `Perform` the effect, on the credits rail only under a
confirmed hold; `Settle` the x402 settlement; `Complete` and `Release` the gate's
resolutions after the rail answered.

The handler has two tests of a receipt, and they differ. `ReceiptIsError` is
`_receipt_is_error` (`x402_gate.py:66-97`), by which both rails decide about the
money: it counts pending_async, partial and unknown as errors. `IsError` is the
response's isError, by which the gate decides about the key: over x402 it is
that same test, over credits and the free quota it is the status failure alone
(`mcp_server.py:1040-1046, 1112-1117`). `unresolved` are the runs whose receipt
leaves open what came of them; they count as effects whatever the provider did.
So on the credits rail an open outcome gives its hold back and completes the
key, and is replayed; over x402 it is answered with an error, and
`ReleaseUnsettled` frees the key, as it does when the settlement fails after the
tool ran and the SDK answers with an error of its own.

One process that stays up. Both tables may be lossy at once, which
neither component's own run can show.

### PolarOrders

Orders, subscriptions, their events and two endpoints' requests. A subscription
and its order have ids of their own; each goes by its own id (`Orders`,
`Subscriptions`). `MeansPaid` is the code's check (`polar_webhook.py:341-347`): only
an order.created that says it is not paid is skipped, so subscription.created and an
order.created without a status grant whether or not money came; no property
here says that credits follow a payment. `Deliver` is a webhook request up to
its first await, `Redeliver` an unanswered event again; a handler walks
check, mark, grant, record, mail, or persist for a refund, and each is an
`await`. A grant is tried `MaxAttempts` times and then escalated. `Validate`
hydrates the revoked customers at the first validation after a start; a late
grant lands or never does. Histories: `refundTold`, `abandoned`.

### FreeKeys, DataQuota

`FreeKeys`: the pending row of an address, the links mailed to it, and clicks
that look the row up, delete it and mint, each an await. Tokens are a function
of the address, so two mints give the same key; what can go wrong is to be told
"already used" with no key. `DataQuota`: the counter's select and write, by
calls that overlap, with the 2.5 s of the call site (`GiveUp`); the history
`allowed` counts what was let through, `disturbed` the days with an overlap or a
failed request.

### Conversations

A thread is a send: `Allocate, Open, SendSucceeds | SendFails | SendRefused,
LogOutbound, MarkAwaiting | MarkUnsent`, then `Expire`. A handler is a webhook
request: `Receive, Store, MatchTap, MatchRefs, ReadOpen, MatchPair, Resolve`.
The two selects of `live_threads_for_pair` are two steps, and their results are
used after them. `Select` is `select_rows`: it returns at most `Window` rows
(the code has 25 and 200), in no given order; `Candidates` is the list with the
sentinel that the code adds when a window was full. What is counted is the
number of candidates, as the code does. `Allocate` reads the up to two selects of each
number in one step, while they drift; no property depends on its choice.

Abstracted: the 13 words that make a reply clear are the Boolean `clear`; a
reference token is a model value, so two threads may share one (the code does
not check either); confirmed and closed are one state `resolved`. `SetState` is
an upsert: on a thread whose row was never written it creates a row that no
lookup finds, which the model keeps as `none`.

`Posted` holds an assumption on the provider: a message is not posted again
within the time limits (seconds) of the two table requests that deduplicate and
store it. receive() handles the messages of one post one after another
(`whatsapp_webhook.py:285-298`), so the assumption includes that no message of a
batch waits for its deduplication until the next post. Without it a handler can pass the deduplication twice; the code has no
unique constraint to stop it, and the model does not claim that it does.

### Bookings

`call[c]` walks idle, inquire, book or owner, cancel, store, answered; the
provider's `calendar` is its own state, so a timeout leaves the caller in doubt
while the booking is there, is not, or comes later (`late`). `memory` and `row`
are the two copies of an operation's record; `upserts` are the fire-and-forget
writes, which nothing orders. The worker is another process: it books whatever
the request's action was, tries again on every failure but an open outcome, and
its results reach neither copy, because `set_complete` looks for a running loop
that a Celery task has not. `BookSlot` lists what the provider may answer and
what it then holds. All refusals given before the provider is asked are one
reason, `refused`. An enqueue that raised is taken for one that never reached the
broker, although `.delay` may raise after the broker took the job
(`schedule_appointment.py:889-903`); the receipt then says failed, and the job runs.

### OptOuts, DemandQueue

`OptOuts`: addresses of persons (a number with and without its plus is two), the
opt-outs in memory and in the table, stops from the intake and from links, sends
that read memory, restarts and the paged hydration, which may fail part of the
way (`partly`). `DemandQueue`: requests, dispatches that expire, read, send,
record and mark, one await at a time, cut off at any point; replies that find
the newest open digest, read its items and decide them one by one. What the
provider accepts (HTTP 200, `cloud_api.py`) counts as received by the business: the code
ignores the statuses of failed deliveries that come later. Requests are
numbered in the order in which they come, so a list of rows "oldest first" is a
set of numbers: `Oldest` is its head, `Slice` its first `DigestMax` members, and
`Number` the position at which the business saw one. A reply is the set of its
pairs of number and verdict (it may contradict itself), and `Numbered` says that
a row that was not found leaves a hole and shifts nobody.

### SanctionsIndex, OfacFiles, NameMatch, TradeRestriction

Three sides of one screen, and the tool that asks for several. `SanctionsIndex` is the EU or the UK list: the
publisher lists and delists, the job refreshes (`Begin, Download, Upsert |
UpsertFails, Sweep`, killed anywhere by `JobDies`), and a screen asks for the
age, the exact name and a probe (`Start, ListRefreshedAt, Exact, Probe`), each an
await. Rows carry the run that stamped them; `began` has the day of a run. The
two counts and the delete of a sweep are one step, since only the job writes.
`changed` and `torn` are histories: the day a party's status last changed, and
the parties a refresh stopped short of.

`OfacFiles` is the cache of the Treasury's two files. A fetch remembers the copy
and the time before its await, and uses both after it (`held`, `now`); `marked` is
`_stale_ages`, shared by all screens. A copy knows the time of its content
(`asOf`), a history that the properties compare.

`NameMatch` is the pure part: one step from a name, the lists and what was
reachable (`got`) to the answer, over every name and every list of the bound. A
name is the set of its words, because the code compares sets; `Comparable` and
`Overlap` are the score, `Kept` and `Asserts` the two filters after the merge. Of
two rows with the same words, the one whose name repeats a word has another key
(`_rows_for` sorts the words, the lookup sorts their set): `repeats`.

`TradeRestriction` instantiates `NameMatch` once per party (`Screening(p)`): each
screen reaches its own part of the lists, or raises, and `Answer` puts matches,
gaps and the kind of the destination together.

### Composition

`MeteredTool` extends `CreditLedger`; `ToolsCall` extends `MeteredTool` and
composes it with an instance of `IdempotencyGate`: a step of the handler is one of
the gate, of the billing, or of both at once. The number pool, the sender's thread handling and the intake
are composed in `Conversations`, because they share the `conversations` rows.
`Services` (PolarOrders, FreeKeys, DataQuota, SanctionsIndex, OfacFiles,
NameMatch, TradeRestriction) and `Business` (Bookings,
OptOuts, DemandQueue) are not compositions in that sense: their parts share
no state in the code, so a behaviour explores each part alone, which one being
chosen at the start (`active`). Interleaving them would multiply states and show
nothing. Their constants are declared there, with the assumptions of all their
parts (`ServicesAssumption`, `BusinessAssumption`); `MCServices` and `MCBusiness`
add the values and symmetries that TLC uses.

## Runs

| run | shows |
|---|---|
| `gate` | One process, three clients, two argument objects, up to three runs, in one of two worlds chosen at the start (`MCIdempotencyGate`). In the first, two restarts, TTL expiry, durable requests that arrive, a tool that does not fail: table and memory together keep the contract across crashes. In the second, an outage: the process stays up, every durable request may fail or land late, no unique index, a failing tool: the memory claim alone keeps it. In both: an exclusive claim (`OneHolderPerProcess`), one effect per key (`AtMostOneEffect`), answers true of the world (`AnswersAreTrue`), a claim is settled unless its process dies (`ClaimsSettle`), and all of it together as the refinement of `RetryContract` (`KeepsContract`). |
| `gate_reclaim_crash` | violation: one failed attempt, then a crash, gives two effects. |
| `metered_lossy` | Two calls on an account that cannot pay for both, a paid order delivered any number of times, one crash, every RPC lost, late or unanswered: the ledger explains the balance, receipts that show a balance show the true charge, no call costs more than its ceiling, no tool runs without held credits; once a call is answered, by a receipt or by an exception, its hold is committed, refunded or asked back (`NoHoldForgotten`), and every hold comes to that (`HoldsSettle`). Both except the hold of a reservation that was never confirmed, and `HoldsSettle` that of a dead process: those stay open, as does one whose release is never served. |
| `metered_released` | violation: commit served, reply lost, release answered `ok`: the receipt says released, the ledger kept the cost. |
| `tools_call` | Gate, rail and tool together, any rail per attempt, both tables lossy: `KeepsContract` (one effect, one charge, true answers) and `FailuresAreFree` (who is told of a failure settled nothing and is charged nothing, or the release is on its way, or the reservation was never confirmed; and had no effect, unless x402 answered for it). |
| `tools_unresolved` | violation: with nothing lost, one client over x402: a run takes its effect, its receipt leaves the outcome open, the call is answered with an error, the key released, and the retry has a second effect. |
| `services` | Polar: a marked order is granted, or a person was told, or its handler is at it or died (`NoOrderForgotten`); an answered refund holds (`RefundTakesAccess`). Free keys: "already used" is true (`RefusalsAreTrue`). Quota: no early refusal (`RefusalsAreDue`), no excess when undisturbed (`QuotaHolds`). Screening: an index is not believed past its limit, whatever fails (`CleanIsCurrent`, `HitsAreCurrent`); nor is an OFAC copy (`CopiesAreCurrent`), and who is told "fetched fresh" has no old copy unless another call took its mark away (`AgeIsTold`); clean means that every list was asked and none has the name (`CleanMeansUnlisted`), a hit names somebody who is listed under exactly these words (`HitsAreExact`); the verdict on a shipment counts no party as screened whose lists were not asked, hides no listed party and accuses none (`VerdictIsTrue`). |
| `business` | Bookings: receipts say what the calendar holds (`ReceiptsAreTrue`), awaited outcomes are in the table or were logged (`OutcomesSurvive`), only owners cancel (`OnlyOwnersCancel`), one booking per call short of a redelivered job (`BookedOnce`). Opt-outs: a confirmed stop holds (`StopsHold`). Queue: `OnlyTheSeenLeave`, `NumbersHold`. |
| `booking_dropped` | violation: the connection breaks after the request got through: the receipt says that nothing was booked, the calendar has it. |
| `stop_ignored` | violation: a stop by the number without its plus does not stop sends to the number with it. |
| `conv_replies` | Three sends over two numbers with a window of two rows, one message delivered twice, tables that answer: a reply is attributed to the thread it answers or names, as long as that is live (`NeverGuesses`), and once (`AttributedOnce`). |
| `conv_stranger` | violation: a reply that taps on the message of a thread no longer live goes to another end user's thread. |

### Bounds

- Gate: `MaxRuns` stops new calls once the tool was started three times; the
  hazards need two runs, the third lets a late write of the first meet the
  resolution of the second. `MaxCrashes = 2` lets a crash hit the recovery from
  a crash. Three calls: a holder, one refused, one that replays. No symmetry:
  the run checks liveness.
- Metered tool: one hold per call, so two calls have every interleaving of two
  holds; balance 3 with holds of 2 lets exactly one call through until a refund
  or the order comes; costs 1 and 3 are below and above the ceiling.
- tools/call: two calls and two runs, one argument object (replay under other
  arguments is the gate's own run): the second run is the retry after each way
  the first can fail. Price 2, holds of 2, costs 1 and 3. `tools_unresolved` needs
  one client that retries and no loss.
- Services: an order and a subscription of one customer, the subscription of a product
  that maps to no credits, two requests under way at once, two attempts at a grant, one crash.
  One address with two links and two clicks, one restart; `StoreMayFail` is off,
  because the code calls that store best effort and `RefusalsAreTrue` fails
  without it. Two overlapping callers, a limit of two, two days, three calls a
  day: the limit is passed by one call, once on each side of midnight.
- Business: two calls, one of which may name a business without Cal.com, two
  agents and the anonymous one, two tries, one crash; `MayDrop` is off (see
  `booking_dropped`). Three addresses of two persons, two stops, two sends,
  pages of one row, one restart. Three requests, two dispatches, one reply, a
  digest of two: the third request is the one that can slip into a number.
- Screening, in the same run: two parties, one screen (screens share only the
  remembered age, which may lapse at any time), a limit of one day over four
  days, two runs of the refresh, a feed trusted from half of the index. Two
  lookups, time to live and limit of two ticks, three ticks. Four words, one of
  them generic and one short, one OFAC match kept and one longer name per page,
  so that both are cut off; OFAC files of one or two entities with up to two
  names, an index of up to two rows. A shipment with up to two of three parties, a
  findable name, a short one and one without a Latin word, and a third that is
  too many.
- Conversations: a guess between live threads needs two; the third is the one
  that allocation or a full window hides. One message with two handlers is a
  redelivery. `Window = 2` makes a full window with two rows reachable.
  Two reference tokens let threads share one.

In the run `services` one set of two interchangeable values stands for webhook
requests, parties and lookups, in `business` for agents, stops, sends and
dispatches: only one part moves in a behaviour, so the permutations of
the set are symmetries of each part. No symmetry is used in runs with a liveness
property.

### Fairness

Gate: `FairSpec`, and `GateSpec` in either of its worlds, is weak fairness of the
steps a process owes to a request under way. Every `await` of `claim` and of the resolution has a timeout
(`_SB_TIMEOUT_S`) and a tool returns or raises; a crash disables the steps and
is no debt. Nothing is assumed of clients, late writes or expiry.

Metered tool: weak fairness of each call's steps (`rpc()` has a timeout). The
database owes nothing: a request may stay in `net` for ever, which with `Lossy`
is a lost request.

The other modules state safety only; their code promises no progress that a
timeout or a crash may not end.

## Proofs

Eight modules, each for any values of its constants under the named assumptions.
Every invariant was checked by TLC on the run's instance before it was proved.

`IdempotencyGateProofs` (any processes, clients, arguments, runs, crashes):

- `TypeCorrect`: `Spec => []TypeOK`.
- `OneHolder`: `Spec => []OneHolderPerProcess`, in every mode of the table. The
  property is inductive relative to `TypeOK`: the claim is taken in the same
  step as the check, and only its holder can resolve or drop it.
- `Truthful`: `Spec => []AnswersAreTrue`, in every mode. The invariant `TruthInv`
  says that every outcome stored anywhere (memory, rows, late writes, rows
  seen, answers) belongs to an effect that took place.
- `OnceOnly`: `Spec => []AtMostOneEffect` for one process whose durable requests
  arrive and whose tool does not fail. The invariant `OnceInv` says that once
  a run began there is a row, pending or complete, that a later call finds; and
  that a call between lookup and claim is the only one.
- `ContractKept`: the refinement, `Spec => KeepsContract`, under the same
  hypotheses: initial states map to initial states, and every step to a step of
  `RetryContract` or to a stutter. It rests on `SoleRun`: with `OnceInv`, a step
  that takes the effect is the first, and a result told is the one effect.
- `OnceInMemory` and `ContractKeptInMemory`: the same two for the other world of the
  run `gate`, one process that does not crash or expire its records, with the table
  failing, late or without its unique index and a tool that may fail. The
  invariant `MemoryInv` says where the one effect is held: by the call that
  performed it, then by memory, so that a call that may still perform finds none.

The run `gate_reclaim_crash` shows that, with crashes, `OnceOnly` needs a tool that
does not fail; two processes break it too (see below).

`MeteredToolProofs` (any number of calls, costs and crashes; `Lossy` is not
restricted):

- `TypeCorrect`: `Spec => []TypeOK`. The content is the balance: it stays in
  `Nat`, so no transaction fails on `CHECK (balance_credits >= 0)`.
- `ReceiptsMatch`, `ChargesBounded`, `ToolsArePaid`: the three safety
  properties of a call's charge.
- `NoneForgotten` (`NoHoldForgotten`): an answered call's hold is settled or asked back.

All five rest on one inductive invariant, `MeteredInv`, stated per call:
`EntriesInv` (what entries a call can have: a hold of `MaxHold`, a refund of all
of it or of what the committed cost leaves, a commit without a refund only if
the cost was the whole hold), `ProgressInv` (which requests may be under way and
which entries exist in each phase: this is where a late reserve, a commit whose
reply was lost and a release behind it are told apart), `ReceiptInv` (a call
whose receipt shows a balance has no request under way) and `HoldInv` (the
hold of an answered call). None of the properties
is inductive alone: a request in `net` could break each of them later.
The assumptions are those of the modules: natural prices and a positive grant.

- `BooksBalance`: `Spec => []LedgerExplainsBalance`, any number of entries. The sum is a
  fold, which takes its entries in an order of its own choosing, so the content
  of the proof is that the order does not matter. `Adds` says that one fold takes
  out one entry after another; `AddsUnique` shows, for a least set on which two
  orders would disagree (`LeastSet`, from the well-foundedness of the
  naturals and not from an induction theorem), that they agree; `TotalWith` and
  `TotalWithout` follow, and then each SQL function moves the balance by exactly
  what it appends (`BooksInv`), including the grant that repeats and undoes itself.

`ToolsCallProofs` (any clients, retries, arguments and runs, any prices, both tables
lossy or not):

- `RunsAreMetered`: `ToolsSpec => Spec`, where `Spec` is that of `MeteredTool`. The
  gate lets each run through the billing once and in order, so everything proved of
  metered calls holds of the runs of a key. It rests on `GateInv`: the claim is
  exclusive (`HolderInv`), and the number of a run is that of one client and within
  the bound (`RunsInv`).
- `ToolsTypeCorrect`: the type invariant of gate, billing and rails together.
- `NothingForFailures` (`FailuresAreFree`) from `FreeInv`: a run whose caller was told
  of a failure is over for the billing, settled nothing, and its effect, if any, is
  one that x402 answered with an error; nothing that other clients do comes back to
  it. That it was not committed comes from `BillInv` below, and what its hold then
  costs from the invariant of the metered tool.
- `ContractKept`: the refinement, `ToolsSpec => KeepsContract`, without hypotheses on
  either table. Effects that x402 answered with an error do not stand: they are
  written off, unpaid and untold, and the theorem lets a retry repeat them, which
  `tools_unresolved` shows. Three invariants carry it: `StandInv` (at most one effect stands, and
  either its performer holds the claim or memory has its outcome), `ToldInv` (every
  outcome in an answer, a row, a late write or a row seen is the one in memory,
  which never changes once it is there) and `BillInv` (only a run that took effect is
  committed or settled, each on its own rail). Then `BilledOnce`: the key has no
  charge, one commit or one settlement, in which case `Charged`, a sum over runs, has
  one term (`ChargedIs`); and a request served after the commit leaves the charge as
  it is or gives it back (`ServedCommitted`).

`ConversationsProofs` (any finite set of sends, any replies, webhook requests,
sender numbers, references and window):

- `TypeCorrect`, lossy tables included. `RefsInv` says that a delivered message
  carries a reference.
- `Once`: `AttributedOnce` with tables that answer. `OnceInv`: a webhook request
  past its deduplication is alone with its message, or the message is stored.
- `NoGuess`: `NeverGuesses` with tables that answer. A delivered thread is past
  `Open`, so it may leave the state `open` and never comes back to it; hence a
  thread that is live when the second select is answered was listed by the first
  or is listed by the second, or a window was full (`GuessInv`). With one
  candidate and no full window, the candidate is the thread answered
  (`OneCandidate`). The assumption `Lossy = FALSE` is needed: see below.

`ServicesProofs`, about the parts that `Services` puts next to each other.
Polar (any orders, customers, requests, attempts, crashes, lossy
or not): `PolarTypeCorrect`; `RefundsTakeAccess` from
`RefundInv` (a refund that is answered left its customer in the table's rows, or
reported, and memory that has hydrated holds the rows); `NoneIsForgotten`.
Free keys (any addresses, clicks, links, restarts): `KeysTypeCorrect`;
`RefusalsHold` from `KeyInv`: an address to which a
link was mailed and that has no row is settled, its key is there, or a click is
about to mint it, or the click that deleted the row died; and who looks past a
missing row, or was refused, is settled too. Its hypothesis
`StoreMayFail = FALSE` is needed: see "met while modelling" below.
Quota (finite callers, any limit, days, losses): `QuotaTypeCorrect`; `RefusalsAreJust`:
`Used` counts the calls let through and about to be; `NoOvercount` says that no
row, and no write on its way, holds more, which is what makes a late or
overwriting write harmless to the caller. `LimitHolds` (`QuotaHolds`) needs the
converse on undisturbed days: `HoldsInv` says that on such a day the row has exactly
the calls that were let through, at most one call is under way, and its write
is the next one.

`ScreeningProofs`, about the four modules of a screen:

- `CleanHolds` and `HitsHold` (`CleanIsCurrent`, `HitsAreCurrent`; any parties,
  screens, refreshes, days, percentages, lost requests). The idea is
  `SpeaksFor(d)`: every row belongs to a party that was listed on day d or later,
  and every party without one was off the list at some moment since, unless a
  refresh that stopped short missed it. `RowsInv` keeps it true of the
  oldest row through upserts that arrive, fail or are half done and through
  sweeps; `AgeInv` carries it into the process's cache and `ScreenInv`
  from there across the awaits of a screen, which may span days.
- `CopiesHold` and `AgeToldRight` (`CopiesAreCurrent`, `AgeIsTold`; any lookups, any
  times) from `FilesInv`: a copy's fetch time is never after the time of its
  content, and each copy that a lookup used was fresh when it began, or was not
  beyond the limit and is marked, or another lookup replaced it (which is what
  takes the mark away).
- `CleanIsUnlisted` and `HitsAreListed` (`CleanMeansUnlisted`, `HitsAreExact`; any words,
  lists, cuts and outages) from facts about the pure part: an exact match has the
  highest rank, so that neither the cut of the OFAC matches nor the page of the wider
  lookup can hide one.
- `VerdictHolds` (`VerdictIsTrue`; any number of parties) from `VerdictInv`, which says of
  each party's answer what the properties above say of one screen. The facts
  about the pure part are stated again for it, because `TradeRestriction` has
  an instance of `NameMatch` of its own, whose definitions the prover takes for others.
- `ServicesTypeCorrect`: the type invariant of the whole of `Services`.

`BookingsProofs` (any calls, agents, tries, crashes, `Lossy`):

- `TypeCorrect`, and `OwnersCancel` from `OwnerInv` (a record that confirms a
  booking, in memory, in a row or under way in an upsert, has the owner of the
  call that made it) and `NoNewRecord`.
- `OutcomesHold` (`OutcomesSurvive`) from `SavedInv`: from the awaited write on,
  every upsert of the operation that is still under way carries the receipt that
  its caller is told, so one that lands late changes nothing.
- `CallsBookOnce` (`BookedOnce`) from `UseInv`: the provider has, or will serve, no
  booking of a call but the one of its last attempt, and an attempt that may be
  followed by another left nothing there.
- `ReceiptsHold` (`ReceiptsAreTrue`) from `TruthInv` and `Forward` (the calendar never
  moves back: what a receipt claims stays so whoever else books, cancels or is late).
  The last two have the hypothesis `MayDrop = FALSE`: a connection that breaks after
  the request got through defeats both, which the run `booking_dropped` shows.

`BusinessProofs`, about opt-outs, the queue, and the three together:

- `StopTypeCorrect` and
  `StopsAreRespected` from `Remembered`: a confirmed stop is in the table, and in
  memory too unless a hydration was partial, which is logged; what was handled is
  in memory.
- `QueueTypeCorrect`, `TheSeenLeave` and `VerdictsReachTheirNumber` (`OnlyTheSeenLeave`,
  `NumbersHold`; any requests, dispatches, replies, sizes, lossy or not) from
  `QueueInv`: a digest on record was received; a received digest is never rendered
  anew (`SeenStays`); and whatever a reply is still to write has the number that
  the reply gave, in the digest that it is scored against. `RowsMove` is the action
  property behind both: how a row may change in one step.
- `BusinessTypeCorrect`: the type invariant of the whole of `Business`; each step of
  the composition is a step of one part that leaves the others alone
  (`BusinessParts`).

Only model-checked:

- liveness (`ClaimsSettle`, `HoldsSettle`), which is out of the prover's reach.

## Where code and documentation disagree

Each of these has a run and an entry under `findings` in `PROJECT.json`.

1. `claim()` after a released row does not make the row pending again; the
   docstring says it is durably reclaimed (`gate_reclaim_crash`).
2. `charged: 0` and "released" after a commit whose reply was lost
   (`metered_released`).
3. A tap on a dead thread's message falls through to a guess (`conv_stranger`).
4. A connection that broke after the request is taken for one that was never
   made (`booking_dropped`).
5. A stop by one spelling of a number does not hold for another
   (`stop_ignored`).
6. Over x402 a call whose outcome is open is answered with an error and its key
   released: a retry repeats the effect (`tools_unresolved`).

Met while modelling, without a run of their own:

- Gate. Two processes can both run the tool: the unique index rejects the second
  claim, but the rejection is swallowed (`idempotency_gate.py:99`); the
  migration says that the constraint closes the gap. A pending row of a crashed
  attempt is never released or expired, while `mcp_server.py:836-849` tells the
  caller to retry until it is.
  When a durable `released` of a failed attempt is delayed, it may land after
  the completion of the attempt that followed, and turns the complete row into
  a released one (`idempotency_gate.py:170`): memory still has the result, but
  after a restart the tool runs again.
- Dispatch. When the x402 settlement fails after the tool ran, the key is
  released, so a retry repeats the effect (`mcp_server.py:774-786`).
- Credits. Three holds stay open: of a reservation that was applied and not heard
  (`credits.py:315`), of a process that died, and of a release that failed. On the
  raise path only the log tells of the last (`credits.py:341-346`); on the other
  the receipt's note denies any charge (:451-452).
- Polar. An order is marked processed before its credits are granted: if the
  process dies in between, nobody grants them (`polar_webhook.py:280-281,
  380-382`; the history `abandoned`). subscription.created, subscription.active and an
  order.created without a status are granted with no look at a payment (:176, :345),
  although :341-342 is about guarding "an order for a $0 / unpaid status". A
  purchase whose subscription and order both send events has two ids, and is
  credited under each, while :348-352 takes the order id for what is "invariant
  across duplicate deliveries". A refund of one order revokes its
  customer, other paid orders or not.
- Free keys. With a store that failed (`StoreMayFail`), a first click is told
  that the key was issued before.
- Conversations. `record_outbound` reopens a resolved thread
  (`conversations.py:228`). `number_pool.py:87-91` says a thread is marked
  contested when the ledger cannot be read, but a failed select reads as no
  rows. `send_message.py:343-356` returns on a refused message without marking
  the thread unsent, as :364-369 does for a failed one. With `Lossy`, one failed
  select of `live_threads_for_pair` makes `NeverGuesses` fail.
- Bookings. `async_runner.py:2-3` says that every job has a terminal state; the
  result of a job reaches neither the table nor the server's memory, which
  answers "pending" for ever, and no webhook. The worker books whatever action
  was asked. A job redelivered after a crash books again. A booking made
  without an identity can be cancelled by nobody. Two upserts of one operation
  may land in either order.
- Demand queue. A failed insert is answered with "queued" (`demand_queue.py:91`,
  `send_message.py:187-189`). A reply that overtakes the record of its digest,
  or whose record was lost, is scored against the older digest
  (`demand_queue.py:255-257`). The sweep and the webhook can show the same
  requests twice, and a late mark puts an accepted request back to dispatched.
- Opt-outs. A hydration that fails, or is longer than its limit of rows, runs
  without the rest, which is logged (`partly`). Marketing over WhatsApp outside
  the GDPR and CASL regions has no consent check, although
  `pre_check.py:192-194` says that it is refused everywhere; no production code
  calls `record_consent`.
- Screening. A refresh that stops half-way leaves an index that looks as fresh
  as its oldest row, without the new names (`torn`; `refresh_sanctions_lists.py:
  246`). If the count of all rows fails, the 70 % guard of the sweep is skipped
  (:328-329). Two refreshes that overlap may delete valid rows between count and
  delete; nothing locks the job. A name that repeats a word is stored under a key
  with the word twice, which the exact lookup never asks; the wider lookup finds
  it, but not for a name of one word. "Fetched fresh" is read from marks that
  another call's fetch may have cleared (`screen_sanctions.py:510`). A truncated
  OFAC body of a hundred rows is taken for the list (:434). When the primary name
  ties with the alias that is the screened name, the entity is reported under the
  primary one (:605-610) and the exact match becomes a candidate, while :387-388
  says that "identical normalised token sets are reported as matches".

## What is not modelled

`PROJECT.json` lists every component with its reason. In short:

- The circuit breaker, the retry helper and the fallback executor
  (`reliability/`): no request path uses them.
- Webhook delivery: subscriptions live in the server's memory and the results in
  the worker's, so nothing is delivered.
- The other outbound tools (calls, confirmations, leads), which repeat the
  sender's pattern; the stateless lookups; pages, portal,
  manifests, onboarding, scripts, telemetry and routing statistics.
- The edge worker: TypeScript in another runtime, which the server sees as a
  client.
- Within the modelled components: the parsers of the three sanctions feeds, the
  normalisation of names, the ranking by country, the low-balance e-mail, the reads of
  `get_status`, the per-day count of free keys, the count of dispatches against
  a business's budget, the other rules of `pre_check` (content, hours, voice),
  the wording of messages, an idempotency key sent twice to `enqueue`, two
  processes that overlap during a deployment, and a server without Supabase.

## Plan

Done, and proved as far as the prover reaches: gate, contract, ledger, metered runs, tools/call, Polar orders, free keys,
quota, conversations, bookings, opt-outs, demand queue, screening. What would come
next:

1. The other outbound tools around the sender's threads, and the edge worker's
   rate limit.
