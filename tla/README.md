# Purpose-bound accounts: a TLA+ model

This directory holds a formal model of the service in `crates/pba_service`. The
service keeps purpose-bound accounts: an account has two pools of money
(`self` and `others` contribution), and payments from it are restricted to the
merchants of its purpose. Paths below are relative to `crates/pba_service/src`
unless they start with `docs/`, `WHAT.md` or `crates/`.

## The system

State lives in two stores that share no transaction, and in the memory of the
process.

| store | what it keeps | who changes it |
|---|---|---|
| PostgreSQL `transactions` | one row per movement and pool: status, amount, idempotency key, correlation id, the row it reverses | every service, the timeout poller |
| PostgreSQL `pb_accounts`, `normal_accounts` | owner, origin, status | account services, operators |
| TigerBeetle accounts | `debits/credits_posted`, `debits/credits_pending`; a flag refuses debits beyond the credits | every transfer |
| TigerBeetle transfers | single, linked, pending (posted, voided or expired later) | `repository/ledger_repo.rs` |
| memory | claims per API client, keys per key id, ten PostgreSQL connections | every request |

A handler opens a database transaction, writes its rows, calls TigerBeetle, and
commits. A rejected transfer rolls the rows back. A commit that fails after the
transfer cannot be taken back: this window is in every write path.

| component | source | operations | what is hard | modelled in |
|---|---|---|---|---|
| payment split | `domain/pool.rs` | `calculate`, `total` | u64 arithmetic, boundaries | `PaymentSplit` |
| payments, withdrawals | `service/pb_payment_service.rs`, `service/pb_withdrawal_service.rs` | `make_payment`, `withdraw` | stale balances, retry loop, shared keys, two stores | `PbPayment` |
| refunds | `service/pb_payment_service.rs` | `refund_payment`, `post_refund`, `void_refund` | row locks, two legs, pending state in two stores | `PaymentRefund` |
| transfers, reversals | `service/transfer_service.rs` | `transfer`, `post_transfer`, `void_transfer`, `reverse_transfer` | status read without a lock, unconditional update | `Transfer` |
| deposits | `service/pb_deposit_service.rs`, `service/normal_deposit_service.rs` | `deposit`, `post_deposit`, `void_deposit` | the same | `Deposit` |
| normal withdrawals | `service/normal_withdrawal_service.rs` | `withdraw` | balance read ahead of the transfer | `Deposit` |
| timeout poller | `service/pending_timeout.rs` | one loop | races every post and void, a clock of its own | `PaymentRefund`, `Transfer`, `Deposit`; its share of the pool in `Server` |
| accounts | `service/pb_account_service.rs`, `service/normal_account_service.rs` | `create_account`, `update_status` | two stores, freeze in flight | `Server`; the freeze in `PbPayment`, `PaymentRefund`, `Transfer`, `Deposit` |
| connection pool, process | `main.rs` | acquire, release, timeout, dropped handlers | ten connections, two per refund | `Server` |
| caches | `auth/api_key.rs`, `auth/jwks.rs`, `auth/claims.rs` | lookups with times to live | staleness, order, delay and failure of answers | `AuthCache` |
| ledger explorer | `admin/tb.rs` | post or void of a pending transfer; reads | ends a transfer behind its row | `Deposit` |
| HTTP, admin pages, sign-in, validation, SDK | `api/`, `admin/`, `domain/`, `crates/pba_client` | decoding, reads, pure checks | nothing of their own | not modelled |

What makes a component correct, in the order of importance: money is conserved
between the rows and the ledger; a key takes effect once; a payment is never
given back twice; a pending movement ends once and the same way in both stores;
a request is always answered; a frozen account admits nothing new; an expired
token opens nothing beyond what the caches allow, and a good one is not refused. `PROJECT.json` lists the hazards line by line.

## Modules

| module | models | kind |
|---|---|---|
| `PaymentSplit` | `PaymentSplit::calculate`, `PoolBalance::total` | operators, with the reference `IsDivision` |
| `Sums` | `SUM(amount)` over rows | operators |
| `TigerBeetle` | states of a two-phase transfer, error classification | operators |
| `PbPayment` | payments and withdrawals of one account | state machine |
| `AtomicAccount` | what an account promises its payers: one atomic step per request | abstract specification |
| `PaymentRefund` | refunds of one payment, verdicts, poller | state machine |
| `RefundBudget` | what refunds promise: one atomic step each | abstract specification |
| `Transfer` | transfers and reversals between two accounts, verdicts, poller | state machine |
| `Deposit` | deposits of both kinds of account, verdicts, poller, explorer, normal withdrawals | state machine |
| `Server` | what all requests share: connections, the process, account creation | state machine |
| `AuthCache` | tokens and signing keys of one API client | state machine |
| `MC*` | small instances for TLC | |
| `*_proofs` | theorems | |

The four modules of money are about disjoint sets of rows and meet only in the
balances of an account. Each has the others as the environment of its balances:
`Credit` and `Hold` in `PbPayment` are settled deposits and pending reversals,
`Spend` in `Transfer` is a payment. `Server` keeps only what their handlers
share: where a handler holds a connection or a row lock, and not what it moves.

### PbPayment

A request is a record of `call`; its `pc` names the last await it has passed.
`posted` and `held` are TigerBeetle's `credits_posted - debits_posted` and
`debits_pending`; rows are not a variable of their own: the committed rows are
those of the calls that are `done`, the uncommitted ones those of the calls
that are `inserted` or `moved`. `reserved` is a history variable: it says that
a reversal has drawn on the pool, which two properties except.

| action | code |
|---|---|
| `Receive` | `find_by_idempotency_key`, and the replay of a hit |
| `Admit` | `get_account`, `is_active`, `is_mcc_allowed` |
| `ReadBalance` | `get_balance` and the split, or the withdrawal's comparison |
| `InsertRows` | `begin`, `insert_in_tx`: waits for, or fails on, a row with the same key |
| `MoveMoney`, `Rejected` | the TigerBeetle call and its two answers; `Rejected` is the retry loop |
| `Commit`, `Fail` | `commit`, or the loss of the transaction at any await |
| `Credit`, `Hold`, `Unhold`, `SetStatus` | other services and operators |

Answers without effect that the model lumps into `Fail` are an unreachable
database and a TigerBeetle error other than `ExceedsBalance`: the handler
returns and its transaction is rolled back.

`AtomicAccount` has no balance reads, retries, rows or transactions: a request
takes all it asked for in one step, out of money that is there and not reserved,
unless another request with its key has; what it took is then booked or leaks.
`PbPayment` implements it: the debit in TigerBeetle is `Take`, the commit or the
loss of the transaction is `Book`, a refusal or an earlier loss is `Refuse`, and
reads, divisions, inserts and retries stutter. `RefinesAccount` is checked by
TLC and proved.

### PaymentRefund and RefundBudget

`call` are the `refund_payment` handlers, `resolver` the `post_refund` and
`void_refund` handlers, `status` the committed rows, `tb` TigerBeetle's
transfers, `overdue` what the poller has read and not yet voided. `LockOriginal`
and `LockRefund` are `SELECT ... FOR UPDATE`; the lock is held while `pc` is in
`Locking`, or while the resolver works on the refund. The account check and the
inserts are one action: under the payment's lock no other refund of it commits,
so nothing the model has can happen between the two.

`Expire` is TigerBeetle's timeout of one transfer, `PollerFinds` and
`PollerVoids` are the poller by PostgreSQL's clock. Neither clock is modelled:
any pending transfer may be overdue in either store at any time, which covers
clock skew and every value of `timeout_seconds`. `PollerFails` is an `UPDATE`
the poller loses and only logs; the row is found again in a later round.

The original payment is settled and belongs to the account (the refusals at
`pb_payment_service.rs:348-378` do not change the state). The deposit endpoints
accept the id of a refund's row too; they are not an action here.

`RefundBudget` has no locks, rows, transfers or clocks: a refund takes its
share of both pools in one step, if all of it is there, holds it, and keeps it
or gives all of it back. `PaymentRefund` implements it under the mapping
`state <- Seen`, `share <- Shown`, which is what a reader of the committed rows
sees. The commit is `Take`, an `UPDATE` is `Settle` or `Release`, and every
other step stutters. `RefinesBudget` is checked by TLC and proved.

### Transfer

A move is a transfer from the normal account to the others pool of the
purpose-bound account, or a reversal back. `call` are the handlers, `status` the
two committed rows of each move, `tb` its TigerBeetle transfer, `ending` the
handlers that post or void, `overdue` what the poller has read and not yet
voided, `spent` what payments have taken from the pool. The balances `Posted`
and `Reserved` are sums over `tb`, as TigerBeetle's counters are.

| action | code |
|---|---|
| `Begin` | `find_by_idempotency_key`, and the replay of a hit |
| `LoadOriginal`, `CheckReversal` | `get_by_id` of the original; `has_active_reversal` and the amount |
| `Admit`, `ReadBalance` | both accounts active; `get_single_balance` of a transfer |
| `InsertRows` | `begin` and the two inserts under both unique indexes |
| `MoveMoney`, `Rejected` | the TigerBeetle call and its two answers; only a transfer tries again |
| `Commit`, `Fail` | `commit`, or the loss of the transaction at any await |
| `ReadRow`, `ApplyVerdict`, `UpdateRows` | the three awaits of `post_transfer` and `void_transfer`: no lock is held between them |
| `LoseEnding` | one of those handlers dies between two awaits |
| `PollerFinds`, `PollerVoids`, `PollerFails`, `Expire` | as in `PaymentRefund` |
| `Spend`, `SetStatus` | payments, operators |

`Scopes` says which endpoints are used to end a move. `"both"` are the transfer
endpoints, which write both rows by correlation id; `"normal"` and `"pb"` are
`post_deposit` and `void_deposit` of that account, which accept the id of its
row and write only that row.

### Deposit

One purpose-bound and one normal account. A deposit has one row and no
`correlation_id`, so the poller takes the solo branch, whose `update_status`
does not look at the status it overwrites. Balances are sums over `tb`, as in
`Transfer`; only the normal account is withdrawn from here.

| action | code |
|---|---|
| `Begin` | `find_by_idempotency_key` of the account, and the replay of a hit |
| `Admit` | `get_account`, `is_active`; `Funded` is the routing by source of `resolve_funding` |
| `ReadBalance` | `get_single_balance` of a withdrawal |
| `InsertRow` | `begin` and the insert under the unique index of account and key |
| `MoveMoney`, `Rejected` | the TigerBeetle call and its two answers; nothing is tried again |
| `Commit`, `Fail` | `commit`, or the loss of the transaction |
| `ReadRow`, `ApplyVerdict`, `UpdateRow`, `LoseEnding` | `post_deposit`, `void_deposit` and their deaths |
| `PollerFinds`, `PollerVoids`, `PollerFails`, `Expire` | `pending_timeout.rs`, TigerBeetle's timeout |
| `Explore` | the explorer posts or voids the transfer and leaves the row alone (`admin/tb.rs:822`) |

The account's status is read once and by nothing else here, so `Admit` draws it
at random instead of keeping it.

### Server

A request asks for a connection, has it for one statement or for its
transaction, and ends. `refund_payment` is the one handler that asks for a
second connection while it holds the first (`pb_payment_service.rs:421` reads
the account through the pool), with the payment's row lock in its hands.

| action | code |
|---|---|
| `Start`, `Die` | `main`; the death of the process, after which PostgreSQL rolls back the transactions that were open |
| `Arrive` | a request to open an account, a request in one transaction, or a refund |
| `Acquire`, `TimesOut` | the pool, and its acquire timeout |
| `ReadPurpose`, `MakeAccounts`, `InsertRow` | `create_account`: purpose, TigerBeetle, PostgreSQL |
| `Begin`, `ReadAccount`, `Finish` | row lock of a refund, its nested read, the rest of the transaction |
| `Drop` | the client goes away and axum drops the handler at its await |
| `Tick`, `PollerAcquires`, `PollerAnswered`, `PollerTimesOut` | one round of the poller, statement by statement |

What a handler had sent when it was dropped or died with its process, the
creation of TigerBeetle accounts or the `INSERT` of an account's row, may still
be carried out (`CutShort`).

### AuthCache

`cached` is the token cache's entry of one client, `keys` the key cache, `call`
the requests; the identity provider is external and only issues tokens, rotates
its signing key and publishes keys. Neither HTTP client has a timeout, so the
clock may run between any two steps, and either answer may fail.

| action | code |
|---|---|
| `Lookup` | `exchange_api_key`: the entry is used until 30 seconds before its end |
| `Issue` | `exchange_client_credentials`: the provider's answer to the exchange, or its failure |
| `GetKey`, `Answer`, `Refresh` | `JwksCache::get_key`, the fetch, which may fail and then fails the request even if an old copy of the key is cached, and the insertion of what it brought |
| `Accept` | `decode` with its leeway, and the entry that counts from the token's arrival |
| `Leave` | the request is answered, or its handler is dropped at an await |
| `Tick`, `Rotate`, `Unpublish` | time and the provider |

The provider keeps a key published until the tokens it signed have expired;
without that no verifier can work. Its clock is the service's: a skew between
them is what the leeway is for. The token cache answers by client id and does not
compare the secret on a hit (`api_key.rs:49`); secrets are not modelled, so
`Lookup` is the same for every request of the client.

## Runs

| run | asks | instance | distinct states |
|---|---|---|---|
| `PbPayment_race` | are money, keys, the spending order, the freeze and the retry loop right under races, does each request pay in one step, and does every request end | 2 requests of 0 or 3, pools of 2 and 3, one key, a deposit of 2, a reservation of 2, one lost transaction | 592 thousand |
| `PbPayment_orphan` | finding 1 | 2 requests, one lost transaction | |
| `PaymentRefund_race` | is the budget kept, and does each lost transaction explain at most one refund whose rows and money disagree | 3 refunds of 2 or 3, 2 resolvers, a payment of 3 from one pool, two lost transactions | 337 thousand |
| `PaymentRefund_verdict` | do refunds implement the one-step budget, whole and once per key, and does every refund end | 2 refunds, 1 resolver, a payment of 1 + 2, one key, one lost transaction | 208 thousand |
| `PaymentRefund_half` | finding 2 | 2 refunds, 1 resolver, a payment of 1 + 2 | |
| `Transfer_race` | no overdraft, both rows alike, one transfer per key, and does everything end | 2 transfers of 2 from an account of 3, 2 verdicts, one key, nothing lost | 105 thousand |
| `Transfer_reverse` | one live reversal, no posted row without money, no moved money without a row but for what was lost or is superseded, whichever endpoints end them | 1 transfer, 2 reversals, 2 verdicts with `Scopes` `"both"` and `"normal"`, one payment, one fault | 2.2 million |
| `Transfer_twice` | finding 3 | 1 transfer, 2 reversals, 1 verdict | |
| `Deposit_race` | no overdraft, one row per key, verdicts that last, no posted row without money, and does everything end | 1 deposit, 2 withdrawals, 2 verdicts, one key, the explorer, one fault | 115 thousand |
| `Deposit_late` | finding 4 | 1 deposit, 2 verdicts, nothing lost | |
| `Server` | no account row without accounts, who can block the pool, and does every request and every round of the poller end | 3 requests, 2 payments, 2 connections, 1 overdue row, 1 death | 198 thousand |
| `AuthCache` | how long can an expired token still open something, and is a good one ever refused for the sake of another request | 2 requests, 2 keys, life 3, margin 1, leeway 2, time to live 3, clock to 8 | 4.8 million |

Bounds. The amounts are chosen so that every case of the split occurs: 3 needs
both pools of 2 and 3, two of them exceed the account, a payment of 0 writes no
row while a withdrawal of 0 does, and what a deposit adds changes the outcome.
`MaxTries` is the program's 3. Three refunds are the least for which two may be
pending while the third decides; two are enough for everything else about them.
`Word` is 64 in the runs because no sum there reaches it; the wrap is proved,
not run. `MaxCredited`, `MaxFaults`, `MaxSpent` and `Reserve` bound what would
not end. One lost transaction is enough for every finding that needs one; two tell "at
most one for each" from "at most one".
In `Transfer` one transfer of 2 leaves less than 2 of the opening 3, so the
second is rejected or must wait for a void; a reversal of part of a transfer
needs the amounts 1 and 2; two reversals are the least that can compete, and one
payment of 1 is enough to make the pool short of them. Of the deposit endpoints
`Transfer_reverse` has the one for the row that the unique index of reversals is
about; `Transfer_race` has none, since each of them ends one row alone. In
`Deposit` the
withdrawals of 1 compete for one deposit of 1, and two endings are the least
that can disagree. `Server` has two connections, the least with which a nested
request can be half served, and one request more than connections. `AuthCache`
keeps the program's order: the margin (30 seconds) is shorter than the leeway
(60 seconds, the default of `Validation::new`), which is shorter than a token's
life. Its clock runs more than two lives, so a token is served after its end from
the cache, accepted late, or refused, and a key is withdrawn, kept and asked for
again; nothing but the bound of the clock limits a delay.

Requests, refunds, endings and resolvers are interchangeable, so the runs
without liveness use symmetry; the others do not.

Fairness. Handlers are tokio tasks and both stores answer or fail, so each
handler is weakly fair from the moment its request has arrived. Nobody has to
send a request, credit an account, or call a post or void endpoint. The poller's
loop never ends; each round reads what is still overdue, and its UPDATE queues
for the row lock, which PostgreSQL grants in turn although others may come again
and again: strong fairness of `PollerFinds` for each row, and of `PollerVoids`
where a lock is in its way (`PaymentRefund`), weak where none is (`Transfer`,
`Deposit`). In `Server` handlers and the poller are weakly fair, which includes
the pool's timeout; nobody has to arrive, to go away, or to start the process
again. The expiry of a transfer in TigerBeetle, operators and the explorer have
no fairness. `AuthCache` states safety only.

Deadlock. `PbPayment` always has an operator who may freeze or unfreeze, as have
`PaymentRefund` and `Transfer`, so those runs check it, though it says little;
that nobody waits for ever is what the `...Ends` properties say. `Deposit`,
`Server` and `AuthCache` do stop when all their requests are over or the clock
is at its bound, and their runs do not check it.

## What the findings show

1. `PbPayment_orphan`: the documented equality of the ledger and the rows does
   not survive a crash between transfer and commit (`pb_payment_service.rs:223`).
   The 2026-05-08 design lists this drift among its failure modes.
2. `PaymentRefund_half`: two legs are resolved one by one; the second can have
   expired, and the poller then voids both rows although one leg moved
   (`pb_payment_service.rs:695`). The two-phase design says that TigerBeetle
   resolves both at once.
3. `Transfer_twice`: while a post of a pending reversal is between TigerBeetle
   and its `UPDATE`, the poller voids the rows; a second reversal is then
   admitted, its money moves too, and the first one's `UPDATE` fails
   (`transfer_service.rs:504`).
4. `Deposit_late`: the poller reads a deposit as overdue, the deposit is posted,
   and the poller then writes `voided` over `posted`: `update_status` has no
   condition on the status, which the update by correlation id has
   (`pending_timeout.rs:61`).

What else the models show, without a run of its own because no document says
otherwise, or because it has the same cause:

- A refund whose transaction is lost after the transfer has moved its money; the
  retry with the same key moves it again. After a lost post, a void takes
  "already resolved" for success and gives back the budget of money that went
  out.
- The deposit endpoints end one row of a pending transfer and leave the other
  pending (`pb_deposit_service.rs:219`).
- The balance read ignores `debits_pending`, so a payment that the free money
  covers can be declined after three equal tries while a reversal is pending
  (`ledger_repo.rs:183`).
- A transfer's late `UPDATE` brings rows back that the poller has voided, which
  is why `Unrecorded` of `Transfer` excepts a move whose `UPDATE` is to come; it
  cannot when another reversal of the same transfer has been booked meanwhile,
  and then no row will ever tell of the money (`Superseded`).
- The token cache does not look at `exp` and counts a life from a token's
  arrival, so claims are served after their token has expired: up to leeway and
  life less margin later if the exchange was slow (`ServedWithin`).
- What the explorer posts, the poller later voids in PostgreSQL: the pages
  promise nothing about rows.
- The creation of the sentinel accounts logs an error and returns `Ok`, so the
  `expect` at `main.rs:232` cannot fire (`ledger_repo.rs:87`).
- As many refunds in flight as the pool has connections can each hold one and
  wait for a second; only the acquire timeout ends this (`WaitCycleIsRefunds`).

## Proofs

| theorem | says |
|---|---|
| `PaymentSplit_proofs!SplitCorrect` | the split is an exact division within the balances, others first, for every word size |
| `PaymentSplit_proofs!DeclinedOnlyWhenShort` | a declined amount has no division when the total fits the word |
| `PbPayment_proofs!TypeCorrect` | no pool is overdrawn, a reservation is always covered |
| `PbPayment_proofs!ConservationHolds` | the pools hold what the committed rows say, less what requests have taken whose transactions were lost, one for each loss |
| `PbPayment_proofs!AccountImplemented` | `PbPayment` implements `AtomicAccount` |
| `PbPayment_proofs!OneDebitHolds` | one key takes money once |
| `PbPayment_proofs!OthersFirstHolds` | self is drawn on only when others is empty |
| `PbPayment_proofs!RetriesEarned` | a payment is turned away once per competing debit at most |
| `PbPayment_proofs!FreezeHolds` | a frozen account admits no request |
| `PaymentRefund_proofs!TypeCorrect` | types |
| `PaymentRefund_proofs!BudgetKept` | refunds never exceed the payment |
| `PaymentRefund_proofs!DecisionKept` | what was decided under the lock still fits when written |
| `PaymentRefund_proofs!VerdictsFinal` | settled and voided are final |
| `PaymentRefund_proofs!LegsAgree` | the rows of a refund have one status |
| `PaymentRefund_proofs!KeysOnce` | one committed refund per key |
| `PaymentRefund_proofs!FreezeHolds` | a frozen account refunds nothing new |
| `PaymentRefund_proofs!RefundsImplementBudget` | `PaymentRefund` implements `RefundBudget` |
| `PaymentRefund_proofs!SettlesWithinLosses` | a settled refund has moved its money, but one for each lost transaction |
| `PaymentRefund_proofs!LossesHold` | one pool: rows and TigerBeetle disagree about at most one refund for each lost transaction |
| `PaymentRefund_proofs!MoneyHolds` | one pool: TigerBeetle gives back at most the payment, and as much again for each lost transaction |
| `PaymentRefund_proofs!VoidedHolds` | one pool, nothing lost: a voided refund has not moved its money |
| `Transfer_proofs!TypeCorrect` | types; no account is overdrawn, a reservation is always covered |
| `Transfer_proofs!PostedMoved` | a posted row has moved its money |
| `Transfer_proofs!OneReversal` | one live reversal per original |
| `Transfer_proofs!OneKey` | one committed transfer per key |
| `Transfer_proofs!RowsAgree` | with the transfer endpoints only, both rows have one status |
| `Transfer_proofs!LossesHold` | moved money is in a posted row, or about to be, but for one move for each loss and for voided reversals beside which another one has been booked |
| `Transfer_proofs!ReversedOnce` | of the reversals of a transfer that moved money back, all but one, and one for each loss, were voided ahead of TigerBeetle |
| `Transfer_proofs!OnlyPollerAhead` | only the poller voids a row whose money has moved or may still move |
| `Deposit_proofs!TypeCorrect` | types; no pool and no normal account is overdrawn |
| `Deposit_proofs!PostedRowsMoved` | a posted row has moved its money |
| `Deposit_proofs!KeysUnique` | one committed deposit or withdrawal of an account per key |
| `Deposit_proofs!VerdictsStand` | a posted deposit the poller has not found stays posted |
| `Deposit_proofs!OnlyPollerAhead` | the same of deposits, with the explorer |
| `Server_proofs!TypeCorrect` | types; no more connections in use than the pool has |
| `Server_proofs!AccountsBehindRows` | no account row without its TigerBeetle accounts |
| `Server_proofs!OnlyRefundsBlockThePool` | a wait cycle takes as many refunds as connections, for every size of the pool |
| `AuthCache_proofs!TypeCorrect` | types |
| `AuthCache_proofs!AliveNotRefused` | a request the provider has answered is refused only if its token has expired |
| `AuthCache_proofs!ServedInTime` | how long after its end a token is accepted, and served from the cache, at most |

Assumptions. `PaymentAssumption`: finitely many requests, an opening balance
and a limit on deposits that keep the pools within the word. Finiteness is
needed for sums; the bound on deposits because the model counts money without
wrapping (TigerBeetle's amounts are 128 bits wide). `RefundAssumption`: the
amounts are naturals and the refunds finitely many. `TransferAssumption` and
`DepositAssumption`: the same of moves, with the two kinds disjoint.
`ServerAssumption`: finitely many requests, at least one connection.
`AuthAssumption`: the times are naturals, nothing about their order or about how
long the provider takes.

Conditions of single theorems. `RowsAgree` needs `Scopes` to have the transfer
endpoints alone, since the deposit endpoints end one row only. `LossesHold` and
`MoneyHolds` of refunds need a payment from one pool, since `PaymentRefund_half`
breaks the other case, and `VoidedHolds` needs also `MaxFaults = 0`, since a
post that is lost and then voided breaks it.

Conservation. A step of a handler changes a pool and its own `pc` together,
except for the two awaits between the transfer and the commit. So the invariant
(`LedgerAdds`) sums over everyone who has debited, whether committed, about to
commit or gone; with nobody in between, only the committed and the orphans are
left, and only a loss makes an orphan (`OrphansStep`). It needs
`ExternalBounded` to keep the pools in the word and `TriesLeft` for the type of
the counter.

Atomic account (`AccountInvariant`). A debit is `Take` if what the handler has
decided is the whole amount (`DecisionExact`, which follows from `SplitCorrect`
when the balance is read and is carried over every await and retry since), and
if nobody else with its key is past the insert (`KeysExclusive`); that it fits
into what is there and free is TigerBeetle's own check at that moment. Each
other step is shown to map to a step of `AtomicAccount` or to a stutter, one
lemma for each kind of step.

Keys. At most one request with a key is past its insert (`KeysExclusive`,
`KeysFree`, `OneLivePerKey`), since the unique index makes a second insert wait
for an open transaction and fail on a committed row. A lost transaction gives
the key back, which is why the properties speak of requests whose transactions
survive.

Spending order and retries (`SpendInvariant`). A decision drawn from a balance
is used after others have changed it. `WantsAllOthers`: whoever has decided to
draw on self wants at least all that is in others, which only shrinks, so when
the debit succeeds nothing is left. `Overtaken`: a decision that no longer fits
has been overtaken by a debit that has not cost this payment a try before,
because the balance was read after the last rejection; counting competitors
needs that nobody else draws (`NobodyDraws`).

Budget (`BudgetInvariant`). `RefundsWithinPayment` alone is not inductive: a
commit adds rows. `TakeFits` says that what a handler is about to write fits,
`SelfReadFits` says the same of what it has read between the two sums,
`LockExclusion` says that nobody else is that far, and `RowsAreCommitted` says
that a handler's rows are not yet counted. Poller and resolvers only move rows
out of `pending`, which never increases a sum. The lemmas about sums
(`Sums_proofs`) count units, so that the library's theorems about cardinality
apply.

Refinement (`RowInvariant`). `WholeRows` says that every refund's rows, on all
its legs, have one status; every `UPDATE` is by correlation id and every commit
writes all legs, so the status seen on one leg is that of the refund. With
`TakersHaveLegs` (nobody commits a refund of nothing, so that a commit is seen)
and `TakeFits` a commit is `Take`.

Fate of the money (`FateInvariant`). There is a set of refunds that losses have
spoilt, no larger than the number of losses, and each other refund is in one of
a few situations (`Fate`): its transfers are live, or one has expired and the
refund cannot be settled any more; a resolver is halfway, with the legs it has
still to do pending and the others at its verdict, and it alone works on the
refund. Rows are settled only from the first and voided only from the others. A
step that loses nothing keeps the fate of every refund (`EveryStepKeeps`); a loss
touches one refund, which joins the set. With one leg, halfway is either end,
which is what `OnePool` is for. `MoneyHolds` adds up: the unspoilt refunds that
moved money are settled, so the budget bounds them, and each spoilt one moved at
most the payment (`SumUnion`, `SumBound`).

Moves (`MoneyInvariant`) says in which order the two stores change. There is no
TigerBeetle transfer before the handler's call and no row before its commit
(`MoneyBeforeRows`); an ending works on committed rows, and once TigerBeetle has
said yes the transfer has its verdict for good (`EndingsKnown`).
`PostedHasMoved` needs both. For the balances, `Covered` restates "reserved is
at most posted" without subtraction. The two uniqueness theorems rest on claims
that a handler holds from its insert on: `KeysClaimed` for keys, never given up
after the commit, and `ReversalsClaimed` for originals, which a void gives up
and a late post may take back only if nobody else holds it.

Losses of moves (`LossInvariant`). `Unrecorded` grows by one move only in a step
that counts a loss: whoever has had its verdict from TigerBeetle is `Settling`
until its `UPDATE`, the `UPDATE` writes a posted row, and the one case in which
the index stops it leaves the move voided and `Superseded`, until an `UPDATE`
posts it after all (`SupersededStays`).
`PendingUnposted` says that a pending transfer is not posted before its commit,
so that no verdict can come before there is a row.

Ahead of TigerBeetle (`AheadStep`, `ReversalInvariant`). PostgreSQL's clock does
not ensure that the poller finds only what TigerBeetle has ended, although the
design says that the poller keeps the rows in sync; findings 3 and 4 are what
comes of it. A row is `Ahead` when it is voided and its transfer is still pending
or posted. Every other step that voids a row has the verdict from TigerBeetle
first, and TigerBeetle changes no transfer that has ended, so only `PollerVoids`
makes a row `Ahead`. A reversal that has moved its money and is not `Ahead` still
holds its claim (`LiveBacks`), which two cannot, unless its transaction was lost
(`OrphansWithin`). Lost transactions and the poller are thus the only ways to
reverse a transfer twice.

Deposits (`IInv` of `Deposit_proofs`). `Ledger`, `Rows` and `Pursued` say the
same of one row: a transfer exists for those who sent one, a row for those who
committed, and an accepted verdict is what TigerBeetle made of the transfer. So
two endings that TigerBeetle has both accepted agree, and whoever writes last
writes the same; only the poller can disagree, hence the exception in
`VerdictsLast`.

Pool (`PoolInvariant`). Only a refund is ever in `ask_account` or `read_account`
or waits for a row lock (`NestedAreRefunds`). In a wait cycle every connection
is held by a blocked request, so there are as many of those as connections, and
each is a refund. `TypeInvariant` adds the count: a connection is taken only
when one is free, and no other step takes one (`TakesNone`).

Caches (`CacheInvariant`). A token is accepted no later than the leeway after its
end and cached for a life, so the entry outlives it by no more than both
(`EntryAge`); the margin is taken off when it is looked up. The key of a token on
its way is published until the token has expired (`KeyPublished`), so a fetch that
is made for it brings the key or finds the token expired (`KeyGot`), whatever
older answer is stored in between.

## Only model-checked

Liveness, which is out of the prover's reach: `EveryCallEnds` (`PbPayment`,
`Deposit`), `EveryRefundEnds`, `EveryMoveEnds`, `PendingEnds` (in three
modules), `EveryRequestEnds`, `EveryRoundEnds`; and the four violations. Every
safety property of a passing run is also a theorem, `RefinesBudget` and
`RefinesAccount` included.

## Not modelled

- The generated SDK (`crates/pba_client`): 46 of the workspace's 59 thousand
  lines, without a state of its own. The share of the workspace that a model can
  be about is therefore small.
- HTTP decoding and routing, the admin pages (except the explorer's post and
  void), sign-in: they call one service, or only read. An admin form sends no
  key; such calls are those with `NoKey`.
- Validation of names, categories and metadata: pure checks of strings, whose
  refusals are nondeterministic in the models.
- Reading the configuration, decrypting secrets, logging, and amounts wider than
  `i64` when a row is written.
- The conversion of timeouts: either store may expire anything at any time, or
  never, which covers every value.
- The deposit endpoints on the legs of a refund; on the rows of a transfer they
  are modelled (`Scopes`).
- Client secrets, which the token cache does not compare on a hit, and a skew
  between the clocks of the provider and the service.
- Revocation at the identity provider: neither code nor documents promise when
  it takes effect.

## Plan

Done: every service of `crates/pba_service`, the poller, the pool, the caches,
two refinements, and proofs of all safety properties.

1. The deposit endpoints on the legs of a refund: they write the status
   `posted`, which the refund sum does not count (`transaction_repo.rs:651`).
2. An abstract pair of accounts whose transfers and verdicts are atomic,
   implemented by `Transfer` when nothing is lost and no row gets `Ahead`.
3. A payment from two pools: what a loss, or the second leg's expiry, may at most
   cost, as `MoneyHolds` says it for one pool.
