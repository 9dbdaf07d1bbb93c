# Verification of the sub-account server

`sub-account-svr` is the back end of .bit sub-accounts.  Users, and owners of a
parent account, ask it over HTTP to mint, edit, renew or approve sub-accounts.  It
batches these changes into CKB transactions that move the parent's *sub-account
cell*, keeps a sparse Merkle tree (SMT) of all sub-accounts of a parent whose root
is in that cell, follows the chain, and settles the orders and payments behind the
changes.  These modules model it in TLA+; TLC checks small instances, and TLAPS
proves every safety property that a passing run checks for all instances.

## 1. Inventory

| Component | State | Operations | Interacts with |
|---|---|---|---|
| SMT task pipeline (`task/`, `txtool/`) | in memory only, between two steps of a worker | distribute, update, check, roll back, confirm | all tables, SMT server, Redis lock, CKB node |
| Task and record tables (`dao/t_task_info.go`, `dao/t_smt_record_info.go`) | `t_task_info` (smt_status, tx_status, retry, outpoints), `t_smt_record_info` (task_id, record_type, nonce) | queries and transactions with where clauses on the status | everything |
| Block parser (`block_parser/`) | `t_block_parser_info`, the current block number | one handler per action, store block, fork check | tasks, records, orders, approvals |
| Redis lock (`cache/lock.go`) | one key per parent with an expiry | set if absent, refresh, delete | the pipeline, SMT repair |
| Orders and payments (`unipay/`, `dao/t_order_info.go`, `dao/t_payment_info.go`) | pay_status, order_status, pay_hash_status, refund_status | create, notice, confirm, check, refund, dispute | records, payment service, coupons |
| Coupons (`dao/t_coupon_info.go`) | coupon status, coupon set status | create set, use | orders |
| Intake (`http_server/handle/*create*, *edit*, *renew*, transaction_send_new.go`) | signing cache in Redis, `t_mint_sign_info` | prepare, sign, send | records, node |
| Approvals (`approval_*.go`, `dao/t_approval_info.go`) | `t_approval_info` | create, delay, revoke, fulfil | records, parser |
| Transactions of handlers (`sub_account_init*.go`, `custom_script.go`, `profit_withdraw.go`, `service_provider_wi*.go`) | signing cache, withdrawal history | build, sign, send, record as a task | node, tasks, parser, syncer |
| Price rules, white lists, auto-mint switch (`price_rule_update.go`, `preserved_rule_update.go`, `config_auto_mint_update.go`) | `t_rule_whitelist`; the rules themselves are in the witnesses of the last transaction | update | node, tasks, parser |
| Recycling (`task/recycle.go`, `recycle_account.go`) | records of expired sub-accounts | recycle | records, parser, SMT |
| SMT repair (`smt_update.go`, `smt_check.go`) | SMT server | rewrite a parent's tree | Redis lock, SMT |
| Load balancing (`lb/`) | list of servers, `t_slb_*` | choose the server of a parent | intake |
| Currencies, statistics, notification, encryption, start-up | no state shared with the above | | |

What is outside the repository, and modelled from how `src/` uses it: the CKB node
(accepts, commits or rejects a transaction), the sub-account contract, the *syncer*
that fills `t_account_info` and `t_smt_info` from the chain, the SMT server, Redis,
other servers and owners who change the same cell.

The hard behaviour: five ticker goroutines per process share one SMT, which must at
every moment be explained by the chain plus at most one transaction in flight.  They
synchronise through status columns and a lock that may be lost; a transaction may be
accepted and then rejected, seen by the parser before its sender has noted it, or
belong to somebody else; the process may stop between any two database
transactions.  The list under `hazards` in `PROJECT.json` has each at its line.

What makes each part correct:

* pipeline: the SMT server agrees with the live cell whenever nothing is in
  progress; at most one task per parent is in flight; what is given up never gets on
  chain; every queued change ends on chain or closed; no worker is stuck.
* parser: every change in a block is recorded exactly once, also if the block is
  parsed again; what was parsed is not undone.
* lock: one writer of the SMT at a time.
* orders: a paid order ends in success or in exactly one refund; an account is sold
  once; a coupon is used once.
* intake: what waits for the chain follows on what the chain has, is what the account's
  present state allows, and carries the signature of whoever holds the account now.
* rules and withdrawals: no rule list comes back, the white list serves the rules in
  force, a withdrawal pays no income that one its check could find has paid.

## 2. Modules and plan

| Module | Models | Composed with |
|---|---|---|
| `SmtTask` | the pipeline of one parent with its tables, parser handlers, lock, SMT server and node | implements `SmtBatch` |
| `SmtBatch` | what the pipeline promises of a batch of changes, seen from outside | refined by `SmtTask` (`Implements`) |
| `SmtTaskProofs` | type correctness, mutual exclusion, one task in flight | extends `SmtTask` |
| `SmtTaskRefinement` | ends are final, nothing given up is on chain, `SmtTask` implements `SmtBatch` | extends `SmtTaskProofs` |
| `SmtTaskRecords` | no record is lost by the tasks or the parser | extends `SmtTaskRefinement` |
| `SmtTaskRoots` | the SMT server follows the chain | extends `SmtTaskRecords` |
| `PayOrder` | mint, renewal and coupon set orders, payments, refunds, the use of coupons | its records end as `SmtTask` lets them |
| `PayOrderProofs` | the invariants of `PayOrder` | extends `PayOrder` |
| `Intake` | the checks, sign keys, signatures and inserts of every change, approvals, recycling | its records wait for `SmtTask` |
| `IntakeProofs` | the invariants of `Intake` | extends `Intake` |
| `BlockParser` | the loop of the parser beside a chain that forks | extended by `ParentCell` |
| `ParentCell` | every other transaction that spends the parent's cell, its task rows, white lists and withdrawals, handled by `BlockParser` | `SmtTask`'s transactions appear as what they leave in the cell |
| `BlockParserProofs` | where the parser stands beside a chain that forks | extends `BlockParser` |
| `ParentCellProofs` | the invariants of `ParentCell` | extends `ParentCell`, `BlockParserProofs` |

Parents do not interact: every query, lock and cell is per parent, so each module
follows one.

Left in the plan, in this order: the deletion of a recycled parent's SMT and the manual
repair of an SMT beside `SmtTask`; `RedisLock` with time and errors of Redis; the
batching loop of the distributor against its definition; load balancing.

## 3. `SmtTask`

### State

| Variable | Code |
|---|---|
| `task`, `nTask` | `t_task_info` by id: `type` task_type, `smt`/`tx` smt_status/tx_status, `own` svr_name is this service's, `ref`/`out` ref_outpoint/outpoint, `bn` block_number, `script` custom_scrip_hash, `from` the origin that, with the outpoint, makes task_id unique |
| `recs` | `t_smt_record_info`: account, nonce (`ver`), record_type, record_bn, task |
| `parsed`, `handled` | last block in `t_block_parser_info`; the next one is handled and not yet stored |
| `synced` | block up to which the syncer has filled `t_smt_info`, `t_account_info` |
| `tx`, `nTx`, `chain` | transactions that spend the parent's cell and their blocks |
| `smt` | leaves on the SMT server |
| `lock` | Redis key of the parent, and who set it; `dead` after a crash |
| `upd`, `rb`, `cf` | what the updater, the rollback worker and the confirmer hold between two steps |
| `hnd` | transaction an HTTP handler sent and has not yet recorded |
| `used` | how much of the bounds is used |

A leaf is the number of changes made to its account; 0 means it does not exist.
`Info(a)` is the leaf `t_smt_info` has, and the nonce `t_account_info` has.

### Actions

One action per step between which another goroutine can run:

* `Request` (`transaction_send_new.go`): a record is inserted for the account's next
  version, or a mint.  A mint of an existing account is possible because an order may
  be paid after the account was minted for somebody else.
* `doUpdateDistribution` (`task/distribution.go`): one database transaction.  The
  split into batches is left open (any batches of at most `MaxCount`), which covers the
  order of ids and the splits at a new mint signature.
* Updater: `UpdRollbackWriting`, `UpdCloseStale`/`UpdPassNonce`,
  `UpdCheckInProgress`, `UpdCheckLiveCell`/`UpdDiffScript`, `UpdLock`,
  `UpdStartWrite` (root compared, task marked (1,0)), `UpdWriteSmt`, `UpdBuild`
  (outpoints stored), `UpdSend`, `UpdMarkPending`; `UpdFail` is every error return,
  with the deferred unlock.
* `doCheckTx`: the pass over the list, with the map of rejected outpoints.
* Rollback worker: `RbRead`, `RbLock`, `RbWrite`, `RbFinish`, `RbFail`.
* Confirmer: `CfRead`, `CfLock`, `CfWrite`, `CfFinish`, `CfFail`.
* Parser: `ParseOwnUpdate`, `ParseOtherUpdate`, `ParseNoLeaf`, `ParseChannelProfit`,
  `ParserStoreBlock`.
* Handlers that spend the cell: `SpendSend`, then `SpendCreateTask`.
* Environment: `CommitTx`, `RejectTx`, `ForeignCommit`, `SyncInfo`, `Crash`,
  `LockExpire`.

### What it implements

`SmtBatch` is the pipeline as the orders and users see it: a batch of changes waits, is
tried, is taken back at most `MaxRetry` times, and is done or ended; one batch of the
parent is tried at a time; a batch whose transaction is on chain is done and nothing
else.  `SmtTask` implements it (`Implements`, an `INSTANCE ... WITH` checked as a
property of `SmtTask_core`): `BatchState` reads the state of a batch off the type and
the two status columns of its task, `MinedBatch` off the chain.  A batch counts as tried
from the mark (1,0) on, and stays so while its rollback is pending.  That a try is taken
back only when nothing of it is, or will be, on chain is the part that needs the
checker, the rollback worker and the parser to agree.

### Assumptions

* `SendMarked` is TRUE in every run: between the node's acceptance of a transaction and
  the update that records it (`do_task.go:104-110`), neither the parser gets to its
  block nor does a crash, a database error or a lost answer intervene.  The code does
  not ensure it - only that a block takes much longer than an update makes it likely.
  With it FALSE, TLC finds `SmtFollowsChain` and `GivenUpNotOnChain` violated: the
  task stays (1,0), is taken for interrupted, rolled back and sent again or closed,
  while its transaction is on chain.
* A lock does not expire while its holder lives (`DoLockExpire` refreshes it), and an
  unlock does not fail.  `RedisLock` in the plan drops this.
* The node settles every transaction as committed or rejected; there is no fork.
* The indexer shows the live cell without delay, and the parent always has one.
* Nobody is in `SuspendMap`.

What is simplified besides: `ChangedBy` gives an account the version its record asks for,
where the code takes the syncer's leaf and adds one to its nonce.  These are the same
while the syncer is where the nonce check saw it; should it move on, the cell that the
updater has read is spent, and the leaf is rolled back whatever it was.  `CfRead`
compares the sets of accounts where the code compares the lengths of lists, and
therefore refuses two chain records of one account.  Recycling is not a kind of record
here; `Intake` has it.

### Runs

| Run | What | Bounds |
|---|---|---|
| `SmtTask_core` | `TypeOK`, `OneInFlight`, `SmtFollowsChain`, `GivenUpNotOnChain`, `NoRecordForgotten`, `WorkHasRecords`, `Implements` | 2 accounts, 2 scripts, 2 records per task, 1 retry, versions to 2, 5 tasks, 5 transactions, 2 requests, 1 config transaction, no crash, no change by others |
| `SmtTask_rivals` | `LockMutex`, `ParsedIsRecorded`, `EndIsFinal` | 2 accounts, 1 change by another service, 1 profit or channel-profit transaction, 1 crash, no retry, 1 request |
| `SmtTask_live` | `RecordsSettle`, `ChainTasksConfirm` | 2 accounts, 1 version, 2 records per task, no retry, 4 tasks, 4 transactions, 3 requests, no other transaction |
| `SmtTask_profit`, `_undone`, `_closed`, `_stale` | the findings of section 8 | smallest that show them; `_closed` those of `SmtTask_live` |

Between them the bounds leave room for each hard case: two tasks that wait for one
another, a task with one stale and one good record, a rejected and retried task next to a
config transaction for the same cell, a task closed because the script changed, a foreign
change between any two steps, a crash between any two steps.  The last two happen in
`SmtTask_rivals` only, and no run has all of them at once: that retries, crashes and
foreign changes of any number do not disturb the invariants together is what section 7
proves (`SmtFollowsChain` for any number of crashes, `GivenUpNotOnChain` for foreign
changes too).  No run looks at a crash between send and mark, which `SendMarked`
excludes.  `MaxTasks` and `MaxTxs`
are large enough for every request, retry and foreign change of the run to get its
task and transaction; they, and the limits on requests, are why runs may stop and
deadlock is not checked: nobody has to send another request.  Accounts are symmetric
in `SmtTask_core`.  In `SmtTask_undone` `MaxUndone` is 0 for 3, so that one closed task
does what four do in the code.

`SmtFollowsChain` is checked, and proved (section 7), without changes by other
services: with them it is violated (`SmtTask_stale`).

The three requests of `SmtTask_live` make a mint that is stale before its task is sent,
in a task of its own or beside one that is good.  When the good part gets on chain, the
parser makes the stale record a chain record as well (`Revived`), the confirmer's
comparison with the syncer's block never holds, the task stays (0,2) and every later task
of the parent waits for it (`Blocked`): the finding `SmtTask_closed`.  `RecordsSettle`
and `ChainTasksConfirm` are claimed, and hold, unless that has happened.  Retries are in
the safety runs only.

### Fairness

Every worker is a ticker that goes on ticking, so `Updater \/ UpdFail` and its like are
weakly fair.  A step that an error can prevent each time (lock, checks, start of the
write, rollback, confirmation) gets strong fairness: errors of Redis, the database, the
node and the SMT server do not last for ever.  No fairness is given to sending: the
node may refuse, and `UpdSend` need not happen for `RecordsSettle` to hold, as a failed
attempt counts as a retry.  The node settles its pool, the syncer and the parser follow
the chain, Redis expires a dead lock.  Requests, other services and crashes are not
fair.

## 4. `PayOrder`

### State

| Variable | Code |
|---|---|
| `order`, `nOrder` | `t_order_info` by id: action_type, account, pay_address, coupon_code, pay_status, order_status; `old` when its timestamp is out of the three days the queries look at; `raced`, which is history and no column, once a replacement has overwritten it as unpaid while it was paid |
| `pay` | `t_payment_info` by pay_hash: order, pay_hash_status, refund_status; `old` likewise |
| `rec`, `nRec` | `t_smt_record_info` by id: account, nonce plus one, sub-action, record_type, order_id; `onChain` once its change is in a block, which the table does not know yet; `open` when it was closed as stale and the rest of its task goes on |
| `used` | codes of `t_coupon_info` with status Used |
| `couponSet` | `t_coupon_set_info` by its order: status, and how often its codes were made |
| `synced`, `chain` | version of an account in `t_account_info` and on chain |
| `uni` | payments at unipay and what it was asked to refund |
| `locked` | locks in Redis: of a coupon code, and of the parent account while a set is ordered |
| `make`, `conf`, `chk`, `rfd` | what a running `doAutoOrderCreate` or `doCouponOrderCreate` (one per address), `DoPaymentConfirm` (one for notices, one for the poll), `doOrderCheck` and `doRefund` hold between two steps |

### Actions

* `OrderCheck` (the checks, on what the tables say now), `OrderLock` (coupon lock and
  status), `OrderCreate` (unipay, then one transaction), `OrderFail` (every error
  return, with the deferred unlock).  `checkSubAccount` is translated branch by branch.
* `CouponOrderCheck` (the parent's lock, and the order to replace must be open),
  `CouponOrderRead` (it is read a second time), `CouponOrderCreate` (unipay, then one
  transaction): an order for a set of codes, which may replace any order.
  `ReplacedOrder` is the row that `Save` writes over it, with every column as it was read
  before the call to unipay, whatever was written in between.
* `doAutoOrderHash`: the client reports the hash of its payment, at any time; a coupon
  set is Paid from then on.
* `ConfirmRead`, `ConfirmWrite`, `ConfirmFail`: `DoPaymentConfirm`.  `MayConfirm` is
  what lets a notice (any payment unipay ever confirmed, as often as it likes, in any
  order) or the poll (orders with a recent pending payment) call it.  The first
  confirmed payment queues the record, or makes the codes of the set.
* `OrderCheckList` takes the oldest undecided orders, `CheckLimit` of them (100 in the
  code).  `OrderCheckRecord` and `OrderCheckMint` (two reads), `OrderCheckRenew`,
  `OrderCheckFail`.  The renewal's reads are one step: the account it read is only
  tested for existence, and accounts do not vanish.
* `RefundList`, `RefundOrder`, `UpdateRefundStatusToRefundIng`, `RefundFail`;
  `NoticeRefunded`, `PollRefunded`, `UpdatePayHashStatusToFailByDispute`.
* The pipeline, as far as an order sees it: `RecordCommits`, `SyncAccount`,
  `RecordToClosed` (with the deletion of a closed twin; the rest of the task may go on),
  `RecordToChain` (of a record whose change is on chain, and of a closed one whose task
  went on, as `UpdateToChainTask` takes all records of the task), `OtherRecord` (another handler's change of the account).
* Environment: `MakePayment`, `UniSettle`, `UniRefund`, `GrowOld`, `LockExpire`,
  `Crash`.

### Assumptions

* Unipay takes a repeated request to refund a payment as the same request
  (`RefundOrder` is called again when its answer was lost).
* A client reports a hash for the order it paid.
* gorm's `Save` of a coupon that is no longer Normal fails (its update matches no row,
  so it inserts and hits the primary key) and undoes the transaction: that, and not the
  lock, is what `CouponUsedOnce` rests on.
* A record of an order does not commit after it is closed: `GivenUpNotOnChain` and
  `SmtFollowsChain` of `SmtTask`, under the assumptions there.
* Accounts are not recycled within the life of an order.

### Runs

| Run | What | Bounds |
|---|---|---|
| `PayOrder_orders` | `TypeOK`, `ServedOnce`, `RefundedNotServed`, `SuccessIsOnChain`, `PaidIsBacked` | 1 account, past its grace period once it is minted (which only lets more renewals through), 2 orders, 2 payments, 1 other record, versions to 2, `RefundSwitch` off |
| `PayOrder_coupon` | `CouponUsedOnce`, `CodesMadeOnce`, `ConfirmedIsPaid` | 2 buyers, 1 code, all three kinds of orders, of which 2 are placed, 1 payment, 1 crash, orders may grow old |
| `PayOrder_live` | `ReportedIsConfirmed`, `PaidSettles`, `RefundCompletes` | 2 orders, 2 payments, 1 other record, versions to 2, a round of the order check that looks at 1 order |

Two orders for one account compete for it whoever places them, so one address is
enough in `PayOrder_orders`: with two orders, two payments and another handler's record
the run has two paid mints, a mint sold to somebody else, two renewals with one nonce,
an order paid twice, and a payment confirmed by a notice and the poll at once.  What
unipay does with a marked payment is in the other two runs; `RefundedNotServed` is
about the mark, and is proved for either value of the switch.  In
`PayOrder_coupon` one payment is enough for a set to be paid twice over: its notice may
come again and meet the poll, before the order is replaced, between the read and the
save of the replacement, and after it.

`PayOrder_live` starts where its second order can be starved or not: the first one is
paid, and is a mint the order check will settle or a renewal without a record, which it
never will (`LiveSpec`; both are states that `Spec` reaches, but for the ids of records
that ended before).  With `CheckLimit` 1 for 100, one such renewal does what 100 do in
the code.  Runs stop when their orders and payments are used up, so deadlock is not checked.

### Fairness

The tickers of the poll, the order check and the refund go on ticking; the steps that
an error can prevent each time are strongly fair.  Unipay refunds what it was asked to,
the syncer follows the chain; neither clients nor notices are fair, so every notice
may be lost.  Liveness is claimed for orders and payments within their windows
(`OldOrders` is FALSE).

### What is not claimed, and why

* A mint is a success as soon as the account is there and its own record is not known
  to be closed.  If another handler minted the account, the order's record is closed
  later and the payment is kept: `SuccessIsOnChain` therefore says of a mint only that
  the account exists.
* What is paid between the read and the save of a replacement is lost
  (`coupon_order_create.go:138-221`, a call to unipay apart): the order is saved as
  Unpaid and Closed, the payment stays confirmed and is neither settled nor refunded, and
  a repeated notice makes the codes again or queues a second record.  `ServedOnce`,
  `CodesMadeOnce` and `ConfirmedIsPaid` name this case (`raced`) and claim that it is the
  only one.
* A renewal is a success also if its record was closed as stale in a task whose other
  records got on chain: the order check takes the revived record for a chain record.
  `SuccessIsOnChain` says of it only that the account has reached the version asked for, by
  somebody else's change.
* 100 paid orders that cannot be decided keep every later one from being looked at, until
  their three days are over: the list is sorted by time and limited.  `PaidSettles` is
  claimed for orders that are not `Starved`.
* A renewal whose record was refused by the unique key, or deleted as the closed twin of
  another one, stays Paid and Default for ever; `PaidSettles` claims only renewals with
  a record.
* A second payment of an order that succeeds, and the other payments of a disputed
  order, are never marked for refund.
* A dispute fails an order whether or not its account is on chain.
* The code looks neither at the kind nor at the buyer of an order that is replaced.  A
  mint or renewal that is replaced while it is paid is Closed, and neither settled nor
  refunded from then on; if the order check had it in its list, its payment is still
  marked.  `RefundedNotServed` is therefore stated and proved where no coupon sets are
  ordered.

## 5. `Intake`

### State and actions

`recs` holds the waiting rows of `t_smt_record_info` (and the chain rows of recycling,
the only ones a handler reads), `cache` the sign keys in Redis, `mintSign`
`t_mint_sign_info`, `leaf` what the chain says of an account and `info` what the syncer
has told the database.  A handler that has done its checks and is about to insert is in
`flight`: that is where others come between.

* First calls, `Prepare`: `doSubAccountCreateNew`, `doSubAccountRenew`,
  `doSubAccountEditNew` (owner, manager, records) and the four approvals
  (`doApprovalEnableSubAccount`, `...Delay...`, `...Revoke...`, `...Fulfill...`), each
  with the checks it makes.
* Second calls, `SendKey`: `doSubActionCreate`, `doSubActionEdit`,
  `doSubActionApproval`, which check again what the code checks again and no more; a
  key may be sent any number of times until it expires.
* `Direct`: `doInternalSubAccountMintNew`, `doRecycleAccount`; and the ticker
  `recycleSubAccount`.
* `Insert`: `CreateMinSignInfo`, `CreateSmtRecordList`, `CreateRecycleSmtRecordList`, one
  database transaction each, with the unique key.
* `Pipeline`, `Sync`, `ParentChange`, `Expire`, `NextDay`: the world outside.  `Confirm`
  applies a record with `GetCurrentSubAccountNew`, action by action.

`DelayCountRemain` is a byte that is decremented without a test, and wraps.

### Run and bounds

`Intake_signs`: one account that exists and one that does not, 2 owners, 2 managers of
the parent, 2 changes that are signed, 1 change of the parent, 5 days of which an
account has 2 and a grace of 1, nonces to 3.  Two signed changes are what a race needs;
recycling, direct mints and the pipeline are not counted.  Days are long enough for
each margin of the code (signature, grace, protection, what an approval needs left) to
fall on both sides.  Users stop asking, so deadlock is not checked, and no liveness is
claimed here: what waits is `SmtTask`'s to settle.

### Assumption `Prompt`

With `Prompt` TRUE nothing is confirmed between a handler's last check and its insert,
the recycle ticker and the recycle handler do not run at once, and a new day finds no
sign key alive, no stale record and the syncer up to date.  The code does not ensure it;
its margins are days where the steps take seconds or minutes.  With it FALSE there are
real races: a renewal prepared before the grace period ends and sent after the recycling
is confirmed waits for ever (`NoGap`), and two recyclings of one account wait at once.

### What is not claimed

* An approval is not checked again when it is sent, but for being pending: a fulfilment
  prepared before `SealedUntil` and sent after it is inserted with an empty signature
  under the owner's role.
* A recycling record on chain counts as one that waits (`GetRecycleSmtRecord` has no
  record type), so that an account recycled once is never recycled again.

## 6. `BlockParser` and `ParentCell`

### State and actions

`BlockParser` is the loop of `Run`: `main` is the node's chain, a block of it known by
its number and the fork that made it, `stored` is `t_block_parser_info`, `parser` the
current number and what is left of a batch.  `parserSubMode` checks the parent hash and
steps back, or handles a block; `parserConcurrencyMode` handles a batch without a look.
`Broken` is a handler, the version check or the node failing, or a restart, which begins
at the block after the last one stored.  `Fork` replaces the last blocks; transactions
are mined again, in the blocks they were in or one to a side.  Handling and storing a
block are one step with two failures: before the handlers, and after them
(`HandleAgain`), when they run again.

`ParentCell` adds the transactions that spend the parent's cell.

* Signed by the owner, from `buildTx` over the sign cache to `doActionNormal`:
  `doSubAccountInit`, `doPriceRuleUpdate`, `doPreservedRuleUpdate`,
  `doConfigAutoMintUpdate`, `doCustomScript`.  A transaction carries the rules in its
  witnesses, its cell their hashes, and `rulesTxAssemble` carries over the list it does
  not set.  The accounts a rule names go to `whitelist` before the signature.
* Signed by the server: `doProfitWithdraw`, and the two ways to withdraw the income of
  the service provider, which hold no lock: a call (`calls`) takes its steps one at a time
  and others come in between.  `buildServiceProviderWithdraw` reads the statements
  (`FindSubAccountAutoMintStatements`), then looks at its history (`CheckHistory`);
  `buildServiceProviderWithdraw2Tx` looks at the pending and the last committed row first
  (`CheckPending`) and reads the statements then.  After one `GetTransaction` per income
  either reads the live cell and sends (`SendWithdrawal`), or ends with nothing left
  (`CallFails`).
* `CreateTask` inserts the row after the send, of the older endpoint together with its
  history, as the database transaction in which it sends is committed.  `LoseRow` is
  that row lost: an error that is only logged, or that database transaction rolled back
  because the send for another parent of the same call failed later.  `doCheckTx` marks
  rejected rows.  `tasks` lists the rows by id; a row the parser replaces stays there as
  `Deleted`.
* `Handler` is `mapTransactionHandle`, one operator per handler, composed with the step
  of the parser that takes up the block.
* The world: `Update` (a transaction of `SmtTask`, with the rules of `t_rule_config`),
  `Evict`, `MineTx`, `MineOther`, `ForkAll`, `Sync`.

What is one step although the code takes several: the live cell is read and the
transaction sent in one, as the node refuses what spends a cell that is spent by then.
The older endpoint repeats its history check for each income; later failures only leave
incomes out.  It takes the latest expenditure over all parents, which `since` stands for:
any block between this parent's own and the syncer's.  A configuration is checked, built
and its accounts inserted into the white list in one (`price_rule_update.go:73`, `:197`,
`:121`, a few calls without waiting): another configuration mined inside that window
would delete the new rows, which is the overlap `WhitelistServed` does not look at.

### Run and bounds

`ParentCell_chain`: 5 blocks, 4 transactions (one is the enabling), 1 request that waits
for a signature, 2 calls that withdraw, 1 fault (fork, eviction, failed handler, restart or
lost row); forks of up to 3
blocks, batches of 2, 2 stored blocks kept for 20, nothing left to settle.  The parent
is fresh, or was enabled long before the parser starts.  A fork is as deep as what is
stored and deeper; both modes and the change between them occur; two configurations and
two withdrawals race.  To keep the run small, `BoundedSpec` lets calls begin after there
has been an income, two at a time only where nothing has gone wrong and no request waits,
and after a fault only beside updates (988 759 states).  `CaughtUp` is checked under weak fairness of `HandleBlock`
only: the goroutine goes on, and faults are finitely many in the model as they are in
its claim.  Blocks and transactions are used up, so deadlock is not checked.  With 6 blocks
and one withdrawal at a time the same properties hold (1.6 million states).

### Assumptions

Each is a constant, and with it FALSE TLC finds the property in brackets violated
(for `ForkNoticed` with `MaxBlocks = 6`, where a batch can begin after such a fork).

* `ForkNoticed`: no stored block leaves the main chain so far behind that the parser
  would take it up in a batch (`RowsFollowChain`).  With the 100 blocks of the example
  configuration a fork that deep does not happen by itself; it takes a parser that was
  stopped during a fork and is started 100 blocks later.
* `Saved`: the row of a sent transaction is inserted before the transaction leaves the
  pool, or is a withdrawal's and lost by then (`RowsFollowChain`, `PaidOnce`,
  `WhitelistServed`).  The code only logs an error of `CreateTask`.
* `ParserAssumption`: the chain is old enough for `latestBlockNumber - ConfirmNum -
  ConcurrencyNum`, which is unsigned, not to wrap; the parser starts below that block,
  and neither at block 0 nor with no block to keep.

### What is not claimed

* Withdrawals can pay an income twice.  The checks of a call and its send are not held
  together by anything: a call that has passed them may send after another one has, once
  the cell that one left is live.  Nor does a withdrawal whose row was lost stop the next
  one.  The older endpoint looks at its own history only: it may run beside the other one,
  whose withdrawals it knows by their statements alone, and it reads the statements before
  it checks, so that one the syncer fills in between counts as paid and is paid again.
  `PaidOnce` is what is left: no call pays what a withdrawal paid whose row its check could
  find when the call began (`known`), and whose statement did not come or go between its
  two reads.  Calls of one endpoint that do not overlap thus pay different incomes, but for
  that window.
* The row of a lost withdrawal is not inserted by the parser either, so `RowsFollowChain`
  leaves it out.
* Rules can be lost: profit withdrawals, custom scripts and `withdraw2` carry no rules,
  and an update of a rule built on their cell carries over none.  `NoRuleRevived` says
  that none comes back.
* A block handled twice deletes the white list rows of what was prepared in between, so
  `WhitelistServed` is claimed while that has not happened.
* A row inserted after the parser has met the transaction stays pending, and every
  later configuration of the parent is then refused.
* The tasks of `withdraw2` and of profit withdrawals have no service name, so that
  their rejection is never noticed (`SmtTask_profit`); after one, `withdraw2` refuses for
  ever.

## 7. Proofs

Every invariant and action property that a passing run checks is stated by a theorem.

### `SmtTask` (`SmtTaskProofs`, `SmtTaskRefinement`, `SmtTaskRecords`, `SmtTaskRoots`)

For every set of accounts and scripts and all bounds, from `SmtTaskAssumption` only
(naturals, at least one task, transaction, version and record per task, finitely many
accounts, 0 is a script); `SendMarked` may be TRUE or FALSE.

* `TypeCorrect`: `Spec => []TypeOK`.  `TypeOK` alone is not inductive: a worker between
  two steps uses its task as an index and the block it read, so `StepsOK` is added (a
  worker that is not idle has an existing task, the updater's block is one of the chain,
  a handled block is not stored yet).  One lemma per group of actions; `LongerChain`
  carries what refers to blocks over to a longer chain.
* `MutualExclusion`: `Spec => []LockMutex`.  `LockMutex` says who holds the lock from
  where each worker is, and is inductive with `TypeOK`.
* `AtMostOneInFlight`: `Spec => []OneInFlight`.  The updater checks that nothing is in
  progress long before it marks its own task.  The invariant that makes this enough is
  `ClearToWrite`: from that check until the task is marked, no task is in flight.  Its
  heart is `OthersTakeNoOff`: no step of anybody else puts a task in flight, whatever
  state it starts from.  The lock is not needed for it.

`SmtTaskRefinement` proves what becomes of a task.

* `EndsAreFinal`: `Spec => EndIsFinal`, for either value of `SendMarked`.
* `GivenUpIsOff`: `SendMarked /\ Spec => []GivenUpNotOnChain`.
* `SmtTaskIsBatches`: `SendMarked /\ Spec => Implements`, the refinement.

None of the three formulas is inductive.  The strengthening has four parts, of which the
first three hold whatever is lost (`SmtInv0`) and the fourth needs `SendMarked`
(`SmtInv`):

* `TxsOk`: a task's transaction is an update, and if the node took it the cell it spends
  was on chain.  The checker calls a task lost also because a task it builds on is lost;
  this is why such a task has no transaction left that could get on chain.
* `RowsOk`: what a row looks like depends on where it came from.  Only the distributor's
  rows are delegate or closed tasks and are ever retried, only handlers' and parser's rows
  are replaced by the parser, and the outpoint of a distributor's row is that of a
  transaction built for it.  This is what keeps the updates that name a row by its id
  or its outpoint from hitting one that ended.
* `UpdTask`: the task in the updater's hands stays a delegate task in (0,0), then (1,0),
  until it is marked or let go: nobody else lists it.
* `Linked`: a transaction that is on chain or may get there is the last one built for its
  task, and the task is pending, a chain task, or about to be marked by the updater.  A
  lost answer or a failed mark breaks exactly this part (section 3 says what follows).

Each action has one lemma that concludes `Sound`: the parts hold after the step, no ended
task was touched, and, while what was sent is recorded, the step is one of `SmtBatch` or
leaves it alone.  `SmtTask_core` and `SmtTask_rivals` check the three formulas on small
instances.

`SmtTaskRecords` proves what becomes of the records, for either value of `SendMarked`
and with any number of changes by other services.

* `RecordsAreKept`: `Spec => []NoRecordForgotten`.
* `WorkersHaveRecords`: `Spec => []WorkHasRecords`.
* `BlocksAreRecorded`: `Spec => []ParsedIsRecorded`.

They rest on `SmtInv0` and `RecInv`, in three parts: `TasksOk` (a record waits only in a
task that is open, and every open task keeps one; the transaction of a task that is sent
changes what its waiting records ask for; the rollback worker's task stays one to roll
back), `CellsOk` (only updates change accounts, and no block is on chain twice) and
`ParsedOk` (the chain records of each block stored, and of the one that is handled and
not stored, are there).  What makes the statements that select by task id alone
safe is that every step that ends a task takes its waiting records along, in one database
transaction.

`SmtTaskRoots` proves `RootFollowsChain`: `SendMarked /\ MaxForeign = 0 /\ Spec =>
[]SmtFollowsChain`.  Both hypotheses are needed: section 3 says what TLC finds without the
first, `SmtTask_stale` shows the second.  The invariant is `RootInv`:

* `Ours`: what the distributor's rows can look like where nobody else changes the tree,
  and that all records are in such rows.
* `BusyInv`: at most one task has leaves on the SMT server that the live cell may not
  have or not have yet - it is in flight, or found on chain and not confirmed - and
  none has while the updater is between its checks and the start of its write.
* `NetInv`: a transaction leaves the accounts alone that it does not change, and blocks
  the syncer has not seen are of the busy task.  This is why reading old leaves from
  `t_smt_info` restores the right ones.
* `WorkInv`: accounts without a record in the busy task have the leaf of the live cell;
  what the rollback worker and the confirmer are about to write is the leaf of the live
  cell for the accounts in their records.

`Moves` describes how any step moves a row and a record; each action is shown to be one of
these moves, and each part of `RootInv` to survive the moves.

### `PayOrder` (`PayOrderProofs`)

For every number of accounts, buyers, payments, codes, orders and crashes, from
`PayOrderAssumption` only (finite sets, at least one order and version) unless said
otherwise.

* `OrdersTyped`: `Spec => []TypeOK`.  Inductive as part of `Base`, which adds that there
  are rows left for the orders being made, that rows not given out are empty, that a
  payment is stored with the order unipay has for it, and that only what unipay confirmed
  is being confirmed.
* `CouponPaysOnce`: `Spec => []CouponUsedOnce`, from `CouponsHeld`: the code of an order is
  Used.  No lock is in the proof.
* `OrderServedOnce`, `SetCodesMadeOnce`, and `PaidIffConfirmed` (`ConfirmedIsPaid` and
  `PaidIsBacked`), from `Bought`: an order is paid exactly if it has a confirmed payment,
  has at most one record and only if it is paid, and the codes of its set are made exactly
  if it is - or it is `raced`, and then it is closed.  They rest on one condition of the
  code, `pay_status = Unpaid` in the update of the order, and on nobody else writing that
  column but the handler that replaces the order, which may write back what it read
  before.  No assumption excludes that race; the invariant says that it is the only way to
  lose a payment, and what is left of the order.  `PaidIsBacked` has no exception.
* `SuccessIsServed`: `Spec => []SuccessIsOnChain`, also with replaced orders and with
  closed records that are revived.  `Delivered` adds that the syncer is not ahead of the
  chain and that a record is marked only if it is on chain, or closed as stale, when the
  account had reached its version.
* `RefundedIsNotServed`: `Spec => []RefundedNotServed` where no coupon sets are ordered
  (`"CouponCreate" \notin ActionTypes`).  `doOrderCheck` decides from what it read before,
  so `Settled` says of its memory that the orders in its list are paid and not a success, and that a mint
  about to fail has no open record; nothing that runs between the reads changes that.

### `Intake` (`IntakeProofs`)

For every set of accounts, people and managers and all margins, limits and bounds, from
`IntakeAssumption` only (finitely many accounts, two people at least once there is one,
naturals, `MaxDelay` a byte).

* `IntakeTyped`: `Spec => []TypeOK`, and `MintsAreWhole`: `Spec => MintWhole`, for either
  value of `Prompt`.  That an expiry stays within its type is not local: a signature renews
  an account once, however often its key is sent (`RenewsOk`, which rests on the row
  of `t_mint_sign_info` inserted with the records), so what an account is registered for
  and what the signatures left may still add has a bound (`ExpOk`).  `ListsOk` says what
  keys and handlers hold: at most one change of an account, of the kind of its handler.
* `NobodyWaitsForever` (`NoGap`), `NextIsAllowed` (`WaitingAllowed`) and `NextIsEntitled`
  (`WaitingEntitled`): `Prompt /\ Spec => [](...)`.  `PromptInv` extends the three to
  what is cached or about to be inserted, which is where they go wrong first, and adds
  what the days between the margins give: an account past its grace period is known to be
  (`DeadOk`) and nothing but its recycling is asked for; it is recycled once
  (`OneRecycle`); one that was recycled is not asked for at all (`LostOk`); any other
  account is as the database knows it until its nonce grows (`KnownOk`).  Without `Prompt`
  TLC finds `NoGap` violated (section 5).

### `BlockParser` and `ParentCell` (`BlockParserProofs`, `ParentCellProofs`)

For every number of blocks, forks, faults, transactions and requests and every setting of
the parser, from `ParserAssumption` and `CellAssumption`.

* `CellIsTyped`: `Spec => []TypeOK`, and `NoRuleReturns`: `Spec => []NoRuleRevived`, from
  nothing else.  `RulesKept` says it of all transactions ever built, by induction on
  what they were built from; that what is on chain or in the pool was built from its
  predecessor is `Placed` (each transaction is in one place, and what waits spends the
  live cell).
* `RowsAreOfTheChain`: `Settled /\ Saved => (Spec => []RowsFollowChain)`.  `ParserInv`
  holds what the loop knows of the chain: the stored blocks are an interval that ends where
  the parser stands (`Window`); stored blocks that are on the main chain are below those
  that are not, and the latter are all that lies ahead (`Branch`); a handled
  block that is not stored any more is too old for a fork (`Old`); a batch runs on the main
  chain (`Batch`).  So the blocks behind the parser, but for those stored as they were on
  another fork, were handled as they are now (`Done`), and their rows are right
  (`RowsRight`).
* `IncomesArePaidOnce`: `Saved => (Spec => []PaidOnce)`, for any number of calls at a time
  and forks of any depth.  A withdrawal that the check of a call can find is paid for,
  because the check looks at the last one only and the tables order withdrawals as the
  chain does: `history` (`HistoryKept`) and the rows of `t_task_info`, re-inserted ones too
  (`RowsOrdered`).  So all of them have their statements when the incomes of the call are
  read, or did not a moment ago (`CallsKept`, `PaysKept`); nothing holds for the
  withdrawals sent since the call began, and the theorem does not speak of them.
* `NamedAreServed`: `Saved => (Spec => []WhitelistServed)`, for forks of any depth.
  `ConfigsKept` says why one configuration at a time is enough: a configuration is built only
  when the last row of one is not pending, so one that is mined and not handled is the only
  one open (`OneOpen`) and has the last row (`OpenLast`); the lists it carries over
  are those in force (`Setters`), and those in force have their accounts in the white list
  (`InForce`).  Being handled twice is what breaks this, and what `twice` excludes.  That
  only the rows of withdrawals are lost is `LostPay`.

`Settled` is `ForkNoticed` with two bounds on the depth of a fork: `MaxDepth <= ConfirmNum +
Kept + 1`, so that it does not reach below the window of stored blocks, and `MaxDepth <=
ConfirmNum + 3`, so that it leaves alone what a batch has handled before the batch ends,
which handles its blocks without looking at their parents.  With the example configuration
(`confirm_num: 4`, 20 blocks kept) that is forks of up to 7 blocks; `ParentCell_chain`
runs at both bounds.  TLC shows that no hypothesis is idle: with `Saved` FALSE each of the
three is violated; `RowsFollowChain` is with `ForkNoticed` FALSE and 6 blocks, with one
stored block and forks of 3, and with batches of 4 and forks of 4: the fork moves a
transaction from a block ahead of the batch to one behind it, which is never handled.
Before it was proved, every invariant above was checked by TLC on the instance of the
component's run, those of `ParentCell` with 6 blocks and 2 requests as well.

### Only model-checked

Liveness: `RecordsSettle` and `ChainTasksConfirm` of `SmtTask`, `ReportedIsConfirmed`,
`PaidSettles` and `RefundCompletes` of `PayOrder`, `CaughtUp` of `ParentCell`.  Their
proofs need ENABLED under weak and strong fairness and induction over what is left to do,
which this prover does not have.  The four violations of section 8 are TLC's as well:
each is a trace of a small instance.

## 8. Findings

* `SmtTask_profit`: the task of a profit withdrawal is created without a service name,
  so a rejection of its transaction is never noticed; the parent is then blocked for
  ever by `GetTaskInProgress`.
* `SmtTask_undone`: closed tasks stay (0,0) and count as undone; more than 3 of them
  stop every small batch of the parent.
* `SmtTask_closed`: when part of a task was closed as stale and the rest gets on chain,
  the parser turns the closed records into chain records too.  The confirmer then waits
  for the syncer's rows to reach the task's block for accounts the task did not change, the
  task stays (0,2), and every later task of the parent waits behind it; the order check
  takes the stale record of a renewal for a success.
* `SmtTask_stale`: the rollback worker reads the leaves to restore before it takes the
  lock; a newer leaf, confirmed in between, is overwritten and the parent is blocked by
  "smt root diff".
* With `SendMarked` FALSE, see above.

## 9. Not modelled

* Witnesses, signatures, fees, prices and the layout of transactions; statistics, the
  monthly payments to parents, reports, notification, encryption, HTTP formats.
* The manual repair of an SMT, the deletion of a recycled parent's SMT, load balancing:
  in the plan of section 2.
* Updates of currencies and of the mint page: one key-value row each, signed by the
  owner; two updates at once overwrite one another.

## 10. How to run

    tlc -workers 2 -config SmtTask_core.cfg MCSmtTask
    tlc -workers 2 -config SmtTask_live.cfg MCSmtTask
    tlc -workers 2 -config PayOrder_orders.cfg MCPayOrder
    tlc -workers 2 -config PayOrder_coupon.cfg MCPayOrder
    tlc -workers 2 -config PayOrder_live.cfg MCPayOrder
    tlc -workers 2 -config Intake_signs.cfg MCIntake
    tlc -workers 2 -config ParentCell_chain.cfg MCParentCell
    tlapm SmtTaskProofs.tla
    tlapm SmtTaskRefinement.tla
    tlapm SmtTaskRecords.tla
    tlapm SmtTaskRoots.tla
    tlapm PayOrderProofs.tla
    tlapm IntakeProofs.tla
    tlapm BlockParserProofs.tla
    tlapm ParentCellProofs.tla
