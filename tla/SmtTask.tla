------------------------------- MODULE SmtTask -------------------------------
(***************************************************************************)
(* The SMT task pipeline of one parent account (task/, dao/t_task_info.go, *)
(* dao/t_smt_record_info.go, the update and profit handlers of             *)
(* block_parser/).                                                         *)
(*                                                                         *)
(* HTTP handlers queue smt records.  Five ticker goroutines work on them:  *)
(* the distributor batches records into tasks, the updater turns a task    *)
(* into an update_sub_account transaction, the checker looks for rejected  *)
(* transactions, the rollback worker undoes what a failed task wrote to    *)
(* the sparse Merkle tree (SMT) server, and the confirmer applies to it    *)
(* the transactions the parser found on chain.  They share a MySQL         *)
(* database, the SMT server, a Redis lock per parent and a CKB node.       *)
(*                                                                         *)
(* Data is abstracted to versions: a sub-account's leaf is the number of   *)
(* changes applied to it, 0 while it does not exist, and a record asks     *)
(* for one version.  A transaction that spends the parent's sub-account    *)
(* cell produces the next one, so transaction ids stand for outpoints;     *)
(* only blocks that hold such a transaction are counted.                   *)
(***************************************************************************)
EXTENDS Integers, FiniteSets, Sequences

CONSTANTS
    Accounts,    \* sub-accounts of the parent
    Scripts,     \* custom script hashes; 0 is "no custom script"
    Kinds,       \* what HTTP handlers may send: subset of SpendKinds
    MaxCount,    \* config MaxUpdateCount: records per task
    MaxUndone,   \* undone tasks above which small batches wait (3 in the code)
    MaxRetry,    \* retries of a rejected delegate task
    SendMarked,  \* TRUE: what was sent is recorded in the database before the
                 \* block it is in is parsed, and neither a crash, a database
                 \* error nor a lost RPC answer comes between the two
    \* bounds of the model
    MaxVer, MaxTasks, MaxTxs, MaxReqs, MaxForeign, MaxSpends, MaxCrash

SpendKinds == {"config", "profit", "channel"}

ASSUME SmtTaskAssumption ==
    /\ IsFiniteSet(Accounts)
    /\ 0 \in Scripts
    /\ Kinds \subseteq SpendKinds
    /\ SendMarked \in BOOLEAN
    /\ {MaxRetry, MaxUndone, MaxReqs, MaxForeign, MaxSpends, MaxCrash} \subseteq Nat
    /\ {MaxCount, MaxVer, MaxTasks, MaxTxs} \subseteq Nat \ {0}

TaskIds == 1..MaxTasks
TxIds == 1..MaxTxs
Versions == 0..MaxVer

\* tables.SmtStatus
NeedToWrite == 0
Writing == 1
WriteComplete == 2
NeedToRollback == 3
RollbackComplete == 4

\* tables.TxStatus
UnSend == 0
Pending == 1
Committed == 2
Rejected == 3

\* Where a row of t_task_info came from: with the outpoint it stands for the
\* unique task_id.
Origins == {"distribution", "handler", "parser"}
TaskTypes == {"Absent", "Delegate", "Normal", "Chain", "Closed"}

Row == [type : TaskTypes, smt : 0..4, tx : 0..3, retry : 0..MaxRetry,
        own : BOOLEAN, ref : 0..MaxTxs, out : 0..MaxTxs, bn : Nat,
        script : Scripts, from : Origins]
NoRow == [type |-> "Absent", smt |-> 0, tx |-> 0, retry |-> 0, own |-> FALSE,
          ref |-> 0, out |-> 0, bn |-> 0, script |-> 0, from |-> "parser"]

Record == [acc : Accounts, ver : Versions, type : {"Default", "Closed", "Chain"},
           bn : Nat, task : 0..MaxTasks]

\* "by" is the delegate task a transaction was built for, 0 for any other one;
\* "leaf" what the SMT root in the cell it creates stands for; "upd" the accounts
\* it changes.
Tx == [kind : {"absent", "update"} \cup SpendKinds, ref : 0..MaxTxs, by : 0..MaxTasks,
       leaf : [Accounts -> Versions], upd : SUBSET Accounts, script : Scripts,
       status : {"absent", "built", "pool", "committed", "rejected"}]
NoLeaf == [a \in Accounts |-> 0]
NoTx == [kind |-> "absent", ref |-> 0, by |-> 0, leaf |-> NoLeaf, upd |-> {},
         script |-> 0, status |-> "absent"]

VARIABLES
    \* MySQL, written by this service
    task,     \* t_task_info: id -> row
    nTask,    \* ids given out
    recs,     \* t_smt_record_info
    parsed,   \* t_block_parser_info: last block stored
    \* MySQL, written by the external syncer from the chain
    synced,   \* block up to which t_smt_info and t_account_info reflect the chain
    \* CKB node
    tx,       \* transactions
    nTx,      \* transaction ids used
    chain,    \* the committed ones, one per block
    \* SMT server and Redis
    smt,      \* account -> leaf
    lock,     \* the parent's lock: "none", its holder, or "dead" after a crash
    \* goroutines: what each holds in memory between two steps
    upd,      \* updater: pc, task, block of the live cell it read
    rb,       \* rollback worker: pc, task, leaves it read
    cf,       \* confirmer: pc, task, leaves it read
    hnd,      \* transaction an HTTP handler sent and has not recorded yet, or 0
    handled,  \* the parser handled block parsed+1 and has not stored it yet
    used      \* how much of each bound of the model is used

db == <<task, nTask, recs, parsed>>
net == <<tx, nTx, chain>>
vars == <<task, nTask, recs, parsed, synced, tx, nTx, chain, smt, lock,
          upd, rb, cf, hnd, handled, used>>

\* The points at which a goroutine can be between two steps.
UpdSteps == {"idle", "check", "cell", "lock", "root", "write", "build", "send", "mark"}
WorkSteps == {"idle", "lock", "write", "finish"}

UpdIdle == [pc |-> "idle", t |-> 0, h |-> 0]
NoVal == [a \in Accounts |-> -1]      \* no leaf read for an account
WorkIdle == [pc |-> "idle", t |-> 0, val |-> NoVal]

-----------------------------------------------------------------------------
(* The chain and what is derived from it *)

Height == Len(chain)
LiveCell == chain[Height]

\* The root in the cell that block h created.
RootAt(h) == tx[chain[h]].leaf

\* t_smt_info: the leaf of an account, and whether the block that last changed it
\* is bn or a later one.
Info(a) == RootAt(synced)[a]
HasSynced_mut(a, bn) == Info(a) # 0 /\ \E h \in bn + 1 .. synced : a \in tx[chain[h]].upd
HasSynced(a, bn) == Info(a) # 0 /\ \E h \in bn .. synced : a \in tx[chain[h]].upd

\* The node accepts a transaction that spends the live cell, is not a double
\* spend, and moves every leaf it touches to its next version: the contract
\* checks each leaf against the old root, and each signature against the nonce.
Accepted(x) ==
    /\ tx[x].ref = LiveCell
    /\ \A y \in TxIds : tx[y].status = "pool" => tx[y].ref # tx[x].ref
    /\ \A a \in tx[x].upd : tx[x].leaf[a] = RootAt(Height)[a] + 1

-----------------------------------------------------------------------------
(* Queries of dao/t_task_info.go and dao/t_smt_record_info.go *)

At(t, s, x) == /\ task[t].type # "Absent"
               /\ task[t].smt = s
               /\ task[t].tx = x

\* Operators named _mut are faults a change of the code could make; nothing uses
\* them but the project's mutation runs.

\* (1,0)(2,1)(0,2)(3,?)
GetTaskInProgress_mut == \* the last SELECT of the UNION is forgotten
    {t \in TaskIds : \/ At(t, Writing, UnSend)
                     \/ At(t, WriteComplete, Pending)
                     \/ At(t, NeedToWrite, Committed)}
GetTaskInProgress ==
    {t \in TaskIds : \/ At(t, Writing, UnSend)
                     \/ At(t, WriteComplete, Pending)
                     \/ At(t, NeedToWrite, Committed)
                     \/ task[t].smt = NeedToRollback}

GetUnDoTaskList == {t \in TaskIds : At(t, NeedToWrite, UnSend)}

GetNeedToDoTaskList_mut1 == \* no filter on task_type
    {t \in TaskIds : /\ task[t].own
                     /\ At(t, NeedToWrite, UnSend) \/ At(t, Writing, UnSend)}
GetNeedToDoTaskList_mut2 == \* interrupted tasks are not listed
    {t \in TaskIds : /\ task[t].type = "Delegate"
                     /\ task[t].own
                     /\ At(t, NeedToWrite, UnSend)}
GetNeedToDoTaskList ==
    {t \in TaskIds : /\ task[t].type = "Delegate"
                     /\ task[t].own
                     /\ At(t, NeedToWrite, UnSend) \/ At(t, Writing, UnSend)}

GetNeedDoCheckTxTaskList ==
    {t \in TaskIds : At(t, WriteComplete, Pending) /\ task[t].own}

GetNeedRollBackTaskList ==
    {t \in TaskIds : task[t].smt = NeedToRollback /\ task[t].own}

GetNeedToConfirmOtherTx ==
    {t \in TaskIds : At(t, NeedToWrite, Committed) /\ task[t].own}

GetTaskByRefOutpointAndOutpoint(x) ==
    {t \in TaskIds : /\ At(t, WriteComplete, Pending)
                     /\ task[t].ref = tx[x].ref
                     /\ task[t].out = x}

RecordsOf(t) == {r \in recs : r.task = t}
DefaultOf(t) == {r \in RecordsOf(t) : r.type = "Default"}
ChainOf(t) == {r \in RecordsOf(t) : r.type = "Chain"}
NeedDoDistribution == RecordsOf(0)

\* A record asks for the version after the one its account had when it was
\* queued; it is stale once the account has reached that version.
Stale(r) == Info(r.acc) >= r.ver

TaskIsStale(t) == \A r \in DefaultOf(t) : Stale(r)

CloseRecords_mut(t, rs) == \* UPDATE IGNORE instead: a record with a closed twin stays
    {r \in recs : r \in rs => \E q \in recs : /\ q.type = "Closed"
                                             /\ q.acc = r.acc
                                             /\ q.ver = r.ver}
    \cup {[r EXCEPT !.type = "Closed"] : r \in rs}

\* Close the records rs of task t, first deleting the closed records of other
\* tasks that would have the same unique key.
CloseRecords(t, rs) ==
    {r \in recs \ rs : ~ \E c \in rs : /\ r.type = "Closed"
                                       /\ r.task # t
                                       /\ r.acc = c.acc
                                       /\ r.ver = c.ver}
    \cup {[r EXCEPT !.type = "Closed"] : r \in rs}

AccountsOf(rs) == {r.acc : r \in rs}

\* The leaf the syncer knows for every account of the given records, the empty
\* one for an account it does not know.
InfoLeaves_mut(rs) ==
    [a \in Accounts |-> IF Info(a) # 0 /\ a \in AccountsOf(rs) THEN Info(a) ELSE -1]
InfoLeaves(rs) ==
    [a \in Accounts |-> IF a \in AccountsOf(rs) THEN Info(a) ELSE -1]

\* The leaves after the change the given records ask for.  The code derives the
\* new leaf from the syncer's, with Nonce++ (or the first one, for a mint), which
\* is the version a record that passed the nonce check asks for.  If the syncer
\* moved on since, the cell the updater read is spent, so the node refuses the
\* transaction and the leaf is rolled back whatever it was.
ChangedBy(rs, leaves) ==
    [a \in Accounts |-> IF a \in AccountsOf(rs) THEN (CHOOSE r \in rs : r.acc = a).ver
                        ELSE leaves[a]]

LockFree == lock = "none"

-----------------------------------------------------------------------------
\* The database holds the task of the block that created the cell.
Init ==
    /\ task = [t \in TaskIds |->
                 IF t = 1 THEN [NoRow EXCEPT !.type = "Chain", !.smt = WriteComplete,
                                             !.tx = Committed, !.out = 1, !.bn = 1]
                 ELSE NoRow]
    /\ nTask = 1
    /\ recs = {}
    /\ parsed = 1
    /\ synced = 1
    /\ tx = [x \in TxIds |->
               IF x = 1 THEN [NoTx EXCEPT !.kind = "config", !.status = "committed"]
               ELSE NoTx]
    /\ nTx = 1
    /\ chain = <<1>>
    /\ smt = NoLeaf
    /\ lock = "none"
    /\ upd = UpdIdle
    /\ rb = WorkIdle
    /\ cf = WorkIdle
    /\ hnd = 0
    /\ handled = FALSE
    /\ used = [reqs |-> 0, foreign |-> 0, spends |-> 0, crash |-> 0]

-----------------------------------------------------------------------------
(* HTTP handlers and the distributor *)

\* A handler queues the next change of an account, or a mint: an order placed
\* before the account existed may be paid after it was minted for another one.
\* The unique key refuses a second waiting record for the same version.
Request(a) ==
    \E v \in {1, Info(a) + 1} \cap Versions :
        /\ used.reqs < MaxReqs
        /\ ~ \E q \in recs : q.acc = a /\ q.ver = v /\ q.type = "Default"
        /\ recs' = recs \cup {[acc |-> a, ver |-> v, type |-> "Default", bn |-> 0,
                               task |-> 0]}
        /\ used' = [used EXCEPT !.reqs = @ + 1]
        /\ UNCHANGED <<task, nTask, parsed, synced, net, smt, lock, upd, rb, cf,
                       hnd, handled>>

\* All waiting records are cut into batches of at most MaxCount, each a new
\* delegate task.  A small batch waits while more than MaxUndone tasks of the
\* parent are undone.
doUpdateDistribution ==
    LET new == NeedDoDistribution
    IN  /\ new # {}
        /\ Cardinality(new) >= MaxCount \/ Cardinality(GetUnDoTaskList) <= MaxUndone
        /\ \E k \in 1 .. MaxTasks - nTask : \E batch \in [new -> 1..k] :
             /\ \A i \in 1..k : Cardinality({r \in new : batch[r] = i}) \in 1..MaxCount
             /\ task' = [t \in TaskIds |->
                           IF t \in nTask + 1 .. nTask + k
                           THEN [NoRow EXCEPT !.type = "Delegate", !.own = TRUE,
                                              !.script = tx[LiveCell].script,
                                              !.from = "distribution"]
                           ELSE task[t]]
             /\ nTask' = nTask + k
             /\ recs' = (recs \ new)
                        \cup {[r EXCEPT !.task = nTask + batch[r]] : r \in new}
        /\ UNCHANGED <<parsed, synced, net, smt, lock, upd, rb, cf, hnd, handled, used>>

-----------------------------------------------------------------------------
(* The updater: task/update_sub_account.go, task/do_task.go, txtool *)

UpdUnchanged == <<parsed, synced, nTask, rb, cf, hnd, handled, used>>
UpdStop_mut == \* UnLockWithRedis, which deletes the key whoever set it, also runs
    /\ upd' = UpdIdle    \* when the lock was busy
    /\ lock' = "none"
UpdStop == /\ upd' = UpdIdle
           /\ lock' = IF lock = "upd" THEN "none" ELSE lock

\* One task per parent and round: the oldest.
HeadTask(t) == /\ upd.pc = "idle"
               /\ t \in GetNeedToDoTaskList
               /\ \A u \in GetNeedToDoTaskList : t <= u

\* A task found in (1,0) was left there by a failed attempt.
UpdRollbackWriting(t) ==
    /\ HeadTask(t)
    /\ task[t].smt # NeedToWrite
    /\ task' = [task EXCEPT ![t].smt = NeedToRollback]
    /\ UNCHANGED <<recs, net, smt, lock, upd, UpdUnchanged>>

\* doCheckNonceNew closes stale records; the round ends there if it found any.
UpdCloseStale(t) ==
    LET stale == {r \in DefaultOf(t) : Stale(r)}
    IN  /\ HeadTask(t)
        /\ task[t].smt = NeedToWrite
        /\ stale # {}
        /\ recs' = CloseRecords(t, stale)
        /\ task' = IF TaskIsStale(t) THEN [task EXCEPT ![t].type = "Closed"]
                   ELSE task
        /\ UNCHANGED <<net, smt, lock, upd, UpdUnchanged>>

UpdPassNonce(t) ==
    /\ HeadTask(t)
    /\ task[t].smt = NeedToWrite
    /\ \A r \in DefaultOf(t) : ~ Stale(r)
    /\ upd' = [UpdIdle EXCEPT !.pc = "check", !.t = t]
    /\ UNCHANGED <<task, recs, net, smt, lock, UpdUnchanged>>

UpdCheckInProgress ==
    /\ upd.pc = "check"
    /\ upd' = IF GetTaskInProgress = {} THEN [upd EXCEPT !.pc = "cell"] ELSE UpdIdle
    /\ UNCHANGED <<task, recs, net, smt, lock, UpdUnchanged>>

\* CheckSubAccountLiveCell: the live cell is that of a task whose leaves are on
\* the SMT server, or old enough for the parser to have passed it by a margin.
CellKnown == \E t \in TaskIds : /\ task[t].type = "Chain"
                                /\ task[t].smt = WriteComplete
                                /\ task[t].out = LiveCell

UpdCheckLiveCell ==
    /\ upd.pc = "cell"
    /\ CellKnown \/ parsed >= Height
    /\ task[upd.t].script = tx[LiveCell].script
    /\ upd' = [upd EXCEPT !.pc = "lock", !.h = Height]
    /\ UNCHANGED <<task, recs, net, smt, lock, UpdUnchanged>>

\* The parent's custom script changed since the task was made: close the task.
UpdDiffScript ==
    /\ upd.pc = "cell"
    /\ CellKnown \/ parsed >= Height
    /\ task[upd.t].script # tx[LiveCell].script
    /\ task' = IF task[upd.t].smt = NeedToWrite
               THEN [task EXCEPT ![upd.t].smt = RollbackComplete] ELSE task
    /\ recs' = CloseRecords(upd.t, DefaultOf(upd.t))
    /\ upd' = UpdIdle
    /\ UNCHANGED <<net, smt, lock, UpdUnchanged>>

UpdLock ==
    /\ upd.pc = "lock"
    /\ LockFree
    /\ lock' = "upd"
    /\ upd' = [upd EXCEPT !.pc = "root"]
    /\ UNCHANGED <<task, recs, net, smt, UpdUnchanged>>

\* The SMT root equals the root in the live cell; updateSmt marks the task.
UpdStartWrite ==
    /\ upd.pc = "root"
    /\ smt = RootAt(upd.h)
    /\ task' = [task EXCEPT ![upd.t].smt = Writing]
    /\ upd' = [upd EXCEPT !.pc = "write"]
    /\ UNCHANGED <<recs, net, smt, lock, UpdUnchanged>>

UpdWriteSmt ==
    /\ upd.pc = "write"
    /\ smt' = ChangedBy(DefaultOf(upd.t), smt)
    /\ upd' = [upd EXCEPT !.pc = "build"]
    /\ UNCHANGED <<task, recs, net, lock, UpdUnchanged>>

UpdBuild ==
    LET x == nTx + 1
        cell == chain[upd.h]
    IN  /\ upd.pc = "build"
        /\ nTx < MaxTxs
        /\ tx' = [tx EXCEPT ![x] =
                    [kind |-> "update", ref |-> cell, by |-> upd.t,
                     leaf |-> ChangedBy(DefaultOf(upd.t), RootAt(upd.h)),
                     upd |-> AccountsOf(DefaultOf(upd.t)),
                     script |-> tx[cell].script, status |-> "built"]]
        /\ nTx' = x
        /\ task' = [task EXCEPT ![upd.t].ref = cell, ![upd.t].out = x]
        /\ upd' = [upd EXCEPT !.pc = "send"]
        /\ UNCHANGED <<recs, chain, smt, lock, UpdUnchanged>>

UpdSend ==
    LET x == task[upd.t].out
    IN  /\ upd.pc = "send"
        /\ Accepted(x)
        /\ tx' = [tx EXCEPT ![x].status = "pool"]
        /\ \/ upd' = [upd EXCEPT !.pc = "mark"] /\ UNCHANGED lock
           \/ ~ SendMarked /\ UpdStop       \* the node's answer is lost
        /\ UNCHANGED <<task, recs, nTx, chain, smt, UpdUnchanged>>

\* UpdateTaskTxStatusToPending; an error is only logged.
UpdMarkPending ==
    /\ upd.pc = "mark"
    /\ \/ task' = IF At(upd.t, Writing, UnSend)
                  THEN [task EXCEPT ![upd.t].smt = WriteComplete, ![upd.t].tx = Pending]
                  ELSE task
       \/ ~ SendMarked /\ UNCHANGED task
    /\ UpdStop
    /\ UNCHANGED <<recs, net, smt, UpdUnchanged>>

\* Any step before the transaction is sent may fail: a check that does not
\* hold, a busy lock, a root that differs, an RPC or database error, too little
\* balance, a transaction the node refuses.  The task stays as it is.
UpdFail ==
    /\ upd.pc \in {"check", "cell", "lock", "root", "write", "build", "send"}
    /\ UpdStop
    /\ UNCHANGED <<task, recs, net, smt, UpdUnchanged>>

-----------------------------------------------------------------------------
(* The checker: task/check_tx.go *)

NodeRejected_mut(x) == tx[x].status # "committed"
NodeRejected(x) == tx[x].status = "rejected"

\* One pass over the list: a task whose transaction the node has rejected is lost,
\* and so is a later one built on the output of such a task.
doCheckTx ==
    LET list == GetNeedDoCheckTxTaskList
    IN  \E lost \in SUBSET list :
          /\ lost # {}
          /\ \A t \in list :
               t \in lost <=> \/ NodeRejected(task[t].out)
                             \/ \E d \in lost : d < t /\ task[t].ref = task[d].out
          /\ task' = [t \in TaskIds |->
                        IF t \in lost THEN [task[t] EXCEPT !.smt = NeedToRollback, !.tx = Rejected]
                        ELSE task[t]]
          /\ UNCHANGED <<nTask, recs, parsed, synced, net, smt, lock, upd, rb, cf,
                         hnd, handled, used>>

-----------------------------------------------------------------------------
(* The rollback worker: task/rollback.go *)

RbUnchanged == <<parsed, synced, nTask, net, upd, cf, hnd, handled, used>>

\* The leaves to restore are read before the lock is taken.
RbRead(t) ==
    /\ rb.pc = "idle"
    /\ t \in GetNeedRollBackTaskList
    /\ rb' = [pc |-> "lock", t |-> t, val |-> InfoLeaves(RecordsOf(t))]
    /\ UNCHANGED <<task, recs, smt, lock, RbUnchanged>>

RbLock ==
    /\ rb.pc = "lock"
    /\ LockFree
    /\ lock' = "rb"
    /\ rb' = [rb EXCEPT !.pc = "write"]
    /\ UNCHANGED <<task, recs, smt, RbUnchanged>>

RbWrite ==
    /\ rb.pc = "write"
    /\ smt' = [a \in Accounts |-> IF rb.val[a] = -1 THEN smt[a] ELSE rb.val[a]]
    /\ rb' = [rb EXCEPT !.pc = "finish"]
    /\ UNCHANGED <<task, recs, lock, RbUnchanged>>

MayRetry_mut(t) == task[t].type = "Delegate" /\ task[t].retry <= MaxRetry
MayRetry(t) == task[t].type = "Delegate" /\ task[t].retry < MaxRetry

\* A delegate task is tried again up to MaxRetry times, then it and its records
\* are closed.
RbFinish ==
    LET t == rb.t
    IN  /\ rb.pc = "finish"
        /\ \/ /\ MayRetry(t)
              /\ task' = IF task[t].smt = NeedToRollback
                         THEN [task EXCEPT ![t].smt = NeedToWrite, ![t].tx = UnSend,
                                           ![t].retry = @ + 1]
                         ELSE task
              /\ UNCHANGED recs
           \/ /\ ~ MayRetry(t)
              /\ task' = IF task[t].smt = NeedToRollback
                         THEN [task EXCEPT ![t].smt = RollbackComplete]
                         ELSE task
              /\ recs' = CloseRecords(t, RecordsOf(t))
        /\ rb' = WorkIdle
        /\ lock' = "none"
        /\ UNCHANGED <<smt, RbUnchanged>>

\* A busy lock, or an error of Redis, the SMT server or the database.
RbFail ==
    /\ rb.pc # "idle"
    /\ rb' = WorkIdle
    /\ lock' = IF lock = "rb" THEN "none" ELSE lock
    /\ UNCHANGED <<task, recs, smt, RbUnchanged>>

-----------------------------------------------------------------------------
(* The confirmer: task/other_tx.go *)

CfUnchanged == <<parsed, synced, nTask, recs, net, upd, rb, hnd, handled, used>>

\* The task of the lowest block goes first, and only once the syncer has every
\* account of its chain records at that block or later.  The ids of the records
\* are counted against the rows found for them: two records of one account never
\* pass.
CfRead(t) ==
    /\ cf.pc = "idle"
    /\ t \in GetNeedToConfirmOtherTx
    /\ \A u \in GetNeedToConfirmOtherTx : task[t].bn <= task[u].bn
    /\ \A r, q \in ChainOf(t) : r.acc = q.acc => r = q
    /\ \A a \in AccountsOf(ChainOf(t)) : HasSynced(a, task[t].bn)
    /\ cf' = [pc |-> "lock", t |-> t, val |-> InfoLeaves(ChainOf(t))]
    /\ UNCHANGED <<task, smt, lock, CfUnchanged>>

CfLock ==
    /\ cf.pc = "lock"
    /\ LockFree
    /\ lock' = "cf"
    /\ cf' = [cf EXCEPT !.pc = "write"]
    /\ UNCHANGED <<task, smt, CfUnchanged>>

\* Nothing is written if the SMT server already has the root of the live cell
\* and that cell's task waits for confirmation.
CfWrite ==
    LET current == /\ \E t \in TaskIds : /\ task[t].type = "Chain"
                                         /\ At(t, NeedToWrite, Committed)
                                         /\ task[t].out = LiveCell
                   /\ smt = RootAt(Height)
    IN  /\ cf.pc = "write"
        /\ smt' = IF current THEN smt
                  ELSE [a \in Accounts |-> IF cf.val[a] = -1 THEN smt[a] ELSE cf.val[a]]
        /\ cf' = [cf EXCEPT !.pc = "finish"]
        /\ UNCHANGED <<task, lock, CfUnchanged>>

CfFinish ==
    /\ cf.pc = "finish"
    /\ task' = IF At(cf.t, NeedToWrite, Committed)
               THEN [task EXCEPT ![cf.t].smt = WriteComplete] ELSE task
    /\ cf' = WorkIdle
    /\ lock' = "none"
    /\ UNCHANGED <<smt, CfUnchanged>>

CfFail ==
    /\ cf.pc # "idle"
    /\ cf' = WorkIdle
    /\ lock' = IF lock = "cf" THEN "none" ELSE lock
    /\ UNCHANGED <<task, smt, CfUnchanged>>

-----------------------------------------------------------------------------
(* The block parser's handlers of the transactions that move the cell *)

NextTx == chain[parsed + 1]
ToParse == parsed < Height /\ ~ handled

\* What was sent is recorded before its block is parsed (see SendMarked).
Unmarked == {hnd} \cup {task[t].out : t \in {u \in TaskIds : upd.pc = "mark" /\ u = upd.t}}
MayParse == ToParse /\ (SendMarked => NextTx \notin Unmarked)

ParseUnchanged == <<parsed, synced, net, smt, lock, upd, rb, cf, hnd, used>>

\* DasActionUpdateSubAccount: our own pending task becomes a chain task with
\* all its records ...
ParseOwnUpdate ==
    LET x == NextTx
        self == GetTaskByRefOutpointAndOutpoint(x)
        bn == parsed + 1
    IN  /\ MayParse
        /\ tx[x].kind = "update"
        /\ \E t \in self :
             /\ \A u \in self : u <= t
             /\ task' = [task EXCEPT ![t].type = "Chain", ![t].smt = NeedToWrite,
                                     ![t].tx = Committed, ![t].bn = bn]
             /\ recs' = (recs \ RecordsOf(t))
                        \cup {[r EXCEPT !.type = "Chain", !.bn = bn] : r \in RecordsOf(t)}
        /\ handled' = TRUE
        /\ UNCHANGED <<nTask, ParseUnchanged>>

\* ... any other transaction gets a chain task and chain records of its own,
\* inserted with IGNORE, so that a block parsed twice adds nothing.
ParseOtherUpdate ==
    LET x == NextTx
        bn == parsed + 1
        t == nTask + 1
        known == \E u \in TaskIds : task[u].from = "parser" /\ task[u].out = x
        new == {[acc |-> a, ver |-> tx[x].leaf[a], type |-> "Chain", bn |-> bn, task |-> t] :
                   a \in tx[x].upd}
    IN  /\ MayParse
        /\ tx[x].kind = "update"
        /\ GetTaskByRefOutpointAndOutpoint(x) = {}
        /\ \/ known /\ UNCHANGED <<task, nTask, recs>>
           \/ /\ ~ known
              /\ nTask < MaxTasks
              /\ task' = [task EXCEPT ![t] =
                   [NoRow EXCEPT !.type = "Chain", !.tx = Committed, !.own = TRUE,
                                 !.ref = tx[x].ref, !.out = x, !.bn = bn]]
              /\ nTask' = t
              /\ recs' = recs \cup
                   {r \in new : ~ \E q \in recs : /\ q.acc = r.acc
                                                  /\ q.ver = r.ver
                                                  /\ q.type = "Chain"
                                                  /\ q.bn = bn}
        /\ handled' = TRUE
        /\ UNCHANGED ParseUnchanged

\* DasActionConfigSubAccountOrCustomScript, DasActionEnableSubAccount and
\* DasActionCollectSubAccountProfit replace the handler's row by a chain task
\* that needs no confirmation.
ParseNoLeaf ==
    LET x == NextTx
        t == nTask + 1
    IN  /\ MayParse
        /\ tx[x].kind \in {"config", "profit"}
        /\ nTask < MaxTasks
        /\ task' = [u \in TaskIds |->
                      IF u = t THEN [NoRow EXCEPT !.type = "Chain", !.smt = WriteComplete,
                                                  !.tx = Committed, !.out = x,
                                                  !.bn = parsed + 1]
                      ELSE IF task[u].ref = 0 /\ task[u].out = x THEN NoRow
                      ELSE task[u]]
        /\ nTask' = t
        /\ handled' = TRUE
        /\ UNCHANGED <<recs, ParseUnchanged>>

\* ActionCollectSubAccountChannelProfit only updates the row the handler made.
ParseChannelProfit ==
    LET x == NextTx
    IN  /\ MayParse
        /\ tx[x].kind = "channel"
        /\ task' = [u \in TaskIds |->
                      IF task[u].type # "Absent" /\ task[u].out = x
                      THEN [task[u] EXCEPT !.tx = Committed, !.bn = parsed + 1]
                      ELSE task[u]]
        /\ handled' = TRUE
        /\ UNCHANGED <<nTask, recs, ParseUnchanged>>

ParserStoreBlock_mut == \* the block is stored before its handlers run
    /\ parsed < Height
    /\ parsed' = parsed + 1
    /\ handled' = FALSE
    /\ UNCHANGED <<task, nTask, recs, synced, net, smt, lock, upd, rb, cf, hnd, used>>

\* CreateBlockInfo, after the handlers of the block.
ParserStoreBlock ==
    /\ handled
    /\ parsed' = parsed + 1
    /\ handled' = FALSE
    /\ UNCHANGED <<task, nTask, recs, synced, net, smt, lock, upd, rb, cf, hnd, used>>

-----------------------------------------------------------------------------
(* HTTP handlers that spend the cell, and the environment *)

\* A handler sends a transaction of one of Kinds.  It does not look at the
\* tasks in progress, only the node refuses a double spend.
SpendSend(kind, script) ==
    LET x == nTx + 1
    IN  /\ hnd = 0
        /\ used.spends < MaxSpends
        /\ nTx < MaxTxs
        /\ kind # "config" => script = tx[LiveCell].script
        /\ \A y \in TxIds : tx[y].status = "pool" => tx[y].ref # LiveCell
        /\ tx' = [tx EXCEPT ![x] = [kind |-> kind, ref |-> LiveCell, by |-> 0,
                                    leaf |-> RootAt(Height), upd |-> {},
                                    script |-> script, status |-> "pool"]]
        /\ nTx' = x
        /\ hnd' = x
        /\ used' = [used EXCEPT !.spends = @ + 1]
        /\ UNCHANGED <<db, synced, chain, smt, lock, upd, rb, cf, handled>>

\* ... and records it: a failure to do so is only logged.
SpendCreateTask ==
    LET t == nTask + 1
        kind == tx[hnd].kind
    IN  /\ hnd # 0
        /\ \/ /\ nTask < MaxTasks
              /\ task' = [task EXCEPT ![t] =
                   [NoRow EXCEPT !.type = IF kind = "channel" THEN "Chain" ELSE "Normal",
                                 !.smt = WriteComplete, !.tx = Pending,
                                 !.own = (kind = "config"), !.out = hnd,
                                 !.from = "handler"]]
              /\ nTask' = t
           \/ ~ SendMarked /\ UNCHANGED <<task, nTask>>
        /\ hnd' = 0
        /\ UNCHANGED <<recs, parsed, synced, net, smt, lock, upd, rb, cf, handled, used>>

EnvUnchanged == <<db, smt, lock, upd, rb, cf, hnd, handled>>

\* The other transactions in the pool that spend the same cell are rejected.
SettleTx(x, txs) ==
    [y \in TxIds |-> IF y = x THEN [txs[y] EXCEPT !.status = "committed"]
                     ELSE IF /\ txs[y].status = "pool"
                             /\ txs[y].ref = txs[x].ref
                     THEN [txs[y] EXCEPT !.status = "rejected"]
                     ELSE txs[y]]

CommitTx(x) ==
    /\ tx[x].status = "pool"
    /\ tx[x].ref = LiveCell
    /\ tx' = SettleTx(x, tx)
    /\ chain' = Append(chain, x)
    /\ UNCHANGED <<nTx, synced, used, EnvUnchanged>>

RejectTx(x) ==
    /\ tx[x].status = "pool"
    /\ tx' = [tx EXCEPT ![x].status = "rejected"]
    /\ UNCHANGED <<nTx, chain, synced, used, EnvUnchanged>>

\* Another service, or the owner, changes one account on chain.
ForeignCommit(a) ==
    LET x == nTx + 1
        v == RootAt(Height)[a] + 1
    IN  /\ used.foreign < MaxForeign
        /\ nTx < MaxTxs
        /\ v \in Versions
        /\ tx' = SettleTx(x, [tx EXCEPT ![x] =
                    [kind |-> "update", ref |-> LiveCell, by |-> 0,
                     leaf |-> [RootAt(Height) EXCEPT ![a] = v], upd |-> {a},
                     script |-> tx[LiveCell].script, status |-> "pool"]])
        /\ nTx' = x
        /\ chain' = Append(chain, x)
        /\ used' = [used EXCEPT !.foreign = @ + 1]
        /\ UNCHANGED <<synced, EnvUnchanged>>

SyncInfo ==
    /\ synced < Height
    /\ synced' = synced + 1
    /\ UNCHANGED <<net, used, EnvUnchanged>>

\* The process stops: what its goroutines hold in memory is gone, and a lock
\* one of them holds stays until Redis expires it.
Crash ==
    /\ used.crash < MaxCrash
    /\ SendMarked => upd.pc # "mark"
    /\ used' = [used EXCEPT !.crash = @ + 1]
    /\ upd' = UpdIdle
    /\ rb' = WorkIdle
    /\ cf' = WorkIdle
    /\ hnd' = 0
    /\ handled' = FALSE
    /\ lock' = IF lock = "none" THEN "none" ELSE "dead"
    /\ UNCHANGED <<db, synced, net, smt>>

LockExpire ==
    /\ lock = "dead"
    /\ lock' = "none"
    /\ UNCHANGED <<db, synced, net, smt, upd, rb, cf, hnd, handled, used>>

-----------------------------------------------------------------------------
Updater ==
    \/ \E t \in TaskIds :
         UpdRollbackWriting(t) \/ UpdCloseStale(t) \/ UpdPassNonce(t)
    \/ UpdCheckInProgress \/ UpdCheckLiveCell \/ UpdDiffScript \/ UpdLock
    \/ UpdStartWrite \/ UpdWriteSmt \/ UpdBuild \/ UpdSend \/ UpdMarkPending

Rollbacker == (\E t \in TaskIds : RbRead(t)) \/ RbLock \/ RbWrite \/ RbFinish
Confirmer == (\E t \in TaskIds : CfRead(t)) \/ CfLock \/ CfWrite \/ CfFinish
Parser == ParseOwnUpdate \/ ParseOtherUpdate \/ ParseNoLeaf \/ ParseChannelProfit
          \/ ParserStoreBlock
Handlers == \/ \E a \in Accounts : Request(a)
            \/ \E kind \in Kinds, script \in Scripts : SpendSend(kind, script)
            \/ SpendCreateTask
Environment == \/ \E x \in TxIds : CommitTx(x) \/ RejectTx(x)
               \/ \E a \in Accounts : ForeignCommit(a)
               \/ SyncInfo \/ Crash \/ LockExpire

Next == \/ Handlers \/ doUpdateDistribution
        \/ Updater \/ UpdFail
        \/ doCheckTx
        \/ Rollbacker \/ RbFail
        \/ Confirmer \/ CfFail
        \/ Parser \/ Environment

Spec == Init /\ [][Next]_vars

\* Every ticker goes on ticking, the node settles what is in its pool, the
\* syncer and the parser follow the chain, and Redis expires a dead lock.  A
\* step that an error can always prevent gets strong fairness: errors of Redis,
\* the database, the node and the SMT server do not last for ever.  Nothing is
\* assumed of requests, other services or crashes.
Fairness ==
    /\ WF_vars(doUpdateDistribution)
    /\ WF_vars(Updater \/ UpdFail)
    /\ SF_vars(UpdCheckInProgress)
    /\ SF_vars(UpdCheckLiveCell \/ UpdDiffScript)
    /\ SF_vars(UpdLock)
    /\ SF_vars(UpdStartWrite)
    /\ WF_vars(doCheckTx)
    /\ WF_vars(Rollbacker \/ RbFail)
    /\ SF_vars(RbLock) /\ SF_vars(RbWrite) /\ SF_vars(RbFinish)
    /\ WF_vars(Confirmer \/ CfFail)
    /\ SF_vars(CfLock) /\ SF_vars(CfWrite) /\ SF_vars(CfFinish)
    /\ WF_vars(Parser)
    /\ WF_vars(SpendCreateTask)
    /\ WF_vars(\E x \in TxIds : CommitTx(x) \/ RejectTx(x))
    /\ WF_vars(SyncInfo)
    /\ WF_vars(LockExpire)

FairSpec == Spec /\ Fairness

-----------------------------------------------------------------------------
(* Invariants *)

DatabaseTypeOK ==
    /\ task \in [TaskIds -> Row]
    /\ nTask \in 1..MaxTasks
    /\ recs \subseteq Record
    /\ parsed \in 1..Height
    /\ synced \in 1..Height
NodeTypeOK ==
    /\ tx \in [TxIds -> Tx]
    /\ nTx \in TxIds
    /\ chain \in Seq(TxIds)
MemoryTypeOK ==
    /\ smt \in [Accounts -> Versions]
    /\ lock \in {"none", "upd", "rb", "cf", "dead"}
    /\ upd \in [pc : UpdSteps, t : 0..MaxTasks, h : 0..Height]
    /\ rb \in [pc : WorkSteps, t : 0..MaxTasks, val : [Accounts -> Versions \cup {-1}]]
    /\ cf \in [pc : WorkSteps, t : 0..MaxTasks, val : [Accounts -> Versions \cup {-1}]]
    /\ hnd \in 0..MaxTxs
    /\ handled \in BOOLEAN
    /\ used \in [reqs : 0..MaxReqs, foreign : 0..MaxForeign,
                 spends : 0..MaxSpends, crash : 0..MaxCrash]

\* Every variable holds values of the kind the code stores in it, also when a
\* rejected task is retried as often as it may be (rollback.go:105).
TypeOK == DatabaseTypeOK /\ NodeTypeOK /\ MemoryTypeOK

\* The updater, the rollback worker and the confirmer write to the SMT server
\* one at a time: whoever is between lock and unlock holds the Redis lock, also
\* after crashes that leave the lock behind (do_task.go, rollback.go,
\* other_tx.go).
UpdLocked == upd.pc \in {"root", "write", "build", "send", "mark"}
RbLocked == rb.pc \in {"write", "finish"}
CfLocked == cf.pc \in {"write", "finish"}
LockMutex ==
    /\ UpdLocked <=> lock = "upd"
    /\ RbLocked <=> lock = "rb"
    /\ CfLocked <=> lock = "cf"

\* Of all the delegate tasks of a parent, at most one has its leaves on the SMT
\* server and not settled: being written, in the pool, or waiting to be rolled
\* back.  The updater checks this (CheckInProgressTask) several steps and a
\* lock before it acts on it (update_sub_account.go:103, do_task.go:45).
InFlight(t) == /\ task[t].type = "Delegate"
               /\ \/ At(t, Writing, UnSend)
                  \/ At(t, WriteComplete, Pending)
                  \/ task[t].smt = NeedToRollback
OneInFlight == \A t, u \in TaskIds : InFlight(t) /\ InFlight(u) => t = u

\* When no task is in progress and no worker is at work, and the parser and the
\* confirmer are done with the live cell, the SMT server has its root: else the
\* root comparison of do_task.go:76 refuses every later task of the parent.
Quiet == /\ GetTaskInProgress = {}
         /\ upd.pc = "idle" /\ rb.pc = "idle" /\ cf.pc = "idle"
SmtFollowsChain == Quiet /\ CellKnown => smt = RootAt(Height)

\* A task that was given up, whose records are closed and whose orders are
\* refunded, has no transaction that is on chain or may still get there
\* (rollback.go:105, update_sub_account.go:113).
GivenUp(t) == task[t].type = "Delegate" /\ task[t].smt = RollbackComplete
GivenUpNotOnChain ==
    \A t \in TaskIds : GivenUp(t) =>
        \A x \in TxIds : tx[x].by = t => tx[x].status \notin {"pool", "committed"}

\* Every change in a block the parser has stored has its chain record, whoever
\* sent it and however often the parser crashed before storing the block
\* (das_action_update_sub_account.go:66, dao/t_task_info.go:157).
ParsedIsRecorded ==
    \A h \in 1..parsed : \A a \in tx[chain[h]].upd :
        \E r \in recs : /\ r.acc = a
                        /\ r.ver = RootAt(h)[a]
                        /\ r.type = "Chain"
                        /\ r.bn = h

\* A record waits only in a task that is still worked on: no task ends, in
\* whatever way, with a record left that is neither closed nor on chain.
Ended(t) == \/ task[t].type \in {"Absent", "Closed", "Chain"}
            \/ task[t].smt = RollbackComplete
NoRecordForgotten ==
    \A r \in recs : r.type = "Default" /\ r.task # 0 => ~ Ended(r.task)

\* A delegate task in the updater's list has a record to send: with none,
\* BuildTxsForUpdateSubAccount returns no transaction for it and doTaskDetail
\* indexes past the end of its list (txtool.go:132, do_task.go:102).
WorkHasRecords ==
    \A t \in GetNeedToDoTaskList : DefaultOf(t) # {}

\* How a task ended is final: what the parser found on chain stays a chain
\* task, and a task that was closed or given up is not touched again, although
\* updates of the pipeline select rows by task id alone (dao/t_task_info.go:126,
\* 133, 183).
EndIsFinal ==
    [][\A t \in TaskIds :
         /\ task[t].type = "Chain" => task'[t].type \in {"Chain", "Absent"}
         /\ task[t].type = "Closed" => task'[t] = task[t]
         /\ GivenUp(t) => task'[t] = task[t]]_vars


-----------------------------------------------------------------------------
(* The abstract specification *)

\* The tasks the distributor made are the batches of module SmtBatch.
BatchState(t) ==
    IF task[t].from # "distribution" THEN "none"
    ELSE CASE task[t].type = "Chain" -> "done"
           [] task[t].type = "Closed" \/ GivenUp(t) -> "ended"
           [] InFlight(t) -> "tried"
           [] OTHER -> "waiting"
MinedBatch(t) == \E x \in TxIds : tx[x].by = t /\ tx[x].status = "committed"

Batch == INSTANCE SmtBatch WITH
    Batches <- TaskIds,
    state <- [t \in TaskIds |-> BatchState(t)],
    tries <- [t \in TaskIds |-> task[t].retry],
    mined <- [t \in TaskIds |-> MinedBatch(t)]

\* The pipeline implements SmtBatch: whatever the five goroutines, the node and
\* the parser do in between, every step is one of a batch or none; a batch gets
\* on chain at most once, and then neither retry, rollback nor closing touches
\* it (rollback.go:105, das_action_update_sub_account.go:31).
Implements == Batch!BatchSpec

-----------------------------------------------------------------------------
(* Liveness *)

Waiting(a, v) == \E r \in recs : r.type = "Default" /\ r.acc = a /\ r.ver = v

\* A record of a committed task that the task's transaction did not make: it was
\* closed as stale, and UpdateToChainTask made it a chain record with the rest of
\* its task (dao/t_task_info.go:194).  The syncer's rows need not reach the task's
\* block for it, so the confirmer may skip the task for ever, and every later task
\* of the parent waits behind it.
Revived(r) == LET x == task[r.task].out
              IN  ~ (r.acc \in tx[x].upd /\ r.ver = tx[x].leaf[r.acc])
Blocked == \E t \in TaskIds : /\ At(t, NeedToWrite, Committed)
                              /\ \E r \in ChainOf(t) : Revived(r)

\* Every queued change is eventually on chain or closed, whatever the node
\* rejects and however often a step fails, unless a revived record blocks the
\* parent: rollbacks, retries and closings of several batches get out of one
\* another's way (update_sub_account.go:104, rollback.go:105).
RecordsSettle ==
    \A a \in Accounts : \A v \in 1..MaxVer : Waiting(a, v) ~> ~ Waiting(a, v) \/ Blocked

\* Every chain task the parser made is eventually confirmed, so that the SMT
\* server catches up with the chain, unless a revived record blocks the parent
\* (other_tx.go:71-79).
ChainTasksConfirm ==
    \A t \in TaskIds :
        At(t, NeedToWrite, Committed) ~> ~ At(t, NeedToWrite, Committed) \/ Blocked

\* Claims of the repository that the code does not keep.

\* "TaskTypeNormal TaskType = 1 // if tx rejected, closed"
\* (tables/t_task_info.go:32).
RejectedNormalCloses ==
    \A t \in TaskIds :
        (task[t].type = "Normal" /\ tx[task[t].out].status = "rejected")
            ~> ~ At(t, WriteComplete, Pending)

\* "task_id='' -> task_id!=''" (task/task.go:30): a waiting record gets a task.
WaitingIsDistributed ==
    \A a \in Accounts :
        (\E r \in NeedDoDistribution : r.acc = a) ~> ~ (\E r \in NeedDoDistribution : r.acc = a)

\* "(0,2)->(2,2)" (task/task.go:78): what is committed gets written to the SMT
\* server.
CommittedIsWritten ==
    \A t \in TaskIds : At(t, NeedToWrite, Committed) ~> At(t, WriteComplete, Committed)
=============================================================================
