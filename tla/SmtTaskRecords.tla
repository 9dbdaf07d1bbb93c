---------------------------- MODULE SmtTaskRecords ----------------------------
(* Proofs about the smt records of SmtTask: no record is forgotten in a task    *)
(* that ended, a task that is worked on has a record to send, and every change *)
(* in a block the parser has stored has its chain record.  None of them needs  *)
(* SendMarked.                                                                 *)
EXTENDS SmtTaskRefinement, FiniteSetTheorems

-----------------------------------------------------------------------------
(* The inductive invariant *)

\* A task whose records still wait, and a row of the parser's that has records.
Open(t) == task[t].type = "Delegate" /\ task[t].smt # RollbackComplete
OnChainRow(t) == /\ task[t].type = "Chain" /\ task[t].ref # 0 /\ task[t].tx = Committed
                 /\ task[t].smt \in {NeedToWrite, WriteComplete}

\* Every record is where its type says, and an open task keeps one.
Placed(r) == /\ r.task = 0 => r.type = "Default"
             /\ r.type = "Default" /\ r.task # 0 => Open(r.task)
             /\ r.type = "Chain" => OnChainRow(r.task)
RecordsPlaced == \A r \in recs : Placed(r)
OpenHaveRecords == \A t \in TaskIds : Open(t) => DefaultOf(t) # {}

\* The transaction of a task changes what the task's waiting records ask for.
Sent(t) == \/ Of(t, "Delegate", WriteComplete, Pending)
           \/ upd.pc \in {"send", "mark"} /\ upd.t = t
Asked(t, x) == \A a \in tx[x].upd : \E r \in DefaultOf(t) : r.acc = a /\ r.ver = tx[x].leaf[a]
RecordsMatch == \A t \in TaskIds : Sent(t) => Asked(t, task[t].out)

\* The rollback worker's task stays to be rolled back: only the parser may take
\* the row away, if it is a handler's.
ToUndo(t) == task[t].smt = NeedToRollback \/ task[t].type = "Absent"
RbTask == rb.pc # "idle" => rb.t <= nTask /\ ToUndo(rb.t)

\* A transaction that changes accounts spends a cell; no block is there twice.
CellOk(x) == /\ tx[x].kind = "update" => tx[x].ref # 0
             /\ tx[x].kind # "update" => tx[x].upd = {}
CellsOk == /\ \A x \in TxIds : CellOk(x)
           /\ \A g, h \in 1..Height : chain[g] = chain[h] => g = h

\* The changes of block h have their chain records.  The rows the parser made or
\* took over are of blocks that have them, also when it crashes before it
\* stores the block.
Recorded(h) == \A a \in tx[chain[h]].upd :
                 \E r \in recs : /\ r.acc = a
                                 /\ r.ver = RootAt(h)[a]
                                 /\ r.type = "Chain"
                                 /\ r.bn = h
ParserRow(t) == \/ task[t].from = "parser" /\ task[t].out # 0
                \/ FromDistribution(t) /\ task[t].type = "Chain"
RowOfBlock(t, h) == /\ chain[h] = task[t].out
                    /\ tx[chain[h]].kind = "update" => Recorded(h)
                    /\ FromDistribution(t) => task[t].bn = h
ParsedOk == /\ \A h \in 1..parsed : Recorded(h)
            /\ handled => Recorded(parsed + 1)
            /\ \A t \in TaskIds : ParserRow(t) => \E h \in 1..Height : RowOfBlock(t, h)

TasksOk == RecordsPlaced /\ OpenHaveRecords /\ RecordsMatch /\ RbTask
RecInv == TasksOk /\ CellsOk /\ ParsedOk

-----------------------------------------------------------------------------
(* The chain only grows, and what a transaction says never changes *)

SameTx(x) == /\ tx'[x].leaf = tx[x].leaf /\ tx'[x].upd = tx[x].upd
             /\ tx'[x].kind = tx[x].kind /\ tx'[x].by = tx[x].by /\ tx'[x].ref = tx[x].ref
ChainGrows == /\ Height' \in Nat /\ Height <= Height'
              /\ \A h \in 1..Height : chain'[h] = chain[h]
NetGrows == /\ ChainGrows
            /\ nTx <= nTx'
            /\ \A x \in TxIds : x <= nTx => SameTx(x)

LEMMA NetTyped ==
    ASSUME SmtInv0
    PROVE  /\ nTx \in Nat /\ Height \in Nat \ {0} /\ LiveCell \in TxIds /\ LiveCell # 0
           /\ \A x \in TxIds : x \in Nat /\ x # 0
           /\ \A h \in 1..Height : /\ h \in Nat /\ chain[h] \in TxIds /\ chain[h] <= nTx
                                   /\ chain[h] # 0 /\ tx[chain[h]].status = "committed"
BY ChainTyped DEF SmtInv0, TypeOK, NodeTypeOK, TxIds, TxsOk, OnChain

\* A step that leaves the node alone.
LEMMA SameCells ==
    ASSUME SmtInv0, CellsOk, UNCHANGED net
    PROVE  NetGrows /\ CellsOk'
<1>1. Height' = Height /\ Height \in Nat /\ nTx \in Nat
  BY NetTyped DEF net, Height
<1>2. NetGrows
  BY <1>1 DEF net, NetGrows, ChainGrows, SameTx
<1>3. CellsOk'
  BY <1>1 DEF net, CellsOk, CellOk
<1>4. QED
  BY <1>2, <1>3

\* A step that leaves the chain alone and adds transaction x, or none if x is a
\* known one.
LEMMA OneTx ==
    ASSUME SmtInv0, CellsOk, NEW x \in TxIds, UNCHANGED chain, nTx <= nTx',
           \A y \in TxIds \ {x} : SameTx(y), x > nTx \/ SameTx(x), CellOk(x)'
    PROVE  NetGrows /\ CellsOk'
<1>1. Height' = Height /\ Height \in Nat /\ nTx \in Nat
  BY NetTyped DEF Height
<1>2. NetGrows
  BY <1>1, NetTyped DEF NetGrows, ChainGrows
<1>3. \A y \in TxIds : CellOk(y)'
  BY DEF CellsOk, CellOk, SameTx
<1>4. QED
  BY <1>1, <1>2, <1>3 DEF CellsOk

LEMMA UpdBuildCells ==
    ASSUME SmtInv0, CellsOk, UpdBuild
    PROVE  NetGrows /\ CellsOk'
<1> PICK x : x = nTx + 1
  OBVIOUS
<1> DEFINE new == [kind |-> "update", ref |-> chain[upd.h], by |-> upd.t,
                   leaf |-> ChangedBy(DefaultOf(upd.t), RootAt(upd.h)),
                   upd |-> AccountsOf(DefaultOf(upd.t)),
                   script |-> tx[chain[upd.h]].script, status |-> "built"]
<1>1. tx' = [tx EXCEPT ![x] = new] /\ nTx' = x /\ nTx < MaxTxs /\ UNCHANGED chain
  BY DEF UpdBuild
<1>2. new.kind = "update" /\ new.ref # 0
  <2>1. upd.h \in 1..Height
    BY DEF UpdBuild, SmtInv0, StepsOK
  <2>2. QED
    BY <2>1, NetTyped
<1> HIDE DEF new
<1>3. x \in TxIds /\ x > nTx /\ nTx <= nTx'
  BY <1>1, NetTyped, BoundsTyped DEF TxIds
<1>4. tx'[x] = new /\ \A y \in TxIds \ {x} : tx'[y] = tx[y]
  BY <1>1, <1>3 DEF SmtInv0, TypeOK, NodeTypeOK
<1>5. CellOk(x)' /\ \A y \in TxIds \ {x} : SameTx(y)
  BY <1>2, <1>4 DEF CellOk, SameTx
<1>6. QED
  BY <1>1, <1>3, <1>5, OneTx

\* The status of a transaction is no part of what it says.
LEMMA StatusCells ==
    ASSUME SmtInv0, CellsOk, NEW x \in TxIds, NEW s, tx' = [tx EXCEPT ![x].status = s],
           UNCHANGED <<nTx, chain>>
    PROVE  NetGrows /\ CellsOk'
<1>1. tx \in [TxIds -> Tx] /\ nTx <= nTx'
  BY NetTyped DEF SmtInv0, TypeOK, NodeTypeOK
<1>2. \A y \in TxIds : SameTx(y)
  BY <1>1 DEF SameTx, Tx
<1>3. CellOk(x)'
  BY <1>2 DEF CellsOk, CellOk, SameTx
<1>4. QED
  BY <1>1, <1>2, <1>3, OneTx

LEMMA UpdSendCells ==
    ASSUME SmtInv0, CellsOk, UpdSend
    PROVE  NetGrows /\ CellsOk'
<1>1. task[upd.t].out \in TxIds
  <2>1. upd.t \in TaskIds /\ task[upd.t].out # 0
    BY DEF UpdSend, SmtInv0, StepsOK, UpdTask
  <2>2. task[upd.t].out \in 0..MaxTxs
    BY <2>1 DEF SmtInv0, TypeOK, DatabaseTypeOK, Row
  <2>3. QED
    BY <2>1, <2>2, BoundsTyped DEF TxIds
<1>2. tx' = [tx EXCEPT ![task[upd.t].out].status = "pool"] /\ UNCHANGED <<nTx, chain>>
  BY DEF UpdSend
<1>3. QED
  BY <1>1, <1>2, StatusCells

LEMMA SpendSendCells ==
    ASSUME SmtInv0, CellsOk, NEW kind \in SpendKinds, NEW script, SpendSend(kind, script)
    PROVE  NetGrows /\ CellsOk'
<1> PICK x : x = nTx + 1
  OBVIOUS
<1> DEFINE new == [kind |-> kind, ref |-> LiveCell, by |-> 0, leaf |-> RootAt(Height),
                   upd |-> {}, script |-> script, status |-> "pool"]
<1>1. tx' = [tx EXCEPT ![x] = new] /\ nTx' = x /\ nTx < MaxTxs /\ UNCHANGED chain
  BY DEF SpendSend
<1>2. new.kind # "update" /\ new.upd = {}
  BY DEF SpendKinds
<1> HIDE DEF new
<1>3. x \in TxIds /\ x > nTx /\ nTx <= nTx'
  BY <1>1, NetTyped, BoundsTyped DEF TxIds
<1>4. tx'[x] = new /\ \A y \in TxIds \ {x} : tx'[y] = tx[y]
  BY <1>1, <1>3 DEF SmtInv0, TypeOK, NodeTypeOK
<1>5. CellOk(x)' /\ \A y \in TxIds \ {x} : SameTx(y)
  BY <1>2, <1>4 DEF CellOk, SameTx
<1>6. QED
  BY <1>1, <1>3, <1>5, OneTx

\* A commit changes no more of the transactions than their status.
LEMMA SettlesSame ==
    ASSUME TypeOK, NEW txs \in [TxIds -> Tx], NEW x \in TxIds, tx' = SettleTx(x, txs),
           NEW y \in TxIds
    PROVE  /\ tx'[y].leaf = txs[y].leaf /\ tx'[y].upd = txs[y].upd
           /\ tx'[y].kind = txs[y].kind /\ tx'[y].by = txs[y].by /\ tx'[y].ref = txs[y].ref
<1>1. txs[y] \in Tx
  OBVIOUS
<1>2. tx'[y] \in {txs[y], [txs[y] EXCEPT !.status = "committed"],
                  [txs[y] EXCEPT !.status = "rejected"]}
  BY DEF SettleTx
<1>3. \A s : /\ [txs[y] EXCEPT !.status = s].leaf = txs[y].leaf
             /\ [txs[y] EXCEPT !.status = s].upd = txs[y].upd
             /\ [txs[y] EXCEPT !.status = s].kind = txs[y].kind
             /\ [txs[y] EXCEPT !.status = s].by = txs[y].by
             /\ [txs[y] EXCEPT !.status = s].ref = txs[y].ref
  BY <1>1 DEF Tx
<1>4. QED
  BY <1>2, <1>3

\* A block is added: its transaction was on no block yet.
LEMMA BlockCells ==
    ASSUME SmtInv0, CellsOk, NEW x \in TxIds, chain' = Append(chain, x), nTx <= nTx',
           \A y \in TxIds : y <= nTx => SameTx(y),
           \A y \in TxIds : CellOk(y)',
           tx[x].status # "committed" \/ x > nTx
    PROVE  NetGrows /\ CellsOk'
<1>1. /\ Height' = Height + 1 /\ chain'[Height + 1] = x
      /\ \A h \in 1..Height : chain'[h] = chain[h]
  BY DEF SmtInv0, TypeOK, NodeTypeOK, Height
<1>2. \A h \in 1..Height' : h = Height + 1 \/ h \in 1..Height
  BY <1>1, NetTyped
<1>3. \A h \in 1..Height : chain[h] # x
  BY NetTyped
<1>4. \A g, h \in 1..Height' : chain'[g] = chain'[h] => g = h
  BY <1>1, <1>2, <1>3 DEF CellsOk
<1>5. Height' \in Nat /\ Height <= Height'
  BY <1>1, NetTyped
<1>6. NetGrows
  BY <1>1, <1>5 DEF NetGrows, ChainGrows
<1>7. CellsOk'
  BY <1>4 DEF CellsOk
<1>8. QED
  BY <1>6, <1>7

LEMMA CommitTxCells ==
    ASSUME SmtInv0, CellsOk, NEW x \in TxIds, CommitTx(x)
    PROVE  NetGrows /\ CellsOk'
<1>1. /\ tx' = SettleTx(x, tx) /\ chain' = Append(chain, x) /\ tx[x].status = "pool"
      /\ nTx' = nTx
  BY DEF CommitTx
<1>2. \A y \in TxIds : SameTx(y)
  BY <1>1, SettlesSame DEF SameTx, SmtInv0, TypeOK, NodeTypeOK
<1>3. \A y \in TxIds : CellOk(y)'
  BY <1>2 DEF CellsOk, CellOk, SameTx
<1>4. nTx <= nTx'
  BY <1>1, NetTyped
<1>5. QED
  BY <1>1, <1>2, <1>3, <1>4, BlockCells

LEMMA ForeignCommitCells ==
    ASSUME SmtInv0, CellsOk, NEW a \in Accounts, ForeignCommit(a)
    PROVE  NetGrows /\ CellsOk'
<1> PICK x : x = nTx + 1
  OBVIOUS
<1> PICK v : v = RootAt(Height)[a] + 1
  OBVIOUS
<1> DEFINE new == [kind |-> "update", ref |-> LiveCell, by |-> 0,
                   leaf |-> [RootAt(Height) EXCEPT ![a] = v], upd |-> {a},
                   script |-> tx[LiveCell].script, status |-> "pool"]
           txs == [tx EXCEPT ![x] = new]
<1>1. /\ nTx < MaxTxs /\ v \in Versions /\ nTx' = x
      /\ tx' = SettleTx(x, txs) /\ chain' = Append(chain, x)
  BY DEF ForeignCommit
<1>2. x \in TxIds /\ x > nTx /\ nTx <= nTx'
  BY <1>1, NetTyped, BoundsTyped DEF TxIds
<1>3. new \in Tx
  <2>1. LiveCell \in 0..MaxTxs /\ tx[LiveCell] \in Tx /\ RootAt(Height) \in [Accounts -> Versions]
    BY ChainTyped, BoundsTyped DEF SmtInv0, TxIds, LiveCell
  <2>2. [RootAt(Height) EXCEPT ![a] = v] \in [Accounts -> Versions]
    BY <1>1, <2>1
  <2>3. QED
    BY <2>1, <2>2, StepValues DEF Tx
<1>4. txs \in [TxIds -> Tx] /\ txs[x] = new /\ \A y \in TxIds : y <= nTx => txs[y] = tx[y]
  BY <1>2, <1>3, NetTyped DEF SmtInv0, TypeOK, NodeTypeOK
<1>5. \A y \in TxIds \ {x} : txs[y] = tx[y]
  OBVIOUS
<1>6. new.kind = "update" /\ new.ref # 0
  BY NetTyped
<1> HIDE DEF new, txs
<1>7. \A y \in TxIds : /\ tx'[y].leaf = txs[y].leaf /\ tx'[y].upd = txs[y].upd
                       /\ tx'[y].kind = txs[y].kind /\ tx'[y].by = txs[y].by
                       /\ tx'[y].ref = txs[y].ref
  BY <1>1, <1>2, <1>4, SettlesSame DEF SmtInv0
<1>8. \A y \in TxIds : y <= nTx => SameTx(y)
  BY <1>4, <1>7 DEF SameTx
<1>9. \A y \in TxIds : CellOk(y)'
  BY <1>4, <1>5, <1>6, <1>7 DEF CellsOk, CellOk
<1>10. QED
  BY <1>1, <1>2, <1>8, <1>9, BlockCells

LEMMA NextCells ==
    ASSUME SmtInv0, CellsOk, [Next]_vars
    PROVE  NetGrows /\ CellsOk'
<1>1. CASE UNCHANGED net
  BY <1>1, SameCells
<1>2. ASSUME Updater \/ UpdFail PROVE NetGrows /\ CellsOk'
  <2>1. UpdBuild \/ UpdSend \/ UNCHANGED net
    BY <1>2 DEF Updater, UpdFail, UpdRollbackWriting, UpdCloseStale, UpdPassNonce,
         UpdCheckInProgress, UpdCheckLiveCell, UpdDiffScript, UpdLock, UpdStartWrite,
         UpdWriteSmt, UpdMarkPending
  <2>2. QED
    BY <1>1, <2>1, UpdBuildCells, UpdSendCells
<1>3. ASSUME Handlers PROVE NetGrows /\ CellsOk'
  <2>1. Kinds \subseteq SpendKinds
    BY SmtTaskAssumption DEF SmtTaskAssumption
  <2>2. QED
    BY <1>1, <1>3, <2>1, SpendSendCells DEF Handlers, Request, SpendCreateTask
<1>4. ASSUME Environment PROVE NetGrows /\ CellsOk'
  <2>1. ASSUME NEW x \in TxIds, RejectTx(x) PROVE NetGrows /\ CellsOk'
    BY <2>1, StatusCells DEF RejectTx
  <2>2. SyncInfo \/ Crash \/ LockExpire => UNCHANGED net
    BY DEF SyncInfo, Crash, LockExpire
  <2>3. QED
    BY <1>1, <1>4, <2>1, <2>2, CommitTxCells, ForeignCommitCells DEF Environment
<1>5. doUpdateDistribution \/ doCheckTx => UNCHANGED net
  BY DEF doUpdateDistribution, doCheckTx
<1>6. Rollbacker \/ RbFail => UNCHANGED net
  BY DEF Rollbacker, RbFail, RbRead, RbLock, RbWrite, RbFinish, RbUnchanged
<1>7. Confirmer \/ CfFail => UNCHANGED net
  BY DEF Confirmer, CfFail, CfRead, CfLock, CfWrite, CfFinish, CfUnchanged
<1>8. Parser => UNCHANGED net
  BY DEF Parser, ParseOwnUpdate, ParseOtherUpdate, ParseNoLeaf, ParseChannelProfit,
         ParserStoreBlock, ParseUnchanged
<1>9. UNCHANGED vars => UNCHANGED net
  BY DEF vars, net
<1>10. QED
  BY <1>1, <1>2, <1>3, <1>4, <1>5, <1>6, <1>7, <1>8, <1>9 DEF Next

-----------------------------------------------------------------------------
(* What a step that leaves the records alone keeps *)

\* What may happen to a row without its records having to follow.
RowKeeps(u) ==
    /\ Open(u)' = Open(u)
    /\ OnChainRow(u) => OnChainRow(u)'
RowUndone(u) == u <= nTask /\ ToUndo(u) => ToUndo(u)' \/ rb'.pc = "idle"
RowSent(u) == Sent(u)' => Sent(u) /\ task'[u].out = task[u].out
RowAsks(u) == Sent(u)' => Asked(u, task[u].out)'
RowParsed(u) == ParserRow(u)' => /\ ParserRow(u)
                                 /\ task'[u].out = task[u].out
                                 /\ FromDistribution(u)' => FromDistribution(u)
                                 /\ FromDistribution(u) => task'[u].bn = task[u].bn
ChainRecordsStay == \A r \in recs : r.type = "Chain" => r \in recs'
RbGoesOn == \/ rb' = rb
            \/ rb'.pc = "idle"
            \/ rb.pc # "idle" /\ rb'.t = rb.t
            \/ rb'.t \in TaskIds /\ rb'.t <= nTask /\ ToUndo(rb'.t)

LEMMA RecordTyped ==
    ASSUME SmtInv0, NEW r \in recs
    PROVE  /\ r.task = 0 \/ r.task \in TaskIds
           /\ r.type \in {"Default", "Closed", "Chain"} /\ r \in Record
<1>1. r \in Record
  BY DEF SmtInv0, TypeOK, DatabaseTypeOK
<1>2. QED
  BY <1>1, BoundsTyped DEF Record, TaskIds

\* The transaction of a task that sent one.
LEMMA SentTx ==
    ASSUME SmtInv0, NEW t \in TaskIds, Sent(t)
    PROVE  /\ task[t].type = "Delegate" /\ FromDistribution(t)
           /\ task[t].smt \in {Writing, WriteComplete}
           /\ task[t].out \in TxIds /\ task[t].out <= nTx
<1>1. RowOk(t) /\ task[t].out \in 0..MaxTxs
  BY DEF SmtInv0, RowsOk, TypeOK, DatabaseTypeOK, Row
<1>2. task[t].out # 0 /\ task[t].type = "Delegate" /\ task[t].smt \in {Writing, WriteComplete}
  BY <1>1 DEF Sent, Of, RowOk, SmtInv0, UpdTask
<1>3. QED
  BY <1>1, <1>2, BoundsTyped DEF RowOk, TxIds

\* What is recorded of a block stays so.
LEMMA RecordedKept ==
    ASSUME SmtInv0, NetGrows, ChainRecordsStay, NEW h \in 1..Height, Recorded(h)
    PROVE  Recorded(h)'
<1>1. chain[h] \in TxIds /\ chain[h] <= nTx /\ chain'[h] = chain[h]
  BY NetTyped DEF NetGrows, ChainGrows
<1>2. SameTx(chain[h])
  BY <1>1 DEF NetGrows
<1>3. QED
  BY <1>1, <1>2 DEF Recorded, RootAt, SameTx, ChainRecordsStay

LEMMA ParserRowKept ==
    ASSUME SmtInv0, NetGrows, ChainRecordsStay, ParsedOk, NEW u \in TaskIds,
           RowParsed(u), ParserRow(u)'
    PROVE  \E h \in 1..Height' : RowOfBlock(u, h)'
<1>1. PICK h \in 1..Height : RowOfBlock(u, h)
  BY DEF ParsedOk, RowParsed
<1>2. h \in 1..Height' /\ chain'[h] = chain[h] /\ SameTx(chain[h])
  BY NetTyped DEF NetGrows, ChainGrows
<1>3. RowOfBlock(u, h)'
  BY <1>1, <1>2, RecordedKept DEF RowOfBlock, RowParsed, SameTx
<1>4. QED
  BY <1>2, <1>3

LEMMA ParsedKept ==
    ASSUME SmtInv0, NetGrows, ChainRecordsStay, ParsedOk, parsed' = parsed,
           handled' => handled \/ Recorded(parsed + 1)',
           \A u \in TaskIds : \/ RowParsed(u)
                              \/ \E h \in 1..Height' : RowOfBlock(u, h)'
    PROVE  ParsedOk'
<1>1. parsed \in 1..Height /\ (handled => parsed < Height)
  BY DEF SmtInv0, TypeOK, DatabaseTypeOK, StepsOK
<1>2. \A h \in 1..parsed : Recorded(h)'
  BY <1>1, NetTyped, RecordedKept DEF ParsedOk
<1>3. handled' => Recorded(parsed + 1)'
  <2>1. handled => parsed + 1 \in 1..Height
    BY <1>1, NetTyped
  <2>2. QED
    BY <2>1, RecordedKept DEF ParsedOk
<1>4. \A u \in TaskIds : ParserRow(u)' => \E h \in 1..Height' : RowOfBlock(u, h)'
  BY ParserRowKept
<1>5. QED
  BY <1>2, <1>3, <1>4 DEF ParsedOk

LEMMA MatchKept ==
    ASSUME SmtInv0, NetGrows, RecordsMatch, NEW u \in TaskIds, RowSent(u),
           DefaultOf(u) \subseteq DefaultOf(u)'
    PROVE  RowAsks(u)
<1> SUFFICES ASSUME Sent(u)' PROVE Asked(u, task[u].out)'
  BY DEF RowAsks
<1>1. Sent(u) /\ task'[u].out = task[u].out
  BY DEF RowSent
<1>2. SameTx(task[u].out) /\ Asked(u, task[u].out)
  BY <1>1, SentTx DEF NetGrows, RecordsMatch
<1>3. QED
  BY <1>1, <1>2 DEF Asked, SameTx

LEMMA RbKept ==
    ASSUME SmtInv0, TypeOK', RbTask, RbGoesOn, nTask <= nTask',
           \A u \in TaskIds : RowUndone(u)
    PROVE  RbTask'
<1>1. CASE rb'.pc = "idle"
  BY <1>1 DEF RbTask
<1>2. CASE rb'.pc # "idle"
  <2>1. rb'.t \in TaskIds /\ rb'.t <= nTask /\ ToUndo(rb'.t)
    BY <1>2 DEF RbGoesOn, SmtInv0, StepsOK, RbTask
  <2>2. rb'.t <= nTask'
    BY <2>1 DEF SmtInv0, TypeOK, DatabaseTypeOK, TaskIds
  <2>3. QED
    BY <1>2, <2>1, <2>2 DEF RbTask, RowUndone, ToUndo
<1>3. QED
  BY <1>1, <1>2

\* What a step leaves to be shown of the records and the tasks.
LEMMA TasksStep ==
    ASSUME SmtInv0, TypeOK', NetGrows, TasksOk, RbGoesOn, nTask <= nTask',
           \A r \in recs' : \/ Placed(r)'
                            \/ r \in recs /\ (r.task \in TaskIds => RowKeeps(r.task)),
           \A u \in TaskIds : \/ Open(u)' => DefaultOf(u)' # {}
                              \/ RowKeeps(u) /\ DefaultOf(u) \subseteq DefaultOf(u)',
           \A u \in TaskIds : \/ RowAsks(u)
                              \/ RowSent(u) /\ DefaultOf(u) \subseteq DefaultOf(u)',
           \A u \in TaskIds : RowUndone(u)
    PROVE  TasksOk'
<1>1. RecordsPlaced'
  <2>1. ASSUME NEW r \in recs, r.task \in TaskIds => RowKeeps(r.task) PROVE Placed(r)'
    <3>1. Placed(r) /\ (r.task = 0 \/ r.task \in TaskIds)
      BY RecordTyped DEF TasksOk, RecordsPlaced
    <3>2. r.task = 0 \/ RowKeeps(r.task)
      BY <2>1, <3>1
    <3>3. QED
      BY <3>1, <3>2 DEF Placed, RowKeeps
  <2>2. QED
    BY <2>1 DEF RecordsPlaced
<1>2. OpenHaveRecords'
  <2>1. ASSUME NEW u \in TaskIds, Open(u)' PROVE DefaultOf(u)' # {}
    BY <2>1 DEF TasksOk, OpenHaveRecords, RowKeeps
  <2>2. QED
    BY <2>1 DEF OpenHaveRecords
<1>3. RecordsMatch'
  <2>1. \A u \in TaskIds : RowAsks(u)
    BY MatchKept DEF TasksOk
  <2>2. QED
    BY <2>1 DEF RecordsMatch, RowAsks
<1>4. RbTask'
  BY RbKept DEF TasksOk
<1>5. QED
  BY <1>1, <1>2, <1>3, <1>4 DEF TasksOk

\* A step that leaves the records alone.
LEMMA QuietTasks ==
    ASSUME SmtInv0, TypeOK', NetGrows, TasksOk, recs' = recs, RbGoesOn, nTask <= nTask',
           \A u \in TaskIds : RowKeeps(u) /\ RowUndone(u) /\ (RowSent(u) \/ RowAsks(u))
    PROVE  TasksOk'
<1>1. \A u \in TaskIds : DefaultOf(u)' = DefaultOf(u)
  BY DEF DefaultOf, RecordsOf
<1>2. QED
  BY <1>1, TasksStep

LEMMA QuietStep ==
    ASSUME SmtInv0, TypeOK', NetGrows, TasksOk, ParsedOk, recs' = recs, RbGoesOn,
           nTask <= nTask', parsed' = parsed, handled' => handled \/ Recorded(parsed + 1)',
           \A u \in TaskIds : RowKeeps(u) /\ RowUndone(u) /\ (RowSent(u) \/ RowAsks(u)),
           \A u \in TaskIds : RowParsed(u) \/ \E h \in 1..Height' : RowOfBlock(u, h)'
    PROVE  TasksOk' /\ ParsedOk'
<1>1. ChainRecordsStay
  BY DEF ChainRecordsStay
<1>2. QED
  BY <1>1, QuietTasks, ParsedKept

LEMMA RowSame ==
    ASSUME NEW u \in TaskIds, task'[u] = task[u]
    PROVE  RowKeeps(u) /\ RowUndone(u) /\ RowParsed(u)
BY DEF RowKeeps, RowUndone, RowParsed, Open, OnChainRow, ToUndo, ParserRow, FromDistribution

\* The updater takes nothing in its hands that was not there.
UpdTakesNone == upd'.pc \in {"send", "mark"} => upd.pc \in {"send", "mark"} /\ upd'.t = upd.t

LEMMA RowSentSame ==
    ASSUME UpdTakesNone, NEW u \in TaskIds, task'[u] = task[u]
    PROVE  RowSent(u)
BY DEF RowSent, Sent, Of, UpdTakesNone

\* Steps that only move the updater, the chain or the workers.
LEMMA StillRecords ==
    ASSUME SmtInv0, TypeOK', NetGrows, TasksOk, ParsedOk, UNCHANGED <<task, nTask, recs, parsed>>,
           handled' => handled, RbGoesOn, UpdTakesNone
    PROVE  TasksOk' /\ ParsedOk'
<1>1. nTask <= nTask'
  BY DEF SmtInv0, TypeOK, DatabaseTypeOK
<1>2. QED
  BY <1>1, QuietStep, RowSame, RowSentSame

\* A statement that changes row t.
LEMMA MarkRecords ==
    ASSUME SmtInv0, TypeOK', NetGrows, TasksOk, ParsedOk, UNCHANGED <<nTask, recs, parsed>>,
           handled' => handled, RbGoesOn,
           NEW t \in TaskIds, \A u \in TaskIds \ {t} : task'[u] = task[u] /\ RowSent(u),
           RowKeeps(t), RowUndone(t), RowSent(t) \/ RowAsks(t), RowParsed(t)
    PROVE  TasksOk' /\ ParsedOk'
<1>1. nTask <= nTask'
  BY DEF SmtInv0, TypeOK, DatabaseTypeOK
<1>2. \A u \in TaskIds : /\ RowKeeps(u) /\ RowUndone(u) /\ RowParsed(u)
                         /\ RowSent(u) \/ RowAsks(u)
  BY RowSame
<1>3. QED
  BY <1>1, <1>2, QuietStep

\* A statement that closes records of task t.
LEMMA CloseStep ==
    ASSUME SmtInv0, TypeOK', NetGrows, TasksOk, ParsedOk, UNCHANGED <<nTask, parsed>>,
           handled' => handled, RbGoesOn, NEW t \in TaskIds, NEW rs \in SUBSET RecordsOf(t),
           recs' = CloseRecords(t, rs), \A r \in rs : r.type # "Chain",
           \A u \in TaskIds \ {t} : task'[u] = task[u] /\ RowSent(u),
           RowUndone(t), RowParsed(t), ~ Sent(t)', ~ OnChainRow(t),
           Open(t)' => DefaultOf(t) \ rs # {},
           Open(t) => Open(t)' \/ DefaultOf(t) \subseteq rs
    PROVE  TasksOk' /\ ParsedOk'
<1>1. /\ \A r \in recs : r.type # "Closed" /\ r \notin rs => r \in recs'
      /\ \A r \in recs' : r \in recs \ rs \/ (r.type = "Closed" /\ r.task = t)
  <2>1. rs \subseteq Record
    BY RecordTyped DEF RecordsOf
  <2>2. \A r \in rs : [r EXCEPT !.type = "Closed"].type = "Closed"
                     /\ [r EXCEPT !.type = "Closed"].task = t
    BY <2>1 DEF Record, RecordsOf
  <2>3. QED
    BY <2>2 DEF CloseRecords
<1>2. \A u \in TaskIds \ {t} : DefaultOf(u) \subseteq DefaultOf(u)'
  BY <1>1 DEF DefaultOf, RecordsOf
<1>3. DefaultOf(t) \ rs \subseteq DefaultOf(t)'
  BY <1>1 DEF DefaultOf, RecordsOf
<1>4. ASSUME NEW r \in recs'
      PROVE  Placed(r)' \/ (r \in recs /\ (r.task \in TaskIds => RowKeeps(r.task)))
  <2>1. CASE r \in recs \ rs /\ r.task = t
    <3>1. r \in DefaultOf(t) => Open(t)'
      BY <2>1 DEF TasksOk, RecordsPlaced, Placed, DefaultOf, RecordsOf, TaskIds
    <3>2. r.type # "Chain" /\ r.task # 0
      BY <2>1 DEF TasksOk, RecordsPlaced, Placed, TaskIds
    <3>3. QED
      BY <2>1, <3>1, <3>2 DEF Placed, DefaultOf, RecordsOf
  <2>2. CASE r \in recs \ rs /\ r.task # t
    BY <2>2, RowSame
  <2>3. CASE r.type = "Closed" /\ r.task = t
    BY <2>3 DEF Placed, TaskIds
  <2>4. QED
    BY <1>1, <2>1, <2>2, <2>3
<1>5. nTask <= nTask'
  BY DEF SmtInv0, TypeOK, DatabaseTypeOK
<1>6. ASSUME NEW u \in TaskIds
      PROVE  /\ \/ Open(u)' => DefaultOf(u)' # {}
                \/ RowKeeps(u) /\ DefaultOf(u) \subseteq DefaultOf(u)'
             /\ \/ RowAsks(u)
                \/ RowSent(u) /\ DefaultOf(u) \subseteq DefaultOf(u)'
             /\ RowUndone(u) /\ RowParsed(u)
  <2>1. CASE u = t
    BY <1>3, <2>1 DEF RowAsks
  <2>2. CASE u # t
    BY <1>2, <2>2, RowSame
  <2>3. QED
    BY <2>1, <2>2
<1>7. ChainRecordsStay
  BY <1>1 DEF ChainRecordsStay
<1>8. TasksOk'
  BY <1>4, <1>5, <1>6, TasksStep
<1>9. ParsedOk'
  BY <1>6, <1>7, ParsedKept
<1>10. QED
  BY <1>8, <1>9

-----------------------------------------------------------------------------
(* The updater, the checker and the workers *)

\* A row of which a statement changes type, smt_status and tx_status only.
Marks(t, type, s, x) ==
    /\ \A u \in TaskIds \ {t} : task'[u] = task[u]
    /\ task'[t].type = type /\ task'[t].smt = s /\ task'[t].tx = x
    /\ task'[t].ref = task[t].ref /\ task'[t].out = task[t].out
    /\ task'[t].from = task[t].from /\ task'[t].bn = task[t].bn

LEMMA RowMarked ==
    ASSUME TypeOK, NEW t \in TaskIds
    PROVE  /\ \A s : task' = [task EXCEPT ![t].smt = s] => Marks(t, task[t].type, s, task[t].tx)
           /\ \A s, x : task' = [task EXCEPT ![t].smt = s, ![t].tx = x]
                          => Marks(t, task[t].type, s, x)
           /\ \A s, x, n : task' = [task EXCEPT ![t].smt = s, ![t].tx = x, ![t].retry = n]
                          => Marks(t, task[t].type, s, x)
           /\ \A y : task' = [task EXCEPT ![t].type = y] => Marks(t, y, task[t].smt, task[t].tx)
           /\ task' = task => Marks(t, task[t].type, task[t].smt, task[t].tx)
<1>1. task \in [TaskIds -> Row]
  BY DEF TypeOK, DatabaseTypeOK
<1>2. ASSUME NEW s, task' = [task EXCEPT ![t].smt = s]
      PROVE  Marks(t, task[t].type, s, task[t].tx)
  BY <1>1, <1>2 DEF Marks, Row
<1>3. ASSUME NEW s, NEW x, task' = [task EXCEPT ![t].smt = s, ![t].tx = x]
      PROVE  Marks(t, task[t].type, s, x)
  BY <1>1, <1>3 DEF Marks, Row
<1>4. ASSUME NEW s, NEW x, NEW n,
             task' = [task EXCEPT ![t].smt = s, ![t].tx = x, ![t].retry = n]
      PROVE  Marks(t, task[t].type, s, x)
  BY <1>1, <1>4 DEF Marks, Row
<1>5. ASSUME NEW y, task' = [task EXCEPT ![t].type = y]
      PROVE  Marks(t, y, task[t].smt, task[t].tx)
  BY <1>1, <1>5 DEF Marks, Row
<1>6. ASSUME task' = task PROVE Marks(t, task[t].type, task[t].smt, task[t].tx)
  BY <1>6 DEF Marks
<1>7. QED
  BY <1>2, <1>3, <1>4, <1>5, <1>6

\* A delegate task that stays one and is not made (2,1) by the step.
LEMMA DelegateMarked ==
    ASSUME SmtInv0, TypeOK', NetGrows, TasksOk, ParsedOk, UNCHANGED <<nTask, recs, parsed>>,
           handled' => handled, RbGoesOn, UpdTakesNone,
           NEW t \in TaskIds, NEW s, NEW x, Marks(t, "Delegate", s, x),
           task[t].type = "Delegate",
           s = WriteComplete /\ x = Pending => Sent(t),
           task[t].smt \notin {NeedToRollback, RollbackComplete} \/ rb'.pc = "idle",
           s # RollbackComplete, task[t].smt # RollbackComplete
    PROVE  TasksOk' /\ ParsedOk'
<1>1. \A u \in TaskIds \ {t} : task'[u] = task[u] /\ RowSent(u)
  BY RowSentSame DEF Marks
<1>2. RowKeeps(t) /\ RowUndone(t)
  BY DEF Marks, RowKeeps, RowUndone, Open, OnChainRow, ToUndo
<1>3. RowSent(t)
  BY DEF Marks, RowSent, Sent, Of, UpdTakesNone
<1>4. RowParsed(t)
  BY DEF Marks, RowParsed, ParserRow, FromDistribution
<1>5. QED
  BY <1>1, <1>2, <1>3, <1>4, MarkRecords

Before == SmtInv0 /\ TypeOK' /\ NetGrows /\ RecInv
After == TasksOk' /\ ParsedOk'

LEMMA UpdRollbackWritingRecords ==
    ASSUME Before, NEW t \in TaskIds, UpdRollbackWriting(t)
    PROVE  After
<1>1. /\ task[t].type = "Delegate" /\ task[t].smt = Writing /\ upd.pc = "idle"
      /\ task' = [task EXCEPT ![t].smt = NeedToRollback]
      /\ UNCHANGED <<nTask, recs, parsed, handled, rb, upd>>
  BY DEF UpdRollbackWriting, HeadTask, GetNeedToDoTaskList, At, UpdUnchanged
<1>2. Marks(t, "Delegate", NeedToRollback, task[t].tx)
  BY <1>1, RowMarked DEF Before, SmtInv0
<1>3. RbGoesOn /\ UpdTakesNone
  BY <1>1 DEF RbGoesOn, UpdTakesNone
<1>4. QED
  BY <1>1, <1>2, <1>3, DelegateMarked DEF Before, After, RecInv, NeedToRollback, WriteComplete,
     RollbackComplete, Writing

LEMMA UpdStartWriteRecords ==
    ASSUME Before, UpdStartWrite
    PROVE  After
<1> PICK t : t = upd.t
  OBVIOUS
<1>1. /\ upd.pc = "root" /\ upd' = [upd EXCEPT !.pc = "write"]
      /\ task' = [task EXCEPT ![t].smt = Writing]
      /\ UNCHANGED <<nTask, recs, parsed, handled, rb>>
  BY DEF UpdStartWrite, UpdUnchanged
<1>2. t \in TaskIds /\ Of(t, "Delegate", NeedToWrite, UnSend) /\ upd'.pc = "write"
  BY <1>1 DEF Before, SmtInv0, UpdTask, StepsOK, TypeOK, MemoryTypeOK
<1>3. Marks(t, "Delegate", Writing, UnSend)
  BY <1>1, <1>2, RowMarked DEF Before, SmtInv0, Of
<1>4. RbGoesOn /\ UpdTakesNone
  BY <1>1, <1>2 DEF RbGoesOn, UpdTakesNone
<1>5. QED
  BY <1>1, <1>2, <1>3, <1>4, DelegateMarked DEF Before, After, RecInv, NeedToRollback,
     WriteComplete, RollbackComplete, Writing, NeedToWrite, Of

LEMMA UpdMarkPendingRecords ==
    ASSUME Before, UpdMarkPending
    PROVE  After
<1> PICK t : t = upd.t
  OBVIOUS
<1>1. /\ upd.pc = "mark" /\ upd'.pc = "idle"
      /\ \/ task' = [task EXCEPT ![t].smt = WriteComplete, ![t].tx = Pending]
         \/ task' = task
      /\ UNCHANGED <<nTask, recs, parsed, handled, rb>>
  BY DEF UpdMarkPending, UpdUnchanged, UpdStop, UpdIdle
<1>2. t \in TaskIds /\ Of(t, "Delegate", Writing, UnSend) /\ Sent(t)
  BY <1>1 DEF Before, SmtInv0, UpdTask, StepsOK, Sent
<1>3. RbGoesOn /\ UpdTakesNone
  BY <1>1 DEF RbGoesOn, UpdTakesNone
<1>4. CASE task' = task
  BY <1>1, <1>3, <1>4, StillRecords DEF Before, After, RecInv
<1>5. CASE task' = [task EXCEPT ![t].smt = WriteComplete, ![t].tx = Pending]
  <2>1. Marks(t, "Delegate", WriteComplete, Pending)
    BY <1>2, <1>5, RowMarked DEF Before, SmtInv0, Of
  <2>2. QED
    BY <1>1, <1>2, <1>3, <2>1, DelegateMarked DEF Before, After, RecInv, NeedToRollback,
       WriteComplete, RollbackComplete, Writing, Of
<1>6. QED
  BY <1>1, <1>4, <1>5

\* The transaction is built from the records of the task.
LEMMA UpdBuildRecords ==
    ASSUME Before, UpdBuild
    PROVE  After
<1> PICK t : t = upd.t
  OBVIOUS
<1> PICK x : x = nTx + 1
  OBVIOUS
<1> DEFINE new == [kind |-> "update", ref |-> chain[upd.h], by |-> upd.t,
                   leaf |-> ChangedBy(DefaultOf(upd.t), RootAt(upd.h)),
                   upd |-> AccountsOf(DefaultOf(upd.t)),
                   script |-> tx[chain[upd.h]].script, status |-> "built"]
<1>1. /\ upd.pc = "build" /\ nTx < MaxTxs /\ upd' = [upd EXCEPT !.pc = "send"]
      /\ tx' = [tx EXCEPT ![x] = new]
      /\ task' = [task EXCEPT ![t].ref = chain[upd.h], ![t].out = x]
      /\ UNCHANGED <<nTask, recs, parsed, handled, rb>>
  BY DEF UpdBuild, UpdUnchanged
<1>2. /\ t \in TaskIds /\ Of(t, "Delegate", Writing, UnSend)
      /\ upd'.pc = "send" /\ upd'.t = t
  BY <1>1 DEF Before, SmtInv0, UpdTask, StepsOK, TypeOK, MemoryTypeOK
<1>3. x \in TxIds
  BY <1>1, NetTyped, BoundsTyped DEF TxIds, Before
<1>4. /\ \A u \in TaskIds \ {t} : task'[u] = task[u]
      /\ task'[t].type = task[t].type /\ task'[t].smt = task[t].smt /\ task'[t].tx = task[t].tx
      /\ task'[t].out = x /\ task'[t].from = task[t].from
  <2>1. task \in [TaskIds -> Row]
    BY DEF Before, SmtInv0, TypeOK, DatabaseTypeOK
  <2>2. QED
    BY <1>1, <1>2, <2>1 DEF Row
<1>5. \A u \in TaskIds \ {t} : RowSent(u)
  BY <1>2, <1>4 DEF RowSent, Sent, Of
<1>6. RowKeeps(t) /\ RowUndone(t) /\ RowParsed(t)
  <2>1. FromDistribution(t)
    BY <1>2 DEF Before, SmtInv0, RowsOk, RowOk, Of
  <2>2. QED
    BY <1>2, <1>4, <2>1 DEF RowKeeps, RowUndone, RowParsed, Open, OnChainRow, ToUndo, ParserRow,
       FromDistribution, Of
<1>7. Asked(t, task[t].out)'
  <2>1. tx'[x] = new
    BY <1>1, <1>3 DEF Before, SmtInv0, TypeOK, NodeTypeOK
  <2>2. ASSUME NEW a \in AccountsOf(DefaultOf(t))
        PROVE  \E r \in DefaultOf(t) : r.acc = a /\ r.ver = new.leaf[a]
    <3>1. PICK q \in DefaultOf(t) : q.acc = a
      BY <2>2 DEF AccountsOf
    <3>2. a \in Accounts
      BY <3>1, RecordTyped DEF Before, DefaultOf, RecordsOf, Record
    <3> DEFINE r == CHOOSE r \in DefaultOf(t) : r.acc = a
    <3>3. r \in DefaultOf(t) /\ r.acc = a
      BY <3>1
    <3>4. new.leaf[a] = r.ver
      BY <2>2, <3>2 DEF ChangedBy
    <3>5. QED
      BY <3>3, <3>4
  <2>3. new.upd = AccountsOf(DefaultOf(t))
    OBVIOUS
  <2> HIDE DEF new
  <2>4. DefaultOf(t)' = DefaultOf(t)
    BY <1>1 DEF DefaultOf, RecordsOf
  <2>5. QED
    BY <1>4, <2>1, <2>2, <2>3, <2>4 DEF Asked
<1>8. QED
  BY <1>1, <1>2, <1>4, <1>5, <1>6, <1>7, MarkRecords DEF Before, After, RecInv, RbGoesOn, RowAsks

LEMMA UpdCloseStaleRecords ==
    ASSUME Before, NEW t \in TaskIds, UpdCloseStale(t)
    PROVE  After
<1> PICK stale : stale = {r \in DefaultOf(t) : Stale(r)}
  OBVIOUS
<1>1. /\ upd.pc = "idle" /\ task[t].type = "Delegate" /\ task[t].smt = NeedToWrite
      /\ stale # {} /\ recs' = CloseRecords(t, stale)
      /\ task' = IF TaskIsStale(t) THEN [task EXCEPT ![t].type = "Closed"] ELSE task
      /\ UNCHANGED <<nTask, parsed, handled, rb, upd>>
  BY DEF UpdCloseStale, HeadTask, GetNeedToDoTaskList, UpdUnchanged
<1>2. stale \in SUBSET RecordsOf(t) /\ \A r \in stale : r.type # "Chain"
  BY DEF DefaultOf
<1>3. /\ TaskIsStale(t) => Marks(t, "Closed", NeedToWrite, task[t].tx) /\ DefaultOf(t) \subseteq stale
      /\ ~ TaskIsStale(t) => /\ Marks(t, "Delegate", NeedToWrite, task[t].tx)
                             /\ DefaultOf(t) \ stale # {}
  BY <1>1, RowMarked DEF Before, SmtInv0, TaskIsStale
<1>4. \A u \in TaskIds \ {t} : task'[u] = task[u]
  BY <1>3 DEF Marks
<1>5. /\ task'[t].type = IF TaskIsStale(t) THEN "Closed" ELSE "Delegate"
      /\ task'[t].smt = NeedToWrite /\ task'[t].out = task[t].out
      /\ task'[t].from = task[t].from /\ task'[t].bn = task[t].bn
  BY <1>3 DEF Marks
<1>6. \A u \in TaskIds \ {t} : RowSent(u)
  BY <1>1, <1>4, RowSentSame DEF UpdTakesNone
<1>7. RowUndone(t) /\ RowParsed(t) /\ ~ Sent(t)' /\ ~ OnChainRow(t)
  BY <1>1, <1>5 DEF RowUndone, ToUndo, RowParsed, ParserRow, FromDistribution, Sent, Of,
     OnChainRow, NeedToWrite, NeedToRollback, WriteComplete
<1>8. /\ Open(t)' => DefaultOf(t) \ stale # {}
      /\ Open(t)' \/ DefaultOf(t) \subseteq stale
  BY <1>3, <1>5 DEF Open, NeedToWrite, RollbackComplete
<1>9. QED
  BY <1>1, <1>2, <1>4, <1>6, <1>7, <1>8, CloseStep DEF Before, After, RecInv, RbGoesOn

LEMMA UpdDiffScriptRecords ==
    ASSUME Before, UpdDiffScript
    PROVE  After
<1> PICK t : t = upd.t
  OBVIOUS
<1>1. /\ upd.pc = "cell" /\ upd'.pc = "idle"
      /\ recs' = CloseRecords(t, DefaultOf(t))
      /\ task' = IF task[t].smt = NeedToWrite THEN [task EXCEPT ![t].smt = RollbackComplete]
                 ELSE task
      /\ UNCHANGED <<nTask, parsed, handled, rb>>
  BY DEF UpdDiffScript, UpdUnchanged, UpdIdle
<1>2. t \in TaskIds /\ Of(t, "Delegate", NeedToWrite, UnSend)
  BY <1>1 DEF Before, SmtInv0, UpdTask, StepsOK
<1>3. Marks(t, "Delegate", RollbackComplete, UnSend)
  BY <1>1, <1>2, RowMarked DEF Before, SmtInv0, Of
<1>4. \A u \in TaskIds \ {t} : task'[u] = task[u] /\ RowSent(u)
  BY <1>1, <1>3, RowSentSame DEF Marks, UpdTakesNone
<1>5. RowUndone(t) /\ RowParsed(t) /\ ~ Sent(t)' /\ ~ OnChainRow(t) /\ ~ Open(t)'
  BY <1>1, <1>2, <1>3 DEF Marks, RowUndone, ToUndo, RowParsed, ParserRow, FromDistribution,
     Sent, Of, OnChainRow, Open, NeedToWrite, NeedToRollback, WriteComplete, RollbackComplete
<1>6. DefaultOf(t) \in SUBSET RecordsOf(t) /\ \A r \in DefaultOf(t) : r.type # "Chain"
  BY DEF DefaultOf
<1>7. QED
  BY <1>1, <1>2, <1>4, <1>5, <1>6, CloseStep DEF Before, After, RecInv, RbGoesOn

LEMMA UpdaterRecords ==
    ASSUME Before, Updater \/ UpdFail
    PROVE  After
<1>1. UNCHANGED <<nTask, parsed, handled, rb>>
  BY DEF Updater, UpdFail, UpdUnchanged, UpdRollbackWriting, UpdCloseStale, UpdPassNonce,
         UpdCheckInProgress, UpdCheckLiveCell, UpdDiffScript, UpdLock, UpdStartWrite,
         UpdWriteSmt, UpdBuild, UpdSend, UpdMarkPending
<1>2. RbGoesOn
  BY <1>1 DEF RbGoesOn
<1>3. ASSUME UNCHANGED <<task, recs>>, UpdTakesNone PROVE After
  BY <1>1, <1>2, <1>3, StillRecords DEF Before, After, RecInv
<1>4. upd \in [pc : UpdSteps, t : 0..MaxTasks, h : 0..Height]
  BY DEF Before, SmtInv0, TypeOK, MemoryTypeOK
<1>5. ASSUME NEW t \in TaskIds, UpdPassNonce(t) PROVE After
  BY <1>3, <1>5 DEF UpdPassNonce, UpdIdle, UpdTakesNone
<1>6. ASSUME UpdCheckInProgress \/ UpdCheckLiveCell \/ UpdLock \/ UpdWriteSmt PROVE After
  <2>1. UNCHANGED <<task, recs>>
    BY <1>6 DEF UpdCheckInProgress, UpdCheckLiveCell, UpdLock, UpdWriteSmt
  <2>2. \/ upd' = UpdIdle
        \/ upd' = [upd EXCEPT !.pc = "cell"]
        \/ upd' = [upd EXCEPT !.pc = "lock", !.h = Height]
        \/ upd' = [upd EXCEPT !.pc = "root"]
        \/ upd' = [upd EXCEPT !.pc = "build"]
    BY <1>6 DEF UpdCheckInProgress, UpdCheckLiveCell, UpdLock, UpdWriteSmt
  <2>3. upd'.pc \in {"idle", "cell", "lock", "root", "build"}
    <3>1. UpdIdle.pc = "idle" /\ \A p : [upd EXCEPT !.pc = p].pc = p
      BY <1>4 DEF UpdIdle
    <3>2. [upd EXCEPT !.pc = "lock", !.h = Height].pc = "lock"
      BY <1>4
    <3>3. QED
      BY <2>2, <3>1, <3>2
  <2>4. UpdTakesNone
    BY <2>3 DEF UpdTakesNone
  <2>5. QED
    BY <1>3, <2>1, <2>4
<1>7. ASSUME UpdSend \/ UpdFail PROVE After
  <2>1. UNCHANGED <<task, recs>>
    BY <1>7 DEF UpdSend, UpdFail
  <2>2. UpdTakesNone
    BY <1>4, <1>7 DEF UpdSend, UpdFail, UpdStop, UpdIdle, UpdTakesNone
  <2>3. QED
    BY <1>3, <2>1, <2>2
<1>8. QED
  BY <1>5, <1>6, <1>7, UpdRollbackWritingRecords, UpdCloseStaleRecords, UpdDiffScriptRecords,
     UpdStartWriteRecords, UpdBuildRecords, UpdMarkPendingRecords DEF Updater

LEMMA CheckerRecords ==
    ASSUME Before, doCheckTx
    PROVE  After
<1>1. PICK lost \in SUBSET GetNeedDoCheckTxTaskList :
        task' = [t \in TaskIds |->
                   IF t \in lost THEN [task[t] EXCEPT !.smt = NeedToRollback, !.tx = Rejected]
                   ELSE task[t]]
  BY DEF doCheckTx
<1>2. UNCHANGED <<nTask, recs, parsed, handled, rb, upd>>
  BY DEF doCheckTx
<1>3. ASSUME NEW u \in TaskIds
      PROVE  RowKeeps(u) /\ RowUndone(u) /\ RowSent(u) /\ RowParsed(u)
  <2>1. CASE u \in lost
    <3>1. task[u].type # "Absent" /\ task[u].smt = WriteComplete /\ task[u].tx = Pending
      BY <1>1, <2>1 DEF GetNeedDoCheckTxTaskList, At
    <3>2. /\ task'[u].type = task[u].type /\ task'[u].smt = NeedToRollback
          /\ task'[u].tx = Rejected /\ task'[u].out = task[u].out
          /\ task'[u].from = task[u].from /\ task'[u].bn = task[u].bn
      <4>1. task[u] \in Row
        BY DEF Before, SmtInv0, TypeOK, DatabaseTypeOK
      <4>2. task'[u] = [task[u] EXCEPT !.smt = NeedToRollback, !.tx = Rejected]
        BY <1>1, <2>1
      <4>3. QED
        BY <4>1, <4>2 DEF Row
    <3>3. RowKeeps(u) /\ RowUndone(u)
      BY <3>1, <3>2 DEF RowKeeps, RowUndone, Open, OnChainRow, ToUndo, WriteComplete,
         NeedToRollback, RollbackComplete, Pending, Committed
    <3>4. RowSent(u) /\ RowParsed(u)
      BY <1>2, <3>2 DEF RowSent, Sent, Of, RowParsed, ParserRow, FromDistribution, WriteComplete,
         NeedToRollback
    <3>5. QED
      BY <3>3, <3>4
  <2>2. CASE u \notin lost
    BY <1>1, <1>2, <2>2, RowSame, RowSentSame DEF UpdTakesNone
  <2>3. QED
    BY <2>1, <2>2
<1>4. nTask <= nTask' /\ RbGoesOn
  BY <1>2 DEF Before, SmtInv0, TypeOK, DatabaseTypeOK, RbGoesOn
<1>5. QED
  BY <1>2, <1>3, <1>4, QuietStep DEF Before, After, RecInv

LEMMA RbFinishRecords ==
    ASSUME Before, RbFinish
    PROVE  After
<1> PICK t : t = rb.t
  OBVIOUS
<1>1. t \in TaskIds /\ ToUndo(t) /\ rb'.pc = "idle" /\ UNCHANGED <<nTask, parsed, handled, upd>>
  BY DEF RbFinish, RbUnchanged, WorkIdle, Before, SmtInv0, StepsOK, RecInv, TasksOk, RbTask
<1>2. RbGoesOn /\ UpdTakesNone
  BY <1>1 DEF RbGoesOn, UpdTakesNone
<1>3. ~ Sent(t) /\ ~ OnChainRow(t)
  <2>1. Sent(t) => task[t].type = "Delegate" /\ task[t].smt \in {Writing, WriteComplete}
    BY <1>1, SentTx DEF Before
  <2>2. QED
    BY <1>1, <2>1 DEF ToUndo, OnChainRow, NeedToRollback, NeedToWrite, Writing, WriteComplete
<1>4. ASSUME MayRetry(t), recs' = recs,
             task' = IF task[t].smt = NeedToRollback
                     THEN [task EXCEPT ![t].smt = NeedToWrite, ![t].tx = UnSend,
                                       ![t].retry = @ + 1]
                     ELSE task
      PROVE  After
  <2>1. task[t].type = "Delegate" /\ task[t].smt = NeedToRollback
    BY <1>1, <1>4 DEF MayRetry, ToUndo
  <2>2. Marks(t, "Delegate", NeedToWrite, UnSend)
    BY <1>1, <1>4, <2>1, RowMarked DEF Before, SmtInv0
  <2>3. QED
    BY <1>1, <1>2, <1>4, <2>1, <2>2, DelegateMarked DEF Before, After, RecInv, NeedToRollback,
       NeedToWrite, WriteComplete, RollbackComplete
<1>5. ASSUME ~ MayRetry(t), recs' = CloseRecords(t, RecordsOf(t)),
             task' = IF task[t].smt = NeedToRollback
                     THEN [task EXCEPT ![t].smt = RollbackComplete]
                     ELSE task
      PROVE  After
  <2>1. \/ task[t].smt = NeedToRollback /\ Marks(t, task[t].type, RollbackComplete, task[t].tx)
        \/ task[t].type = "Absent" /\ Marks(t, task[t].type, task[t].smt, task[t].tx)
    BY <1>1, <1>5, RowMarked DEF Before, SmtInv0, ToUndo
  <2>2. \A u \in TaskIds \ {t} : task'[u] = task[u] /\ RowSent(u)
    BY <1>2, <2>1, RowSentSame DEF Marks
  <2>3. ~ Open(t)' /\ RowUndone(t) /\ RowParsed(t)
    BY <1>1, <2>1 DEF Marks, Open, RowUndone, RowParsed, ParserRow, FromDistribution
  <2>4. ~ Sent(t)'
    <3>1. ~ Of(t, "Delegate", WriteComplete, Pending)'
      BY <2>1 DEF Of, Marks, WriteComplete, RollbackComplete
    <3>2. QED
      BY <1>1, <1>3, <3>1 DEF Sent
  <2>5. \A r \in RecordsOf(t) : r.type # "Chain"
    BY <1>3 DEF RecordsOf, Before, RecInv, TasksOk, RecordsPlaced, Placed
  <2>6. DefaultOf(t) \subseteq RecordsOf(t)
    BY DEF DefaultOf
  <2>7. QED
    BY <1>1, <1>2, <1>3, <1>5, <2>2, <2>3, <2>4, <2>5, <2>6, CloseStep DEF Before, After, RecInv
<1>6. \/ /\ MayRetry(t) /\ recs' = recs
         /\ task' = IF task[t].smt = NeedToRollback
                    THEN [task EXCEPT ![t].smt = NeedToWrite, ![t].tx = UnSend,
                                      ![t].retry = @ + 1]
                    ELSE task
      \/ /\ ~ MayRetry(t) /\ recs' = CloseRecords(t, RecordsOf(t))
         /\ task' = IF task[t].smt = NeedToRollback
                    THEN [task EXCEPT ![t].smt = RollbackComplete]
                    ELSE task
  BY DEF RbFinish
<1>7. QED
  BY <1>4, <1>5, <1>6

LEMMA RollbackerRecords ==
    ASSUME Before, Rollbacker \/ RbFail
    PROVE  After
<1>1. ASSUME NEW t \in TaskIds, RbRead(t) PROVE After
  <2>1. /\ UNCHANGED <<task, nTask, recs, parsed, handled, upd>>
        /\ rb'.t = t /\ task[t].smt = NeedToRollback
    BY <1>1 DEF RbRead, RbUnchanged, GetNeedRollBackTaskList
  <2>2. t <= nTask
    BY <2>1, NextRow DEF Before, NoRow, NeedToRollback, SmtInv0, TypeOK, DatabaseTypeOK, TaskIds
  <2>3. RbGoesOn
    BY <2>1, <2>2 DEF RbGoesOn, ToUndo
  <2>4. QED
    BY <2>1, <2>3, StillRecords DEF Before, After, RecInv, UpdTakesNone
<1>2. ASSUME RbLock \/ RbWrite \/ RbFail PROVE After
  <2>1. UNCHANGED <<task, nTask, recs, parsed, handled, upd>>
    BY <1>2 DEF RbLock, RbWrite, RbFail, RbUnchanged
  <2>2. rb \in [pc : WorkSteps, t : 0..MaxTasks, val : [Accounts -> Versions \cup {-1}]]
    BY DEF Before, SmtInv0, TypeOK, MemoryTypeOK
  <2>3. RbGoesOn
    BY <1>2, <2>2 DEF RbLock, RbWrite, RbFail, RbGoesOn, WorkIdle
  <2>4. QED
    BY <2>1, <2>3, StillRecords DEF Before, After, RecInv, UpdTakesNone
<1>3. QED
  BY <1>1, <1>2, RbFinishRecords DEF Rollbacker

LEMMA ConfirmerRecords ==
    ASSUME Before, Confirmer \/ CfFail
    PROVE  After
<1>1. /\ UNCHANGED <<nTask, recs, parsed, handled, upd, rb>>
      /\ UNCHANGED task \/ CfFinish
  BY DEF Confirmer, CfFail, CfRead, CfLock, CfWrite, CfFinish, CfUnchanged
<1>2. RbGoesOn /\ UpdTakesNone
  BY <1>1 DEF RbGoesOn, UpdTakesNone
<1>3. CASE UNCHANGED task
  BY <1>1, <1>2, <1>3, StillRecords DEF Before, After, RecInv
<1>4. CASE CfFinish /\ task' # task
  <2> PICK t : t = cf.t
    OBVIOUS
  <2>1. /\ task' = [task EXCEPT ![t].smt = WriteComplete]
        /\ task[t].type # "Absent" /\ task[t].smt = NeedToWrite /\ task[t].tx = Committed
    BY <1>4 DEF CfFinish, At
  <2>2. t \in TaskIds
    BY <1>4 DEF CfFinish, Before, SmtInv0, StepsOK
  <2>3. Marks(t, task[t].type, WriteComplete, Committed)
    BY <2>1, <2>2, RowMarked DEF Before, SmtInv0
  <2>4. \A u \in TaskIds \ {t} : task'[u] = task[u] /\ RowSent(u)
    BY <1>2, <2>3, RowSentSame DEF Marks
  <2>5. RowKeeps(t) /\ RowUndone(t)
    BY <2>1, <2>3 DEF Marks, RowKeeps, RowUndone, Open, OnChainRow, ToUndo, NeedToWrite,
       WriteComplete, NeedToRollback, RollbackComplete
  <2>6. RowSent(t) /\ RowParsed(t)
    BY <1>1, <2>3 DEF Marks, RowSent, Sent, Of, RowParsed, ParserRow, FromDistribution, Committed,
       Pending
  <2>7. QED
    BY <1>1, <1>2, <2>2, <2>4, <2>5, <2>6, MarkRecords DEF Before, After, RecInv
<1>5. QED
  BY <1>1, <1>3, <1>4

-----------------------------------------------------------------------------
(* The parser *)

LEMMA ParseTyped ==
    ASSUME Before, MayParse
    PROVE  /\ parsed + 1 \in 1..Height /\ parsed + 1 \in 1..Height'
           /\ NextTx = chain[parsed + 1] /\ chain'[parsed + 1] = NextTx
           /\ NextTx \in TxIds /\ NextTx # 0 /\ SameTx(NextTx)
<1>1. parsed \in 1..Height /\ parsed < Height
  BY DEF MayParse, ToParse, Before, SmtInv0, TypeOK, DatabaseTypeOK
<1>2. parsed + 1 \in 1..Height
  BY <1>1, NetTyped DEF Before
<1>3. NextTx \in TxIds /\ NextTx # 0 /\ NextTx <= nTx
  BY <1>2, NetTyped DEF Before, NextTx
<1>4. SameTx(NextTx) /\ chain'[parsed + 1] = NextTx /\ parsed + 1 \in 1..Height'
  BY <1>2, <1>3, NetTyped DEF Before, NetGrows, ChainGrows, NextTx
<1>5. QED
  BY <1>2, <1>3, <1>4 DEF NextTx

\* What ParseOwnUpdate does to the tables, row by row and record by record.
LEMMA ParseOwnUpdateDoes ==
    ASSUME Before, ParseOwnUpdate
    PROVE  /\ MayParse /\ tx[NextTx].kind = "update" /\ UNCHANGED <<nTask, parsed, upd, rb>>
           /\ \E t \in TaskIds :
                /\ Of(t, "Delegate", WriteComplete, Pending)
                /\ task[t].out = NextTx /\ task[t].ref # 0
                /\ \A u \in TaskIds \ {t} : task'[u] = task[u]
                /\ task'[t].type = "Chain" /\ task'[t].smt = NeedToWrite
                /\ task'[t].tx = Committed /\ task'[t].bn = parsed + 1
                /\ task'[t].ref = task[t].ref /\ task'[t].out = NextTx
                /\ task'[t].from = task[t].from
                /\ \A r \in recs : r.task # t => r \in recs'
                /\ \A r \in RecordsOf(t) :
                     \E q \in recs' : /\ q.type = "Chain" /\ q.bn = parsed + 1 /\ q.task = t
                                     /\ q.acc = r.acc /\ q.ver = r.ver
                /\ \A q \in recs' : \/ q \in recs /\ q.task # t
                                    \/ q.type = "Chain" /\ q.task = t
<1> PICK x : x = NextTx
  OBVIOUS
<1> DEFINE bn == parsed + 1
<1>1. PICK t \in GetTaskByRefOutpointAndOutpoint(x) :
        /\ task' = [task EXCEPT ![t].type = "Chain", ![t].smt = NeedToWrite,
                                ![t].tx = Committed, ![t].bn = bn]
        /\ recs' = (recs \ RecordsOf(t))
                   \cup {[r EXCEPT !.type = "Chain", !.bn = bn] : r \in RecordsOf(t)}
  BY DEF ParseOwnUpdate
<1>2. /\ tx[x].kind = "update" /\ UNCHANGED <<nTask, parsed, upd, rb>>
      /\ bn \in 1..Height' /\ chain'[bn] = x /\ x \in TxIds /\ SameTx(x)
  <2>1. MayParse /\ tx[x].kind = "update" /\ UNCHANGED <<nTask, parsed, upd, rb>>
    BY DEF ParseOwnUpdate, ParseUnchanged
  <2>2. QED
    BY <2>1, ParseTyped
<1>3. /\ t \in TaskIds /\ task[t].type # "Absent" /\ task[t].smt = WriteComplete
      /\ task[t].tx = Pending /\ task[t].out = x /\ task[t].ref = tx[x].ref
  BY <1>1 DEF GetTaskByRefOutpointAndOutpoint, At
<1>4. task[t].ref # 0 /\ Of(t, "Delegate", WriteComplete, Pending)
  BY <1>2, <1>3 DEF Before, RecInv, CellsOk, CellOk, SmtInv0, RowsOk, RowOk, Of
<1>5. /\ \A u \in TaskIds \ {t} : task'[u] = task[u]
      /\ task'[t].type = "Chain" /\ task'[t].smt = NeedToWrite /\ task'[t].tx = Committed
      /\ task'[t].bn = bn /\ task'[t].ref = task[t].ref /\ task'[t].out = x
      /\ task'[t].from = task[t].from
  <2>1. task \in [TaskIds -> Row]
    BY DEF Before, SmtInv0, TypeOK, DatabaseTypeOK
  <2> DEFINE new == [task[t] EXCEPT !.type = "Chain", !.smt = NeedToWrite,
                                    !.tx = Committed, !.bn = bn]
  <2>2. task'[t] = new /\ \A u \in TaskIds \ {t} : task'[u] = task[u]
    BY <1>1, <1>3, <2>1
  <2>3. /\ new.type = "Chain" /\ new.smt = NeedToWrite /\ new.tx = Committed
        /\ new.bn = bn /\ new.ref = task[t].ref /\ new.out = task[t].out
          /\ new.from = task[t].from
    BY <1>3, <2>1 DEF Row
  <2> HIDE DEF new
  <2>4. QED
    BY <1>3, <2>2, <2>3
<1>6. ASSUME NEW r \in RecordsOf(t)
      PROVE  /\ [r EXCEPT !.type = "Chain", !.bn = bn] \in recs'
             /\ [r EXCEPT !.type = "Chain", !.bn = bn].type = "Chain"
             /\ [r EXCEPT !.type = "Chain", !.bn = bn].bn = bn
             /\ [r EXCEPT !.type = "Chain", !.bn = bn].task = t
             /\ [r EXCEPT !.type = "Chain", !.bn = bn].acc = r.acc
             /\ [r EXCEPT !.type = "Chain", !.bn = bn].ver = r.ver
  <2>1. r \in Record /\ r.task = t
    BY RecordTyped DEF RecordsOf, Before
  <2>2. QED
    BY <1>1, <2>1 DEF Record
<1>7. \A r \in recs : r.task # t => r \in recs'
  BY <1>1 DEF RecordsOf
<1>8. ASSUME NEW r \in RecordsOf(t)
      PROVE  \E q \in recs' : /\ q.type = "Chain" /\ q.bn = bn /\ q.task = t
                             /\ q.acc = r.acc /\ q.ver = r.ver
  BY <1>6
<1>9. ASSUME NEW q \in recs'
      PROVE  (q \in recs /\ q.task # t) \/ (q.type = "Chain" /\ q.task = t)
  <2>1. CASE q \in recs \ RecordsOf(t)
    BY <2>1 DEF RecordsOf
  <2>2. CASE q \notin recs \ RecordsOf(t)
    <3>1. PICK r \in RecordsOf(t) : q = [r EXCEPT !.type = "Chain", !.bn = bn]
      BY <1>1, <2>2
    <3>2. QED
      BY <1>6, <3>1
  <2>3. QED
    BY <2>1, <2>2
<1>10. MayParse
  BY DEF ParseOwnUpdate
<1>11. QED
  BY <1>2, <1>3, <1>4, <1>5, <1>7, <1>8, <1>9, <1>10

LEMMA ParseOwnUpdateRecords ==
    ASSUME Before, ParseOwnUpdate
    PROVE  After
<1> PICK x : x = NextTx
  OBVIOUS
<1> DEFINE bn == parsed + 1
<1>1. PICK t \in TaskIds :
        /\ Of(t, "Delegate", WriteComplete, Pending)
        /\ task[t].out = x /\ task[t].ref # 0
        /\ \A u \in TaskIds \ {t} : task'[u] = task[u]
        /\ task'[t].type = "Chain" /\ task'[t].smt = NeedToWrite
        /\ task'[t].tx = Committed /\ task'[t].bn = bn
        /\ task'[t].ref = task[t].ref /\ task'[t].out = x
        /\ \A r \in recs : r.task # t => r \in recs'
        /\ \A r \in RecordsOf(t) :
             \E q \in recs' : /\ q.type = "Chain" /\ q.bn = bn /\ q.task = t
                             /\ q.acc = r.acc /\ q.ver = r.ver
        /\ \A q \in recs' : \/ q \in recs /\ q.task # t
                            \/ q.type = "Chain" /\ q.task = t
  BY ParseOwnUpdateDoes
<1>2. /\ tx[x].kind = "update" /\ UNCHANGED <<nTask, parsed, upd, rb>>
      /\ bn \in 1..Height' /\ chain'[bn] = x /\ x \in TxIds /\ SameTx(x)
  BY ParseOwnUpdateDoes, ParseTyped
<1>3. OnChainRow(t)' /\ ~ OnChainRow(t)
  BY <1>1 DEF OnChainRow, Of
<1>4. ASSUME NEW r \in recs'
      PROVE  Placed(r)' \/ (r \in recs /\ (r.task \in TaskIds => RowKeeps(r.task)))
  <2>1. CASE r \in recs /\ r.task # t
    BY <1>1, <2>1, RowSame
  <2>2. CASE r.type = "Chain" /\ r.task = t
    BY <1>3, <2>2 DEF Placed, TaskIds
  <2>3. QED
    BY <1>1, <2>1, <2>2
<1>5. ~ Sent(t)'
  <2>1. ~ (upd.pc \in {"send", "mark"} /\ upd.t = t)
    BY <1>1 DEF Before, SmtInv0, UpdTask, Of, Writing, WriteComplete
  <2>2. QED
    BY <1>1, <1>2, <2>1 DEF Sent, Of
<1>6. ASSUME NEW u \in TaskIds
       PROVE  /\ \/ Open(u)' => DefaultOf(u)' # {}
                 \/ RowKeeps(u) /\ DefaultOf(u) \subseteq DefaultOf(u)'
              /\ \/ RowAsks(u)
                 \/ RowSent(u) /\ DefaultOf(u) \subseteq DefaultOf(u)'
              /\ RowUndone(u) /\ (u # t => RowParsed(u))
  <2>1. CASE u = t
    BY <1>1, <1>5, <2>1 DEF Open, RowAsks, RowUndone, ToUndo, Of, WriteComplete,
       NeedToRollback
  <2>2. CASE u # t
    <3>1. DefaultOf(u) \subseteq DefaultOf(u)'
      BY <1>1, <2>2 DEF DefaultOf, RecordsOf
    <3>2. QED
      BY <1>1, <1>2, <2>2, <3>1, RowSame, RowSentSame DEF UpdTakesNone
  <2>3. QED
    BY <2>1, <2>2
<1>7. TasksOk'
  <2>1. nTask <= nTask' /\ RbGoesOn
    BY <1>2 DEF Before, SmtInv0, TypeOK, DatabaseTypeOK, RbGoesOn
  <2>2. QED
    BY <1>4, <1>6, <2>1, TasksStep DEF Before, RecInv
<1>8. ChainRecordsStay
  BY <1>1, <1>3 DEF ChainRecordsStay, Before, RecInv, TasksOk, RecordsPlaced, Placed
<1>9. Recorded(bn)'
  <2>1. Sent(t)
    BY <1>1 DEF Sent
  <2>2. Asked(t, x)
    BY <1>1, <2>1 DEF Before, RecInv, TasksOk, RecordsMatch
  <2>3. ASSUME NEW a \in tx[x].upd
        PROVE  \E r \in recs' : /\ r.acc = a /\ r.ver = tx[x].leaf[a]
                                /\ r.type = "Chain" /\ r.bn = bn
    <3>1. PICK r \in RecordsOf(t) : r.acc = a /\ r.ver = tx[x].leaf[a]
      BY <2>2, <2>3 DEF Asked, DefaultOf
    <3>2. QED
      BY <1>1, <3>1
  <2>4. QED
    BY <1>2, <2>3 DEF Recorded, RootAt, SameTx
<1>10. RowOfBlock(t, bn)'
  BY <1>1, <1>2, <1>9 DEF RowOfBlock
<1>11. ParsedOk'
  <2>1. \A u \in TaskIds : \/ RowParsed(u)
                           \/ \E h \in 1..Height' : RowOfBlock(u, h)'
    BY <1>2, <1>6, <1>10
  <2>2. QED
    BY <1>2, <1>8, <1>9, <2>1, ParsedKept DEF Before, RecInv
<1>12. QED
  BY <1>7, <1>11 DEF After

\* Row t, the next free one, is filled with one that is no delegate task.
LEMMA RowFilled ==
    ASSUME SmtInv0, NEW t \in TaskIds, t > nTask, task'[t].type # "Delegate", UNCHANGED upd
    PROVE  RowKeeps(t) /\ RowUndone(t) /\ RowSent(t)
<1>1. task[t] = NoRow /\ ~ (t <= nTask)
  BY NextRow
<1>2. ~ Sent(t)
  BY <1>1, SentTx DEF NoRow
<1>3. ~ Sent(t)'
  BY <1>2 DEF Sent, Of
<1>4. QED
  BY <1>1, <1>3 DEF RowKeeps, RowUndone, RowSent, Open, OnChainRow, NoRow

\* What ParseOtherUpdate does to the tables, row by row and record by record.
LEMMA ParseOtherUpdateDoes ==
    ASSUME Before, ParseOtherUpdate
    PROVE  /\ MayParse /\ tx[NextTx].kind = "update" /\ UNCHANGED <<parsed, upd, rb>>
           /\ \/ /\ \E u \in TaskIds : task[u].from = "parser" /\ task[u].out = NextTx
                 /\ UNCHANGED <<task, nTask, recs>>
              \/ /\ nTask < MaxTasks /\ nTask' = nTask + 1
                 /\ \A u \in TaskIds \ {nTask + 1} : task'[u] = task[u]
                 /\ task'[nTask + 1].type = "Chain" /\ task'[nTask + 1].smt = NeedToWrite
                 /\ task'[nTask + 1].tx = Committed /\ task'[nTask + 1].from = "parser"
                 /\ task'[nTask + 1].ref = tx[NextTx].ref /\ task'[nTask + 1].out = NextTx
                 /\ recs \subseteq recs'
                 /\ \A r \in recs' \ recs : r.type = "Chain" /\ r.task = nTask + 1
                 /\ \A a \in tx[NextTx].upd :
                      \E r \in recs' : /\ r.acc = a /\ r.ver = tx[NextTx].leaf[a]
                                      /\ r.type = "Chain" /\ r.bn = parsed + 1
<1> DEFINE x == NextTx
           bn == parsed + 1
           t == nTask + 1
           row == [NoRow EXCEPT !.type = "Chain", !.tx = Committed, !.own = TRUE,
                                !.ref = tx[x].ref, !.out = x, !.bn = bn]
           new == {[acc |-> a, ver |-> tx[x].leaf[a], type |-> "Chain", bn |-> bn, task |-> t] :
                      a \in tx[x].upd}
           twin(r) == \E q \in recs : /\ q.acc = r.acc /\ q.ver = r.ver
                                      /\ q.type = "Chain" /\ q.bn = bn
<1>1. /\ MayParse /\ tx[x].kind = "update" /\ UNCHANGED <<parsed, upd, rb>>
      /\ \/ /\ \E u \in TaskIds : task[u].from = "parser" /\ task[u].out = x
            /\ UNCHANGED <<task, nTask, recs>>
         \/ /\ nTask < MaxTasks /\ nTask' = t /\ task' = [task EXCEPT ![t] = row]
            /\ recs' = recs \cup {r \in new : ~ twin(r)}
  BY DEF ParseOtherUpdate, ParseUnchanged
<1>2. /\ row.type = "Chain" /\ row.smt = NeedToWrite /\ row.tx = Committed
      /\ row.ref = tx[x].ref /\ row.out = x /\ row.from = "parser"
  BY DEF NoRow, NeedToWrite
<1>3. nTask < MaxTasks => t \in TaskIds
  BY NextRow, BoundsTyped DEF Before, SmtInv0, TypeOK, DatabaseTypeOK, TaskIds
<1> HIDE DEF row, t, bn, x
<1>4. /\ \A r \in new : r.type = "Chain" /\ r.task = t
      /\ \A a \in tx[x].upd : \E r \in new : /\ r.acc = a /\ r.ver = tx[x].leaf[a]
                                             /\ r.type = "Chain" /\ r.bn = bn
  <2>1. ASSUME NEW a \in tx[x].upd
        PROVE  \E r \in new : /\ r.acc = a /\ r.ver = tx[x].leaf[a]
                               /\ r.type = "Chain" /\ r.bn = bn
    <3> DEFINE r == [acc |-> a, ver |-> tx[x].leaf[a], type |-> "Chain", bn |-> bn, task |-> t]
    <3>1. r \in new
      BY <2>1
    <3>2. QED
      BY <3>1
  <2>2. QED
    BY <2>1
<1> HIDE DEF new
<1>5. task' = [task EXCEPT ![t] = row] /\ t \in TaskIds
        => task'[t] = row /\ \A u \in TaskIds \ {t} : task'[u] = task[u]
  BY DEF Before, SmtInv0, TypeOK, DatabaseTypeOK
<1>6. ASSUME recs' = recs \cup {r \in new : ~ twin(r)}
      PROVE  /\ recs \subseteq recs'
             /\ \A r \in recs' \ recs : r.type = "Chain" /\ r.task = t
             /\ \A a \in tx[x].upd :
                  \E r \in recs' : /\ r.acc = a /\ r.ver = tx[x].leaf[a]
                                  /\ r.type = "Chain" /\ r.bn = bn
  <2>1. ASSUME NEW a \in tx[x].upd
        PROVE  \E r \in recs' : /\ r.acc = a /\ r.ver = tx[x].leaf[a]
                                /\ r.type = "Chain" /\ r.bn = bn
    <3>1. PICK r \in new : /\ r.acc = a /\ r.ver = tx[x].leaf[a]
                           /\ r.type = "Chain" /\ r.bn = bn
      BY <1>4, <2>1
    <3>2. CASE twin(r)
      BY <1>6, <3>1, <3>2
    <3>3. CASE ~ twin(r)
      BY <1>6, <3>1, <3>3
    <3>4. QED
      BY <3>2, <3>3
  <2>2. QED
    BY <1>4, <1>6, <2>1
<1>7. \/ /\ \E u \in TaskIds : task[u].from = "parser" /\ task[u].out = x
         /\ UNCHANGED <<task, nTask, recs>>
      \/ /\ nTask < MaxTasks /\ nTask' = t
         /\ \A u \in TaskIds \ {t} : task'[u] = task[u]
         /\ task'[t].type = "Chain" /\ task'[t].smt = NeedToWrite
         /\ task'[t].tx = Committed /\ task'[t].from = "parser"
         /\ task'[t].ref = tx[x].ref /\ task'[t].out = x
         /\ recs \subseteq recs'
         /\ \A r \in recs' \ recs : r.type = "Chain" /\ r.task = t
         /\ \A a \in tx[x].upd :
              \E r \in recs' : /\ r.acc = a /\ r.ver = tx[x].leaf[a]
                              /\ r.type = "Chain" /\ r.bn = bn
  <2> HIDE DEF twin
  <2>1. CASE /\ nTask < MaxTasks /\ nTask' = t /\ task' = [task EXCEPT ![t] = row]
             /\ recs' = recs \cup {r \in new : ~ twin(r)}
    <3>1. task'[t] = row /\ \A u \in TaskIds \ {t} : task'[u] = task[u]
      BY <1>3, <1>5, <2>1
    <3>2. /\ recs \subseteq recs'
          /\ \A r \in recs' \ recs : r.type = "Chain" /\ r.task = t
          /\ \A a \in tx[x].upd :
               \E r \in recs' : /\ r.acc = a /\ r.ver = tx[x].leaf[a]
                               /\ r.type = "Chain" /\ r.bn = bn
      BY <1>6, <2>1
    <3>3. QED
      BY <1>2, <2>1, <3>1, <3>2
  <2>2. QED
    BY <1>1, <2>1
<1>8. QED
  BY <1>1, <1>7 DEF x, bn, t

LEMMA ParseOtherUpdateRecords ==
    ASSUME Before, ParseOtherUpdate
    PROVE  After
<1> PICK x : x = NextTx
  OBVIOUS
<1> PICK bn : bn = parsed + 1
  OBVIOUS
<1> PICK t : t = nTask + 1
  OBVIOUS
<1>1. /\ MayParse /\ tx[x].kind = "update" /\ UNCHANGED <<parsed, upd, rb>>
      /\ \/ /\ \E u \in TaskIds : task[u].from = "parser" /\ task[u].out = x
            /\ UNCHANGED <<task, nTask, recs>>
         \/ nTask < MaxTasks /\ nTask' = t
  BY ParseOtherUpdateDoes
<1>2. /\ bn \in 1..Height /\ bn \in 1..Height' /\ chain[bn] = x /\ chain'[bn] = x
      /\ x \in TxIds /\ x # 0 /\ SameTx(x)
  BY <1>1, ParseTyped
<1>3. RbGoesOn /\ UpdTakesNone /\ nTask <= nTask'
  BY <1>1 DEF RbGoesOn, UpdTakesNone, Before, SmtInv0, TypeOK, DatabaseTypeOK
<1>4. CASE /\ \E u \in TaskIds : task[u].from = "parser" /\ task[u].out = x
           /\ UNCHANGED <<task, nTask, recs>>
  <2>1. PICK u \in TaskIds : task[u].from = "parser" /\ task[u].out = x
    BY <1>4
  <2>2. PICK h \in 1..Height : RowOfBlock(u, h)
    BY <1>2, <2>1 DEF Before, RecInv, ParsedOk, ParserRow
  <2>3. h = bn
    BY <1>2, <2>1, <2>2 DEF RowOfBlock, Before, RecInv, CellsOk
  <2>4. Recorded(bn)
    BY <1>1, <1>2, <2>2, <2>3 DEF RowOfBlock
  <2>5. Recorded(bn)'
    BY <1>2, <1>4, <2>4, RecordedKept DEF ChainRecordsStay, Before
  <2>6. \A u1 \in TaskIds : RowKeeps(u1) /\ RowUndone(u1) /\ RowSent(u1) /\ RowParsed(u1)
    BY <1>3, <1>4, RowSame, RowSentSame
  <2>7. QED
    BY <1>1, <1>3, <1>4, <2>5, <2>6, QuietStep DEF Before, After, RecInv
<1>5. CASE nTask < MaxTasks /\ nTask' = t
  <2>1. /\ \A u \in TaskIds \ {t} : task'[u] = task[u]
        /\ task'[t].type = "Chain" /\ task'[t].smt = NeedToWrite
        /\ task'[t].tx = Committed /\ task'[t].from = "parser"
        /\ task'[t].ref = tx[x].ref /\ task'[t].out = x
        /\ recs \subseteq recs'
        /\ \A r \in recs' \ recs : r.type = "Chain" /\ r.task = t
        /\ \A a \in tx[x].upd : \E r \in recs' : /\ r.acc = a /\ r.ver = tx[x].leaf[a]
                                                /\ r.type = "Chain" /\ r.bn = bn
    BY <1>5, NextRow, ParseOtherUpdateDoes DEF Before
  <2>2. t \in TaskIds /\ t > nTask /\ t # 0
    BY <1>5, NextRow, BoundsTyped DEF Before, SmtInv0, TypeOK, DatabaseTypeOK, TaskIds
  <2>3. RowKeeps(t) /\ RowUndone(t) /\ RowSent(t)
    BY <1>1, <2>1, <2>2, RowFilled DEF Before
  <2>4. OnChainRow(t)'
    <3>1. tx[x].ref # 0
      BY <1>1, <1>2 DEF Before, RecInv, CellsOk, CellOk
    <3>2. QED
      BY <2>1, <3>1 DEF OnChainRow
  <2>5. \A u \in TaskIds : RowKeeps(u) /\ RowUndone(u) /\ RowSent(u)
    BY <1>3, <2>1, <2>3, RowSame, RowSentSame
  <2>6. \A u \in TaskIds : DefaultOf(u) \subseteq DefaultOf(u)'
    BY <2>1 DEF DefaultOf, RecordsOf
  <2>7. \A r \in recs' : Placed(r)' \/ r \in recs
    BY <2>1, <2>2, <2>4 DEF Placed
  <2>8. TasksOk'
    BY <1>3, <2>5, <2>6, <2>7, TasksStep DEF Before, RecInv
  <2>9. Recorded(bn)'
    BY <1>2, <2>1 DEF Recorded, RootAt, SameTx
  <2>10. RowOfBlock(t, bn)'
    BY <1>2, <2>1, <2>9 DEF RowOfBlock, FromDistribution
  <2>11. ChainRecordsStay
    BY <2>1 DEF ChainRecordsStay
  <2>12. \A u \in TaskIds : RowParsed(u) \/ \E h \in 1..Height' : RowOfBlock(u, h)'
    BY <1>2, <2>1, <2>10, RowSame
  <2>13. ParsedOk'
    BY <1>1, <2>9, <2>11, <2>12, ParsedKept DEF Before, RecInv
  <2>14. QED
    BY <2>8, <2>13 DEF After
<1>6. QED
  BY <1>1, <1>4, <1>5

\* A handler's row, which names no cell, is replaced.
LEMMA ParseNoLeafRecords ==
    ASSUME Before, ParseNoLeaf
    PROVE  After
<1> PICK x : x = NextTx
  OBVIOUS
<1> PICK bn : bn = parsed + 1
  OBVIOUS
<1> PICK t : t = nTask + 1
  OBVIOUS
<1>1. /\ MayParse /\ tx[x].kind \in {"config", "profit"} /\ nTask < MaxTasks /\ nTask' = t
      /\ UNCHANGED <<parsed, upd, rb, recs>>
  BY DEF ParseNoLeaf, ParseUnchanged
<1>2. \A u \in TaskIds :
         /\ u = t => task'[u].type = "Chain" /\ task'[u].out = x /\ task'[u].from = "parser"
         /\ u # t => task'[u] = IF task[u].ref = 0 /\ task[u].out = x THEN NoRow ELSE task[u]
  <2> DEFINE row == [NoRow EXCEPT !.type = "Chain", !.smt = WriteComplete, !.tx = Committed,
                                  !.out = NextTx, !.bn = parsed + 1]
  <2>1. task' = [u \in TaskIds |->
                   IF u = nTask + 1 THEN row
                   ELSE IF task[u].ref = 0 /\ task[u].out = NextTx THEN NoRow
                   ELSE task[u]]
    BY DEF ParseNoLeaf
  <2>2. row.type = "Chain" /\ row.out = NextTx /\ row.from = "parser"
    BY DEF NoRow
  <2> HIDE DEF row
  <2>3. QED
    BY <2>1, <2>2
<1>3. /\ bn \in 1..Height' /\ chain'[bn] = x /\ x \in TxIds /\ x # 0 /\ SameTx(x)
  BY <1>1, ParseTyped
<1>4. RbGoesOn /\ UpdTakesNone /\ nTask <= nTask'
  BY <1>1 DEF RbGoesOn, UpdTakesNone, Before, SmtInv0, TypeOK, DatabaseTypeOK
<1>5. tx'[x].kind # "update" /\ tx'[x].upd = {}
  BY <1>1, <1>3 DEF SameTx, Before, RecInv, CellsOk, CellOk
<1>6. Recorded(bn)'
  BY <1>3, <1>5 DEF Recorded
<1>7. t \in TaskIds /\ t > nTask
  BY <1>1, NextRow, BoundsTyped DEF Before, SmtInv0, TypeOK, DatabaseTypeOK, TaskIds
<1>8. ASSUME NEW u \in TaskIds
      PROVE  /\ RowKeeps(u) /\ RowUndone(u) /\ RowSent(u)
             /\ RowParsed(u) \/ \E h \in 1..Height' : RowOfBlock(u, h)'
  <2>1. CASE u = t
    <3>1. RowOfBlock(u, bn)'
      BY <1>2, <1>3, <1>5, <2>1 DEF RowOfBlock, FromDistribution
    <3>2. RowKeeps(u) /\ RowUndone(u) /\ RowSent(u)
      BY <1>1, <1>2, <1>7, <2>1, RowFilled DEF Before
    <3>3. QED
      BY <1>3, <3>1, <3>2
  <2>2. CASE u # t /\ task[u].ref = 0 /\ task[u].out = x
    <3>1. task'[u] = NoRow
      BY <1>2, <2>2
    <3>2. ~ FromDistribution(u) /\ task[u].type # "Delegate"
      BY <1>3, <2>2 DEF Before, SmtInv0, RowsOk, RowOk
    <3>3. RowKeeps(u) /\ RowUndone(u)
      BY <2>2, <3>1, <3>2 DEF RowKeeps, RowUndone, Open, OnChainRow, ToUndo, NoRow
    <3>4. ~ Sent(u)
      BY <3>2, SentTx DEF Before
    <3>5. RowSent(u)
      BY <1>1, <3>1, <3>4 DEF RowSent, Sent, Of, NoRow
    <3>6. RowParsed(u)
      BY <3>1 DEF RowParsed, ParserRow, FromDistribution, NoRow
    <3>7. QED
      BY <3>3, <3>5, <3>6
  <2>3. CASE u # t /\ ~ (task[u].ref = 0 /\ task[u].out = x)
    <3>1. task'[u] = task[u]
      BY <1>2, <2>3
    <3>2. QED
      BY <1>4, <3>1, RowSame, RowSentSame
  <2>4. QED
    BY <2>1, <2>2, <2>3
<1>9. handled' => handled \/ Recorded(parsed + 1)'
  BY <1>1, <1>6
<1>10. QED
  BY <1>1, <1>4, <1>8, <1>9, QuietStep DEF Before, After, RecInv

\* A channel transaction is no delegate task's.
LEMMA ParseChannelProfitRecords ==
    ASSUME Before, ParseChannelProfit
    PROVE  After
<1> PICK x : x = NextTx
  OBVIOUS
<1> PICK bn : bn = parsed + 1
  OBVIOUS
<1>1. MayParse /\ tx[x].kind = "channel" /\ UNCHANGED <<nTask, parsed, upd, rb, recs>>
  BY DEF ParseChannelProfit, ParseUnchanged
<1>2. ASSUME NEW u \in TaskIds
      PROVE  IF task[u].type # "Absent" /\ task[u].out = x
             THEN /\ task'[u].type = task[u].type /\ task'[u].smt = task[u].smt
                  /\ task'[u].ref = task[u].ref /\ task'[u].out = task[u].out
                  /\ task'[u].from = task[u].from /\ task'[u].tx = Committed
             ELSE task'[u] = task[u]
  <2>1. task'[u] = IF task[u].type # "Absent" /\ task[u].out = NextTx
                   THEN [task[u] EXCEPT !.tx = Committed, !.bn = parsed + 1]
                   ELSE task[u]
    BY DEF ParseChannelProfit
  <2>2. task[u] \in Row
    BY DEF Before, SmtInv0, TypeOK, DatabaseTypeOK
  <2> DEFINE row == [task[u] EXCEPT !.tx = Committed, !.bn = parsed + 1]
  <2>3. /\ row.type = task[u].type /\ row.smt = task[u].smt
        /\ row.ref = task[u].ref /\ row.out = task[u].out
        /\ row.from = task[u].from /\ row.tx = Committed
    BY <2>2 DEF Row
  <2> HIDE DEF row
  <2>4. QED
    BY <2>1, <2>3 DEF row
<1>3. /\ bn \in 1..Height' /\ chain'[bn] = x /\ x \in TxIds /\ x # 0 /\ SameTx(x)
  BY <1>1, ParseTyped
<1>4. RbGoesOn /\ UpdTakesNone /\ nTask <= nTask'
  BY <1>1 DEF RbGoesOn, UpdTakesNone, Before, SmtInv0, TypeOK, DatabaseTypeOK
<1>5. Recorded(bn)'
  <2>1. tx'[x].upd = {}
    BY <1>1, <1>3 DEF SameTx, Before, RecInv, CellsOk, CellOk
  <2>2. QED
    BY <1>3, <2>1 DEF Recorded
<1>6. ASSUME NEW u \in TaskIds
      PROVE  RowKeeps(u) /\ RowUndone(u) /\ RowSent(u) /\ RowParsed(u)
  <2>1. CASE task[u].type # "Absent" /\ task[u].out = x
    <3>1. /\ task'[u].type = task[u].type /\ task'[u].smt = task[u].smt
          /\ task'[u].ref = task[u].ref /\ task'[u].out = task[u].out
          /\ task'[u].from = task[u].from /\ task'[u].tx = Committed
      BY <1>2, <2>1
    <3>2. ~ FromDistribution(u)
      <4>1. FromDistribution(u) => tx[x].by = u
        BY <1>3, <2>1 DEF Before, SmtInv0, RowsOk, RowOk
      <4>2. tx[x].by = 0
        BY <1>1, <1>3 DEF Before, SmtInv0, TxsOk, TxOk
      <4>3. QED
        BY <4>1, <4>2 DEF TaskIds
    <3>3. RowKeeps(u) /\ RowUndone(u) /\ RowSent(u)
      BY <1>1, <3>1 DEF RowKeeps, RowUndone, RowSent, Open, OnChainRow, ToUndo, Sent, Of,
         Committed, Pending
    <3>4. RowParsed(u)
      BY <3>1, <3>2 DEF RowParsed, ParserRow, FromDistribution
    <3>5. QED
      BY <3>3, <3>4
  <2>2. CASE ~ (task[u].type # "Absent" /\ task[u].out = x)
    <3>1. task'[u] = task[u]
      BY <1>2, <2>2
    <3>2. QED
      BY <1>4, <3>1, RowSame, RowSentSame
  <2>3. QED
    BY <2>1, <2>2
<1>7. handled' => handled \/ Recorded(parsed + 1)'
  BY <1>1, <1>5
<1>8. QED
  BY <1>1, <1>4, <1>6, <1>7, QuietStep DEF Before, After, RecInv

LEMMA ParserStoreBlockRecords ==
    ASSUME Before, ParserStoreBlock
    PROVE  After
<1>1. /\ handled /\ parsed' = parsed + 1 /\ ~ handled'
      /\ UNCHANGED <<task, nTask, recs, net, upd, rb>>
  BY DEF ParserStoreBlock
<1>2. TasksOk'
  <2>1. nTask <= nTask' /\ RbGoesOn /\ UpdTakesNone
    BY <1>1 DEF Before, SmtInv0, TypeOK, DatabaseTypeOK, RbGoesOn, UpdTakesNone
  <2>2. QED
    BY <1>1, <2>1, QuietTasks, RowSame, RowSentSame DEF Before, RecInv
<1>3. ParsedOk'
  <2>1. \A h : Recorded(h)' = Recorded(h)
    BY <1>1 DEF Recorded, RootAt, net
  <2>2. \A u \in TaskIds : (ParserRow(u)' => ParserRow(u)) /\ \A h : RowOfBlock(u, h)' = RowOfBlock(u, h)
    BY <1>1, <2>1 DEF ParserRow, RowOfBlock, FromDistribution, net
  <2>3. Height' = Height
    BY <1>1 DEF net, Height
  <2>4. \A h \in 1..parsed' : h \in 1..parsed \/ h = parsed + 1
    BY <1>1, NetTyped DEF Before, SmtInv0, TypeOK, DatabaseTypeOK
  <2>5. QED
    BY <1>1, <2>1, <2>2, <2>3, <2>4 DEF ParsedOk, Before, RecInv
<1>4. QED
  BY <1>2, <1>3 DEF After

LEMMA ParserRecords ==
    ASSUME Before, Parser
    PROVE  After
BY ParseOwnUpdateRecords, ParseOtherUpdateRecords, ParseNoLeafRecords, ParseChannelProfitRecords,
   ParserStoreBlockRecords DEF Parser

-----------------------------------------------------------------------------
(* The handlers, the distributor and the environment *)

LEMMA RequestRecords ==
    ASSUME Before, NEW a \in Accounts, Request(a)
    PROVE  After
<1>1. PICK v \in Versions :
        recs' = recs \cup {[acc |-> a, ver |-> v, type |-> "Default", bn |-> 0, task |-> 0]}
  BY DEF Request
<1>2. UNCHANGED <<task, nTask, parsed, upd, rb, handled>>
  BY DEF Request
<1>3. recs \subseteq recs' /\ \A r \in recs' : r \in recs \/ Placed(r)'
  BY <1>1 DEF Placed
<1>4. RbGoesOn /\ UpdTakesNone /\ nTask <= nTask'
  BY <1>2 DEF RbGoesOn, UpdTakesNone, Before, SmtInv0, TypeOK, DatabaseTypeOK
<1>5. \A u \in TaskIds : RowKeeps(u) /\ RowUndone(u) /\ RowSent(u) /\ RowParsed(u)
  BY <1>2, <1>4, RowSame, RowSentSame
<1>6. \A u \in TaskIds : DefaultOf(u) \subseteq DefaultOf(u)'
  BY <1>3 DEF DefaultOf, RecordsOf
<1>7. TasksOk'
  BY <1>3, <1>4, <1>5, <1>6, TasksStep DEF Before, RecInv
<1>8. ParsedOk'
  BY <1>2, <1>3, <1>5, ParsedKept DEF Before, RecInv, ChainRecordsStay
<1>9. QED
  BY <1>7, <1>8 DEF After

LEMMA SpendCreateTaskRecords ==
    ASSUME Before, SpendCreateTask
    PROVE  After
<1> PICK t : t = nTask + 1
  OBVIOUS
<1> DEFINE row == [NoRow EXCEPT !.type = IF tx[hnd].kind = "channel" THEN "Chain" ELSE "Normal",
                                !.smt = WriteComplete, !.tx = Pending,
                                !.own = (tx[hnd].kind = "config"), !.out = hnd,
                                !.from = "handler"]
<1>1. /\ UNCHANGED <<recs, parsed, upd, rb, handled>>
      /\ \/ nTask < MaxTasks /\ nTask' = t /\ task' = [task EXCEPT ![t] = row]
         \/ UNCHANGED <<task, nTask>>
  BY DEF SpendCreateTask
<1>2. row.type # "Delegate" /\ row.from = "handler"
  BY DEF NoRow
<1> HIDE DEF row
<1>3. RbGoesOn /\ UpdTakesNone /\ (nTask' = t => nTask <= nTask')
  BY <1>1 DEF RbGoesOn, UpdTakesNone, Before, SmtInv0, TypeOK, DatabaseTypeOK
<1>4. CASE UNCHANGED <<task, nTask>>
  BY <1>1, <1>3, <1>4, StillRecords DEF Before, After, RecInv
<1>5. CASE nTask < MaxTasks /\ nTask' = t /\ task' = [task EXCEPT ![t] = row]
  <2>1. t \in TaskIds /\ t > nTask
    BY <1>5, NextRow, BoundsTyped DEF Before, SmtInv0, TypeOK, DatabaseTypeOK, TaskIds
  <2>2. task'[t] = row /\ \A u \in TaskIds \ {t} : task'[u] = task[u]
    BY <1>5, <2>1 DEF Before, SmtInv0, TypeOK, DatabaseTypeOK
  <2>3. RowKeeps(t) /\ RowUndone(t) /\ RowSent(t)
    BY <1>1, <1>2, <2>1, <2>2, RowFilled DEF Before
  <2>4. RowParsed(t)
    BY <1>2, <2>2 DEF RowParsed, ParserRow, FromDistribution
  <2>5. \A u \in TaskIds : RowKeeps(u) /\ RowUndone(u) /\ RowSent(u) /\ RowParsed(u)
    BY <1>3, <2>2, <2>3, <2>4, RowSame, RowSentSame
  <2>6. QED
    BY <1>1, <1>3, <1>5, <2>5, QuietStep DEF Before, After, RecInv
<1>6. QED
  BY <1>1, <1>4, <1>5

\* What doUpdateDistribution does, row by row and record by record: each of the
\* new tasks gets a record.
LEMMA DistributionDoes ==
    ASSUME Before, doUpdateDistribution
    PROVE  \E k \in Nat \ {0} : \E batch \in [NeedDoDistribution -> 1..k] :
             /\ nTask' = nTask + k /\ nTask + k <= MaxTasks
             /\ \A u \in TaskIds :
                  IF u \in nTask + 1 .. nTask + k
                  THEN /\ task'[u].type = "Delegate" /\ task'[u].smt = NeedToWrite
                       /\ task'[u].tx = UnSend /\ task'[u].from = "distribution"
                  ELSE task'[u] = task[u]
             /\ recs' = (recs \ NeedDoDistribution)
                        \cup {[r EXCEPT !.task = nTask + batch[r]] : r \in NeedDoDistribution}
             /\ \A i \in 1..k : \E r \in NeedDoDistribution : batch[r] = i
<1> DEFINE new == NeedDoDistribution
           row == [NoRow EXCEPT !.type = "Delegate", !.own = TRUE,
                                !.script = tx[LiveCell].script, !.from = "distribution"]
<1>1. PICK k \in 1 .. MaxTasks - nTask : \E batch \in [new -> 1..k] :
        /\ \A i \in 1..k : Cardinality({r \in new : batch[r] = i}) \in 1..MaxCount
        /\ task' = [t \in TaskIds |-> IF t \in nTask + 1 .. nTask + k THEN row ELSE task[t]]
        /\ nTask' = nTask + k
        /\ recs' = (recs \ new) \cup {[r EXCEPT !.task = nTask + batch[r]] : r \in new}
  BY DEF doUpdateDistribution
<1>2. PICK batch \in [new -> 1..k] :
        /\ \A i \in 1..k : Cardinality({r \in new : batch[r] = i}) \in 1..MaxCount
        /\ task' = [t \in TaskIds |-> IF t \in nTask + 1 .. nTask + k THEN row ELSE task[t]]
        /\ nTask' = nTask + k
        /\ recs' = (recs \ new) \cup {[r EXCEPT !.task = nTask + batch[r]] : r \in new}
  BY <1>1
<1>3. row.type = "Delegate" /\ row.smt = NeedToWrite /\ row.tx = UnSend /\ row.from = "distribution"
  BY DEF NoRow, NeedToWrite, UnSend
<1> HIDE DEF row, new
<1>4. ASSUME NEW i \in 1..k PROVE \E r \in new : batch[r] = i
  <2>1. {r \in new : batch[r] = i} # {}
    <3>1. Cardinality({}) = 0
      BY FS_EmptySet
    <3>2. Cardinality({r \in new : batch[r] = i}) # 0
      BY <1>2, BoundsTyped
    <3>3. QED
      BY <3>1, <3>2
  <2>2. QED
    BY <2>1
<1>5. k \in Nat \ {0} /\ nTask + k <= MaxTasks
  BY NextRow, BoundsTyped DEF Before
<1>6. \A u \in TaskIds :
        IF u \in nTask + 1 .. nTask + k
        THEN /\ task'[u].type = "Delegate" /\ task'[u].smt = NeedToWrite
             /\ task'[u].tx = UnSend /\ task'[u].from = "distribution"
        ELSE task'[u] = task[u]
  BY <1>2, <1>3
<1>7. QED
  BY <1>2, <1>4, <1>5, <1>6 DEF new

\* The distributor: the new tasks get the waiting records.
LEMMA DistributionRecords ==
    ASSUME Before, doUpdateDistribution
    PROVE  After
<1> DEFINE new == NeedDoDistribution
<1>1. UNCHANGED <<parsed, upd, rb, handled>>
  BY DEF doUpdateDistribution
<1> DEFINE Deals(k, batch) ==
             /\ nTask' = nTask + k /\ nTask + k <= MaxTasks
             /\ \A u \in TaskIds :
                  IF u \in nTask + 1 .. nTask + k
                  THEN /\ task'[u].type = "Delegate" /\ task'[u].smt = NeedToWrite
                       /\ task'[u].tx = UnSend /\ task'[u].from = "distribution"
                  ELSE task'[u] = task[u]
             /\ recs' = (recs \ new) \cup {[r EXCEPT !.task = nTask + batch[r]] : r \in new}
             /\ \A i \in 1..k : \E r \in new : batch[r] = i
<1>2. PICK k \in Nat \ {0} : \E batch \in [new -> 1..k] : Deals(k, batch)
  BY DistributionDoes
<1>3. PICK batch \in [new -> 1..k] : Deals(k, batch)
  BY <1>2
<1>4. nTask \in Nat /\ nTask \in TaskIds /\ nTask <= nTask'
  BY <1>3, BoundsTyped DEF Before, SmtInv0, TypeOK, DatabaseTypeOK, TaskIds
<1>5. \A r \in new : r \in recs /\ r.task = 0 /\ r.type = "Default"
  BY DEF NeedDoDistribution, RecordsOf, Before, RecInv, TasksOk, RecordsPlaced, Placed
<1>6. ASSUME NEW r \in new
      PROVE  \E q \in recs' : /\ q.task = nTask + batch[r] /\ q.type = "Default"
  <2> DEFINE q == [r EXCEPT !.task = nTask + batch[r]]
  <2>1. q \in recs'
    BY <1>3
  <2>2. q.task = nTask + batch[r] /\ q.type = "Default"
    BY <1>5, RecordTyped DEF Before, Record
  <2>3. QED
    BY <2>1, <2>2
<1>7. ASSUME NEW r \in recs'
      PROVE  (r \in recs /\ r \notin new)
             \/ (r.task \in nTask + 1 .. nTask + k /\ r.type = "Default")
  <2>1. CASE r \in recs \ new
    BY <2>1
  <2>2. CASE r \notin recs \ new
    <3>1. PICK q \in new : r = [q EXCEPT !.task = nTask + batch[q]]
      BY <1>3, <2>2
    <3>2. r.task = nTask + batch[q] /\ r.type = "Default"
      BY <1>5, <3>1, RecordTyped DEF Before, Record
    <3>3. QED
      BY <1>3, <1>4, <3>2
  <2>3. QED
    BY <2>1, <2>2
<1>8. ASSUME NEW u \in TaskIds, u \in nTask + 1 .. nTask + k
      PROVE  /\ task[u] = NoRow /\ u > nTask /\ Open(u)' /\ ~ Sent(u)'
             /\ DefaultOf(u)' # {} /\ RowUndone(u) /\ RowParsed(u)
  <2>1. u > nTask /\ u - nTask \in 1..k
    BY <1>3, <1>4, <1>8
  <2>2. task[u] = NoRow
    BY <2>1, NextRow DEF Before
  <2>3. ~ Sent(u)
    BY <2>2, SentTx DEF Before, NoRow
  <2>4. Open(u)' /\ ~ Sent(u)'
    BY <1>1, <1>3, <1>8, <2>3 DEF Open, Sent, Of, NeedToWrite, RollbackComplete, WriteComplete
  <2>5. DefaultOf(u)' # {}
    <3>1. PICK r \in new : batch[r] = u - nTask
      BY <1>3, <2>1
    <3>2. nTask + batch[r] = u
      BY <1>4, <2>1, <3>1
    <3>3. QED
      BY <1>6, <3>2 DEF DefaultOf, RecordsOf
  <2>6. RowUndone(u)
    BY <1>4, <2>1 DEF RowUndone
  <2>7. RowParsed(u)
    BY <1>3, <1>8 DEF RowParsed, ParserRow
  <2>8. QED
    BY <2>1, <2>2, <2>4, <2>5, <2>6, <2>7
<1>9. RbGoesOn /\ UpdTakesNone
  BY <1>1 DEF RbGoesOn, UpdTakesNone
<1>10. ASSUME NEW u \in TaskIds, u \notin nTask + 1 .. nTask + k
      PROVE  /\ RowKeeps(u) /\ RowUndone(u) /\ RowSent(u) /\ RowParsed(u)
             /\ DefaultOf(u) \subseteq DefaultOf(u)'
  <2>1. task'[u] = task[u]
    BY <1>3, <1>10
  <2>2. \A r \in DefaultOf(u) : r \in recs \ new
    BY <1>5 DEF DefaultOf, RecordsOf, TaskIds
  <2>3. DefaultOf(u) \subseteq DefaultOf(u)'
    BY <1>3, <2>2 DEF DefaultOf, RecordsOf
  <2>4. QED
    BY <1>9, <2>1, <2>3, RowSame, RowSentSame
<1>11. ASSUME NEW r \in recs'
       PROVE  Placed(r)' \/ (r \in recs /\ (r.task \in TaskIds => RowKeeps(r.task)))
  <2>1. CASE r.task \in nTask + 1 .. nTask + k /\ r.type = "Default"
    <3>1. r.task \in TaskIds
      BY <1>3, <1>4, <2>1, BoundsTyped DEF TaskIds
    <3>2. QED
      BY <1>4, <1>8, <2>1, <3>1 DEF Placed
  <2>2. CASE r \in recs /\ r \notin new
    <3>1. CASE r.task \in TaskIds /\ r.task \in nTask + 1 .. nTask + k
      <4>1. task[r.task] = NoRow
        BY <1>8, <3>1
      <4>2. r.task # 0 /\ Placed(r)
        BY <2>2, <3>1 DEF Before, RecInv, TasksOk, RecordsPlaced, TaskIds
      <4>3. r.type # "Default" /\ r.type # "Chain"
        BY <4>1, <4>2 DEF Placed, Open, OnChainRow, NoRow
      <4>4. QED
        BY <4>2, <4>3 DEF Placed
    <3>2. CASE ~ (r.task \in TaskIds /\ r.task \in nTask + 1 .. nTask + k)
      BY <1>10, <2>2, <3>2
    <3>3. QED
      BY <3>1, <3>2
  <2>3. QED
    BY <1>7, <2>1, <2>2
<1>12. \A u \in TaskIds : /\ \/ Open(u)' => DefaultOf(u)' # {}
                             \/ RowKeeps(u) /\ DefaultOf(u) \subseteq DefaultOf(u)'
                          /\ \/ RowAsks(u)
                             \/ RowSent(u) /\ DefaultOf(u) \subseteq DefaultOf(u)'
                          /\ RowUndone(u) /\ RowParsed(u)
  BY <1>8, <1>10 DEF RowAsks
<1>13. TasksOk'
  BY <1>4, <1>9, <1>11, <1>12, TasksStep DEF Before, RecInv
<1>14. ChainRecordsStay
  BY <1>3, <1>5 DEF ChainRecordsStay
<1>15. ParsedOk'
  BY <1>1, <1>12, <1>14, ParsedKept DEF Before, RecInv
<1>16. QED
  BY <1>13, <1>15 DEF After

\* The node, the syncer, crashes, and a handler that sends a transaction.
LEMMA EnvironmentRecords ==
    ASSUME Before, \/ Environment
                   \/ \E kind \in Kinds, script \in Scripts : SpendSend(kind, script)
                   \/ UNCHANGED vars
    PROVE  After
<1>1. CASE UNCHANGED <<task, nTask, recs, parsed, handled, rb, upd>>
  <2>1. RbGoesOn /\ UpdTakesNone
    BY <1>1 DEF RbGoesOn, UpdTakesNone
  <2>2. QED
    BY <1>1, <2>1, StillRecords DEF Before, After, RecInv
<1>2. CASE Crash
  <2>1. /\ UNCHANGED <<task, nTask, recs, parsed>> /\ handled' = FALSE
        /\ rb'.pc = "idle" /\ upd'.pc = "idle"
    BY <1>2 DEF Crash, db, WorkIdle, UpdIdle
  <2>2. RbGoesOn /\ UpdTakesNone
    BY <2>1 DEF RbGoesOn, UpdTakesNone
  <2>3. QED
    BY <2>1, <2>2, StillRecords DEF Before, After, RecInv
<1>3. CASE \E kind \in Kinds, script \in Scripts : SpendSend(kind, script)
  BY <1>1, <1>3 DEF SpendSend, db
<1>4. CASE UNCHANGED vars
  BY <1>1, <1>4 DEF vars
<1>5. CASE Environment /\ ~ Crash
  BY <1>1, <1>5 DEF Environment, CommitTx, RejectTx, ForeignCommit, SyncInfo, LockExpire,
     EnvUnchanged, db
<1>6. QED
  BY <1>1, <1>2, <1>3, <1>4, <1>5

-----------------------------------------------------------------------------
(* The theorems *)

LEMMA InitRecords ==
    ASSUME Init
    PROVE  RecInv
<1>1. /\ task[1].type = "Chain" /\ task[1].smt = WriteComplete /\ task[1].out = 1
      /\ task[1].from = "parser" /\ 1 \in TaskIds
      /\ \A t \in TaskIds \ {1} : task[t] = NoRow
  BY BoundsTyped DEF Init, NoRow, TaskIds
<1>2. /\ tx[1].kind = "config" /\ tx[1].upd = {} /\ 1 \in TxIds
      /\ \A x \in TxIds \ {1} : tx[x].kind = "absent" /\ tx[x].upd = {}
  BY BoundsTyped DEF Init, NoTx, TxIds
<1>3. /\ recs = {} /\ parsed = 1 /\ ~ handled /\ rb.pc = "idle" /\ upd.pc = "idle"
      /\ Height = 1 /\ chain[1] = 1
  BY DEF Init, WorkIdle, UpdIdle, Height
<1>4. TasksOk
  <2>1. RecordsPlaced
    BY <1>3 DEF RecordsPlaced
  <2>2. \A t \in TaskIds : ~ Open(t) /\ ~ Sent(t)
    BY <1>1, <1>3 DEF Open, Sent, Of, NoRow
  <2>3. QED
    BY <1>3, <2>1, <2>2 DEF TasksOk, OpenHaveRecords, RecordsMatch, RbTask
<1>5. CellsOk
  BY <1>2, <1>3 DEF CellsOk, CellOk
<1>6. ParsedOk
  <2>1. Recorded(1)
    BY <1>2, <1>3 DEF Recorded
  <2>2. RowOfBlock(1, 1)
    BY <1>1, <1>2, <1>3 DEF RowOfBlock, FromDistribution
  <2>3. \A t \in TaskIds \ {1} : ~ ParserRow(t)
    BY <1>1 DEF ParserRow, FromDistribution, NoRow
  <2>4. QED
    BY <1>3, <2>1, <2>2, <2>3 DEF ParsedOk
<1>7. QED
  BY <1>4, <1>5, <1>6 DEF RecInv

LEMMA NextRecords ==
    ASSUME SmtInv0, RecInv, [Next]_vars
    PROVE  RecInv'
<1>1. TypeOK'
  BY NextTyped DEF SmtInv0
<1>2. NetGrows /\ CellsOk'
  BY NextCells DEF RecInv
<1>3. Before
  BY <1>1, <1>2 DEF Before
<1>4. After
  <2>1. ASSUME Handlers PROVE After
    BY <1>3, <2>1, RequestRecords, SpendCreateTaskRecords, EnvironmentRecords DEF Handlers
  <2>2. QED
    BY <1>3, <2>1, DistributionRecords, UpdaterRecords, CheckerRecords, RollbackerRecords,
       ConfirmerRecords, ParserRecords, EnvironmentRecords DEF Next
<1>5. QED
  BY <1>2, <1>4 DEF After, RecInv

\* The pipeline keeps the invariant of its records whatever is marked of what it
\* sends, and whoever else changes the chain.
LEMMA InvariantOfRecords == Spec => [](SmtInv0 /\ RecInv)
<1>1. Init => SmtInv0 /\ RecInv
  BY InitSound, InitRecords DEF SmtInv
<1>2. SmtInv0 /\ RecInv /\ [Next]_vars => (SmtInv0 /\ RecInv)'
  BY NextSound, NextRecords
<1>3. QED
  BY <1>1, <1>2, PTL DEF Spec

\* A record waits only in a task that is still worked on: neither the statements
\* that select rows by task id alone nor the parser end a task over the records
\* it still has (dao/t_task_info.go:126, 133, 157, 183).
THEOREM RecordsAreKept == Spec => []NoRecordForgotten
<1>1. SmtInv0 /\ RecInv => NoRecordForgotten
  <2> SUFFICES ASSUME SmtInv0, RecInv, NEW r \in recs, r.type = "Default", r.task # 0
               PROVE  ~ Ended(r.task)
    BY DEF NoRecordForgotten
  <2>1. Open(r.task)
    BY DEF RecInv, TasksOk, RecordsPlaced, Placed
  <2>2. QED
    BY <2>1 DEF Open, Ended
<1>2. QED
  BY <1>1, InvariantOfRecords, PTL

\* A delegate task in the updater's list has a record to send: the records are
\* closed only with the task, also by a rollback that races with the updater and
\* by a task that is retried (txtool.go:132, do_task.go:102).
THEOREM WorkersHaveRecords == Spec => []WorkHasRecords
<1>1. SmtInv0 /\ RecInv => WorkHasRecords
  <2> SUFFICES ASSUME SmtInv0, RecInv, NEW t \in GetNeedToDoTaskList PROVE DefaultOf(t) # {}
    BY DEF WorkHasRecords
  <2>1. t \in TaskIds /\ Open(t)
    BY DEF GetNeedToDoTaskList, Open, At, NeedToWrite, Writing, RollbackComplete
  <2>2. QED
    BY <2>1 DEF RecInv, TasksOk, OpenHaveRecords
<1>2. QED
  BY <1>1, InvariantOfRecords, PTL

\* Every change in a block the parser has stored has its chain record, also when
\* the parser crashed before it stored the block and when the update was sent by
\* a task that lost its marks (das_action_update_sub_account.go:66,
\* dao/t_task_info.go:157).
THEOREM BlocksAreRecorded == Spec => []ParsedIsRecorded
<1>1. SmtInv0 /\ RecInv => ParsedIsRecorded
  BY DEF RecInv, ParsedOk, Recorded, ParsedIsRecorded
<1>2. QED
  BY <1>1, InvariantOfRecords, PTL

=============================================================================
