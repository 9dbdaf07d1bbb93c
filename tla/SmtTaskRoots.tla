----------------------------- MODULE SmtTaskRoots -----------------------------
(* Proofs that the SMT server follows the chain, when what was sent is marked  *)
(* and nobody but the service changes the parent's accounts (MaxForeign = 0).  *)
(* Handlers may send whatever they like, and the process may crash.            *)
EXTENDS SmtTaskRecords

-----------------------------------------------------------------------------
(* The inductive invariant *)

Root == RootAt(Height)

\* A task of ours that the parser found on chain, to be confirmed; and one whose
\* leaves are on the SMT server, or on chain, and not both for certain.
Taken(t) == FromDistribution(t) /\ Of(t, "Chain", NeedToWrite, Committed)
Busy(t) == InFlight(t) \/ Taken(t)
OneBusy == \A t, u \in TaskIds : Busy(t) /\ Busy(u) => t = u
ClearOfBusy == upd.pc \in {"cell", "lock", "root"} => \A t \in TaskIds : ~ Busy(t)

\* Accounts of no busy task have the leaf of the live cell.
HasRecord(t, a) == \E r \in RecordsOf(t) : r.acc = a /\ r.type # "Closed"
AtWork(a) == \E t \in TaskIds : Busy(t) /\ HasRecord(t, a)
RestFollows == \A a \in Accounts : AtWork(a) \/ smt[a] = Root[a]

\* The distributor's rows and the records in tasks.
OurRow(t) ==
    FromDistribution(t) =>
      \/ task[t].type = "Delegate" /\ task[t].tx # Committed
      \/ task[t].type = "Closed"
      \/ /\ task[t].type = "Chain" /\ task[t].tx = Committed
         /\ task[t].smt \in {NeedToWrite, WriteComplete}
Ours == /\ \A t \in TaskIds : OurRow(t)
        /\ \A r \in recs : r.task # 0 => FromDistribution(r.task)
        /\ \A t \in TaskIds : Taken(t) => ChainOf(t) # {}

\* A transaction leaves the accounts alone that it does not change, and only
\* those of tasks change any; so the chain since a block without any has its
\* root, and what the syncer has not seen yet is of the busy task.
TxLeaf(x) ==
    /\ tx[x].ref # 0 =>
         /\ tx[x].ref <= nTx
         /\ \A a \in Accounts \ tx[x].upd : tx[x].leaf[a] = tx[tx[x].ref].leaf[a]
    /\ tx[x].by = 0 => tx[x].upd = {} /\ tx[x].kind # "update"
TxLeaves == \A x \in TxIds : x <= nTx => TxLeaf(x)
LeavesStay == \A g \in 1..Height :
                (\A h \in g + 1 .. Height : tx[chain[h]].by = 0) => RootAt(g) = Root
Unsynced == \A h \in synced + 1 .. Height : tx[chain[h]].by = 0 \/ Busy(tx[chain[h]].by)

\* What the workers hold of one of our tasks are leaves of the live cell, for
\* every account the task has a record of; of another task they hold none.
Restores(w, rs) ==
    \A a \in Accounts : w.val[a] = Root[a] \/ (w.val[a] = -1 /\ a \notin AccountsOf(rs))
RbWork == rb.pc # "idle" =>
            IF FromDistribution(rb.t)
            THEN IF rb.pc = "finish" THEN smt = Root ELSE Restores(rb, DefaultOf(rb.t))
            ELSE rb.val = NoVal
CfTask == cf.pc # "idle" =>
            /\ cf.t <= nTask
            /\ FromDistribution(cf.t) => Taken(cf.t) /\ task[cf.t].bn <= synced
CfWork == cf.pc # "idle" =>
            IF FromDistribution(cf.t)
            THEN IF cf.pc = "finish" THEN smt = Root ELSE Restores(cf, ChainOf(cf.t))
            ELSE cf.val = NoVal

BusyInv == OneBusy /\ ClearOfBusy
NetInv == TxLeaves /\ LeavesStay /\ Unsynced
WorkInv == RestFollows /\ RbWork /\ CfTask /\ CfWork
RootInv == Ours /\ BusyInv /\ NetInv /\ WorkInv

-----------------------------------------------------------------------------
(* How rows and records move *)

RootBefore == /\ SendMarked /\ MaxForeign = 0
              /\ SmtInv /\ RecInv /\ LockMutex /\ RootInv
              /\ SmtInv' /\ RecInv' /\ LockMutex' /\ NetGrows

SameRowAs(u) == /\ task'[u].type = task[u].type /\ task'[u].smt = task[u].smt
                /\ task'[u].tx = task[u].tx /\ task'[u].from = task[u].from
                /\ task'[u].bn = task[u].bn
Starts(u) == /\ UpdStartWrite /\ u = upd.t
             /\ Of(u, "Delegate", NeedToWrite, UnSend) /\ Of(u, "Delegate", Writing, UnSend)'
Drops(u) == ~ Busy(u) /\ ~ Busy(u)' /\ task'[u].type # "Chain" /\ OurRow(u)'
Flies(u) == /\ InFlight(u) /\ InFlight(u)' /\ task[u].smt # NeedToRollback
            /\ task'[u].tx # Committed
Undone(u) == /\ RbFinish /\ u = rb.t
             /\ InFlight(u) /\ task[u].smt = NeedToRollback
             /\ task'[u].type = "Delegate" /\ task'[u].tx # Committed /\ ~ InFlight(u)'
Takes(u) == Of(u, "Delegate", WriteComplete, Pending) /\ Taken(u)'
Confirmed(u) == /\ CfFinish /\ u = cf.t
                /\ Taken(u) /\ Of(u, "Chain", WriteComplete, Committed)'
RowMoves(u) ==
    \/ SameRowAs(u)
    \/ ~ FromDistribution(u) /\ ~ FromDistribution(u)'
    \/ u > nTask /\ FromDistribution(u)' /\ Of(u, "Delegate", NeedToWrite, UnSend)'
    \/ /\ FromDistribution(u) /\ FromDistribution(u)'
       /\ Starts(u) \/ Drops(u) \/ Flies(u) \/ Undone(u) \/ Takes(u) \/ Confirmed(u)

RecordMoves(q) ==
    \/ q \in recs \/ q.task = 0
    \/ q.type = "Closed" /\ \E r \in recs : r.task = q.task
    \/ /\ q.task \in TaskIds /\ q.task > nTask /\ FromDistribution(q.task)'
       /\ q.type = "Default"
    \/ /\ q.task \in TaskIds /\ FromDistribution(q.task)
       /\ Of(q.task, "Delegate", WriteComplete, Pending) /\ q.type = "Chain"
RecordsHeld == \A u \in TaskIds : Busy(u) /\ Busy(u)' =>
                 \A a \in Accounts : HasRecord(u, a) => HasRecord(u, a)'
TakenGet == \A u \in TaskIds : Taken(u)' => Taken(u) \/ ChainOf(u)' # {}

Moves == /\ \A u \in TaskIds : RowMoves(u)
         /\ \A q \in recs' : RecordMoves(q)
         /\ RecordsHeld /\ ChainRecordsStay /\ TakenGet

\* A step that leaves the records alone.
LEMMA QuietMoves ==
    ASSUME recs' = recs, \A u \in TaskIds : RowMoves(u), \A u \in TaskIds : Taken(u)' => Taken(u)
    PROVE  Moves
<1>1. \A q \in recs' : RecordMoves(q)
  BY DEF RecordMoves
<1>2. RecordsHeld /\ ChainRecordsStay /\ TakenGet
  BY DEF RecordsHeld, HasRecord, RecordsOf, ChainRecordsStay, TakenGet
<1>3. QED
  BY <1>1, <1>2 DEF Moves

LEMMA RowSameMoves ==
    ASSUME NEW u \in TaskIds, task'[u] = task[u]
    PROVE  RowMoves(u) /\ (Taken(u)' => Taken(u)) /\ Busy(u)' = Busy(u)
BY DEF RowMoves, SameRowAs, Taken, FromDistribution, Of, Busy, InFlight, At

LEMMA StillMoves ==
    ASSUME UNCHANGED <<task, recs>>
    PROVE  Moves
BY QuietMoves, RowSameMoves

\* A statement that changes row t.
LEMMA MarkMoves ==
    ASSUME recs' = recs, NEW t \in TaskIds, \A u \in TaskIds \ {t} : task'[u] = task[u],
           RowMoves(t), Taken(t)' => Taken(t)
    PROVE  Moves
BY QuietMoves, RowSameMoves

\* A statement that closes records of task t.
LEMMA CloseMoves ==
    ASSUME recs \subseteq Record, NEW t \in TaskIds, NEW rs \in SUBSET RecordsOf(t),
           recs' = CloseRecords(t, rs), \A r \in rs : r.type # "Chain",
           \A u \in TaskIds \ {t} : task'[u] = task[u], RowMoves(t), Taken(t)' => Taken(t),
           ~ (Busy(t) /\ Busy(t)')
    PROVE  Moves
<1>1. /\ \A r \in recs : r.type # "Closed" /\ r \notin rs => r \in recs'
      /\ \A r \in recs' : r \in recs \/ (r.type = "Closed" /\ \E q \in recs : q.task = r.task)
  <2>1. \A r \in rs : r \in recs /\ r.task = t
    BY DEF RecordsOf
  <2>2. \A r \in rs : [r EXCEPT !.type = "Closed"].type = "Closed"
                     /\ [r EXCEPT !.type = "Closed"].task = r.task
    BY <2>1 DEF Record
  <2>3. QED
    BY <2>1, <2>2 DEF CloseRecords
<1>2. \A q \in recs' : RecordMoves(q)
  BY <1>1 DEF RecordMoves
<1>3. RecordsHeld
  <2>1. ASSUME NEW u \in TaskIds \ {t}, NEW a, HasRecord(u, a) PROVE HasRecord(u, a)'
    <3>1. PICK r \in RecordsOf(u) : r.acc = a /\ r.type # "Closed"
      BY <2>1 DEF HasRecord
    <3>2. r \in recs'
      BY <1>1, <3>1 DEF RecordsOf
    <3>3. QED
      BY <3>1, <3>2 DEF HasRecord, RecordsOf
  <2>2. QED
    BY <2>1 DEF RecordsHeld
<1>4. ChainRecordsStay
  BY <1>1 DEF ChainRecordsStay
<1>5. \A u \in TaskIds : RowMoves(u) /\ (Taken(u)' => Taken(u))
  BY RowSameMoves
<1>6. QED
  BY <1>2, <1>3, <1>4, <1>5 DEF Moves, TakenGet

LEMMA RootBeforeHas ==
    ASSUME RootBefore
    PROVE  /\ Before /\ SmtInv0 /\ TypeOK /\ TypeOK' /\ recs \subseteq Record
           /\ \A t \in TaskIds : RowOk(t) /\ RowOk(t)' /\ OurRow(t)
           /\ \A t \in TaskIds : task[t].type = "Delegate" => FromDistribution(t)
BY DEF RootBefore, Before, SmtInv, SmtInv0, TypeOK, DatabaseTypeOK, RowsOk, RowOk, RootInv, Ours

-----------------------------------------------------------------------------
(* The updater and the checker *)

LEMMA UpdMarkMoves ==
    ASSUME RootBefore,
           \/ \E t \in TaskIds : UpdRollbackWriting(t)
           \/ UpdMarkPending
    PROVE  Moves
<1>1. recs' = recs
  BY DEF UpdRollbackWriting, UpdMarkPending
<1>2. PICK t \in TaskIds : /\ Of(t, "Delegate", Writing, UnSend)
                           /\ \/ task' = [task EXCEPT ![t].smt = NeedToRollback]
                              \/ task' = [task EXCEPT ![t].smt = WriteComplete, ![t].tx = Pending]
                              \/ task' = task
  <2>1. CASE UpdMarkPending
    <3>1. upd.t \in TaskIds /\ Of(upd.t, "Delegate", Writing, UnSend)
      BY <2>1 DEF UpdMarkPending, RootBefore, SmtInv, SmtInv0, UpdTask, StepsOK
    <3>2. QED
      BY <2>1, <3>1 DEF UpdMarkPending
  <2>2. ASSUME NEW t \in TaskIds, UpdRollbackWriting(t)
        PROVE  /\ Of(t, "Delegate", Writing, UnSend)
               /\ task' = [task EXCEPT ![t].smt = NeedToRollback]
    BY <2>2 DEF UpdRollbackWriting, HeadTask, GetNeedToDoTaskList, At, Of
  <2>3. QED
    BY <2>1, <2>2
<1>3. FromDistribution(t)
  BY <1>2, RootBeforeHas DEF Of
<1>4. CASE task' = task
  BY <1>1, <1>4, StillMoves
<1>5. CASE task' # task
  <2>1. \/ Marks(t, "Delegate", NeedToRollback, UnSend)
        \/ Marks(t, "Delegate", WriteComplete, Pending)
    <3>1. TypeOK /\ task[t].type = "Delegate" /\ task[t].tx = UnSend
      BY <1>2, RootBeforeHas DEF Of
    <3>2. CASE task' = [task EXCEPT ![t].smt = NeedToRollback]
      BY <3>1, <3>2, RowMarked
    <3>3. CASE task' = [task EXCEPT ![t].smt = WriteComplete, ![t].tx = Pending]
      BY <3>1, <3>3, RowMarked
    <3>4. QED
      BY <1>2, <1>5, <3>2, <3>3
  <2>2. RowMoves(t) /\ ~ Taken(t)'
    BY <1>2, <1>3, <2>1 DEF RowMoves, Flies, Marks, Of, FromDistribution, InFlight, At, Taken,
       Writing, UnSend, NeedToRollback, WriteComplete, Pending, Committed
  <2>3. \A u \in TaskIds \ {t} : task'[u] = task[u]
    BY <2>1 DEF Marks
  <2>4. QED
    BY <1>1, <2>2, <2>3, MarkMoves
<1>6. QED
  BY <1>4, <1>5

LEMMA UpdStartWriteMoves ==
    ASSUME RootBefore, UpdStartWrite
    PROVE  Moves
<1> PICK t : t = upd.t
  OBVIOUS
<1>1. /\ t \in TaskIds /\ Of(t, "Delegate", NeedToWrite, UnSend)
      /\ task' = [task EXCEPT ![t].smt = Writing] /\ recs' = recs
  BY DEF UpdStartWrite, RootBefore, SmtInv, SmtInv0, UpdTask, StepsOK
<1>2. Marks(t, "Delegate", Writing, UnSend) /\ FromDistribution(t)
  BY <1>1, RowMarked, RootBeforeHas DEF Of
<1>3. RowMoves(t) /\ ~ Taken(t)'
  BY <1>1, <1>2 DEF RowMoves, Starts, Marks, Of, FromDistribution, Taken
<1>4. \A u \in TaskIds \ {t} : task'[u] = task[u]
  BY <1>2 DEF Marks
<1>5. QED
  BY <1>1, <1>3, <1>4, MarkMoves

LEMMA UpdBuildMoves ==
    ASSUME RootBefore, UpdBuild
    PROVE  Moves
<1> PICK t : t = upd.t
  OBVIOUS
<1>1. /\ task' = [task EXCEPT ![t].ref = chain[upd.h], ![t].out = nTx + 1] /\ recs' = recs
      /\ t \in TaskIds
  BY DEF UpdBuild, RootBefore, SmtInv, SmtInv0, StepsOK
<1>2. task \in [TaskIds -> Row]
  BY RootBeforeHas DEF TypeOK, DatabaseTypeOK
<1>3. SameRowAs(t) /\ \A u \in TaskIds \ {t} : task'[u] = task[u]
  BY <1>1, <1>2 DEF SameRowAs, Row
<1>4. RowMoves(t) /\ (Taken(t)' => Taken(t))
  BY <1>3 DEF RowMoves, SameRowAs, Taken, Of, FromDistribution
<1>5. QED
  BY <1>1, <1>3, <1>4, MarkMoves

LEMMA UpdCloseMoves ==
    ASSUME RootBefore, UpdDiffScript \/ \E t \in TaskIds : UpdCloseStale(t)
    PROVE  Moves
<1> DEFINE Closes(t, rs) == /\ Of(t, "Delegate", NeedToWrite, UnSend)
                           /\ rs \subseteq DefaultOf(t) /\ recs' = CloseRecords(t, rs)
                           /\ \/ task' = [task EXCEPT ![t].type = "Closed"]
                              \/ task' = [task EXCEPT ![t].smt = RollbackComplete]
                              \/ task' = task
<1>0. PICK t \in TaskIds : \E rs : Closes(t, rs)
  <2>1. ASSUME UpdDiffScript PROVE upd.t \in TaskIds /\ Closes(upd.t, DefaultOf(upd.t))
    BY <2>1 DEF UpdDiffScript, RootBefore, SmtInv, SmtInv0, UpdTask, StepsOK
  <2>2. ASSUME NEW t \in TaskIds, UpdCloseStale(t)
        PROVE  Closes(t, {r \in DefaultOf(t) : Stale(r)})
    BY <2>2 DEF UpdCloseStale, HeadTask, GetNeedToDoTaskList, At, Of, NeedToWrite, Writing
  <2>3. QED
    BY <2>1, <2>2
<1>1. PICK rs : Closes(t, rs)
  BY <1>0
<1>2. \/ Marks(t, "Closed", NeedToWrite, UnSend)
      \/ Marks(t, "Delegate", RollbackComplete, UnSend)
      \/ Marks(t, "Delegate", NeedToWrite, UnSend)
  BY <1>1, RowMarked, RootBeforeHas DEF Of
<1>3. FromDistribution(t) /\ ~ Busy(t)
  BY <1>1, RootBeforeHas DEF Of, Busy, Taken, InFlight, At, NeedToWrite, Writing, WriteComplete,
     NeedToRollback
<1>4. ~ Taken(t)' /\ RowMoves(t)
  <2>1. FromDistribution(t)'
    BY <1>2, <1>3 DEF Marks, FromDistribution
  <2>2. CASE Marks(t, "Delegate", NeedToWrite, UnSend)
    BY <1>1, <2>2 DEF Marks, Of, RowMoves, SameRowAs, Taken
  <2>3. CASE Marks(t, "Closed", NeedToWrite, UnSend) \/ Marks(t, "Delegate", RollbackComplete, UnSend)
    <3>1. task'[t].type # "Chain" /\ OurRow(t)'
      BY <2>3 DEF Marks, OurRow, UnSend, Committed
    <3>2. ~ Busy(t)'
      BY <2>3 DEF Marks, Busy, Taken, InFlight, At, Of, NeedToWrite, Writing, WriteComplete,
         NeedToRollback, RollbackComplete
    <3>3. QED
      BY <1>3, <2>1, <3>1, <3>2 DEF RowMoves, Drops, Busy
  <2>4. QED
    BY <1>2, <2>2, <2>3
<1>5. \A u \in TaskIds \ {t} : task'[u] = task[u]
  BY <1>2 DEF Marks
<1>6. rs \in SUBSET RecordsOf(t) /\ \A r \in rs : r.type # "Chain"
  BY <1>1 DEF DefaultOf
<1>7. QED
  BY <1>1, <1>3, <1>4, <1>5, <1>6, CloseMoves, RootBeforeHas

LEMMA UpdaterMoves ==
    ASSUME RootBefore, Updater \/ UpdFail
    PROVE  Moves
<1>1. ASSUME \/ \E t \in TaskIds : UpdPassNonce(t)
             \/ UpdCheckInProgress \/ UpdCheckLiveCell \/ UpdLock \/ UpdWriteSmt \/ UpdSend \/ UpdFail
      PROVE  Moves
  BY <1>1, StillMoves DEF UpdPassNonce, UpdCheckInProgress, UpdCheckLiveCell, UpdLock, UpdWriteSmt,
     UpdSend, UpdFail
<1>2. QED
  BY <1>1, UpdMarkMoves, UpdStartWriteMoves, UpdBuildMoves, UpdCloseMoves DEF Updater

LEMMA CheckerMoves ==
    ASSUME RootBefore, doCheckTx
    PROVE  Moves
<1>1. PICK lost \in SUBSET GetNeedDoCheckTxTaskList :
        task' = [t \in TaskIds |->
                   IF t \in lost THEN [task[t] EXCEPT !.smt = NeedToRollback, !.tx = Rejected]
                   ELSE task[t]]
  BY DEF doCheckTx
<1>2. ASSUME NEW u \in TaskIds, u \in lost PROVE RowMoves(u) /\ ~ Taken(u)'
  <2>1. task[u].type # "Absent" /\ task[u].smt = WriteComplete /\ task[u].tx = Pending
    BY <1>1, <1>2 DEF GetNeedDoCheckTxTaskList, At
  <2>2. /\ task'[u].type = task[u].type /\ task'[u].smt = NeedToRollback
        /\ task'[u].tx = Rejected /\ task'[u].from = task[u].from
    <3>1. task[u] \in Row
      BY RootBeforeHas DEF TypeOK, DatabaseTypeOK
    <3>2. task'[u] = [task[u] EXCEPT !.smt = NeedToRollback, !.tx = Rejected]
      BY <1>1, <1>2
    <3>3. QED
      BY <3>1, <3>2 DEF Row
  <2>3. ~ Taken(u)'
    BY <2>2 DEF Taken, Of, NeedToRollback, NeedToWrite
  <2>4. CASE ~ FromDistribution(u)
    BY <2>2, <2>3, <2>4 DEF RowMoves, FromDistribution
  <2>5. CASE FromDistribution(u)
    <3>1. task[u].type = "Delegate"
      BY <2>1, <2>5, RootBeforeHas DEF RowOk
    <3>2. RowMoves(u)
      BY <2>1, <2>2, <2>5, <3>1 DEF RowMoves, Flies, FromDistribution, InFlight, At, WriteComplete,
         NeedToRollback, Rejected, Committed
    <3>3. QED
      BY <2>3, <3>2
  <2>6. QED
    BY <2>4, <2>5
<1>3. ASSUME NEW u \in TaskIds, u \notin lost PROVE RowMoves(u) /\ (Taken(u)' => Taken(u))
  BY <1>1, <1>3, RowSameMoves
<1>4. recs' = recs
  BY DEF doCheckTx
<1>5. QED
  BY <1>2, <1>3, <1>4, QuietMoves

-----------------------------------------------------------------------------
(* The workers, the parser, the handlers and the distributor *)

\* What is known of the rollback worker's task.
LEMMA RbTaskRow ==
    ASSUME RootBefore, rb.pc # "idle"
    PROVE  /\ rb.t \in TaskIds /\ rb.t <= nTask
           /\ FromDistribution(rb.t)
                => /\ task[rb.t].type = "Delegate" /\ task[rb.t].smt = NeedToRollback
                   /\ InFlight(rb.t) /\ Busy(rb.t)
           /\ ~ FromDistribution(rb.t) => task[rb.t].type # "Delegate" /\ RecordsOf(rb.t) = {}
<1>1. rb.t \in TaskIds /\ rb.t <= nTask /\ ToUndo(rb.t)
  BY DEF RootBefore, SmtInv, SmtInv0, StepsOK, RecInv, TasksOk, RbTask
<1>2. ASSUME FromDistribution(rb.t)
      PROVE  task[rb.t].type = "Delegate" /\ task[rb.t].smt = NeedToRollback
  <2>1. OurRow(rb.t) /\ RowOk(rb.t)
    BY <1>1, RootBeforeHas
  <2>2. QED
    BY <1>1, <1>2, <2>1 DEF OurRow, RowOk, Of, ToUndo, NeedToRollback, NeedToWrite, WriteComplete
<1>3. ~ FromDistribution(rb.t) => RecordsOf(rb.t) = {}
  BY <1>1 DEF RecordsOf, RootBefore, RootInv, Ours, TaskIds
<1>4. QED
  BY <1>1, <1>2, <1>3, RootBeforeHas DEF InFlight, Busy

LEMMA RbFinishMoves ==
    ASSUME RootBefore, RbFinish
    PROVE  Moves
<1> PICK t : t = rb.t
  OBVIOUS
<1>1. /\ t \in TaskIds
      /\ FromDistribution(t) => /\ task[t].type = "Delegate" /\ task[t].smt = NeedToRollback
                                /\ InFlight(t)
      /\ ~ FromDistribution(t) => task[t].type # "Delegate" /\ RecordsOf(t) = {}
  BY RbTaskRow DEF RbFinish
<1>2. \/ /\ MayRetry(t) /\ recs' = recs
         /\ task' = IF task[t].smt = NeedToRollback
                    THEN [task EXCEPT ![t].smt = NeedToWrite, ![t].tx = UnSend,
                                      ![t].retry = @ + 1]
                    ELSE task
      \/ /\ recs' = CloseRecords(t, RecordsOf(t))
         /\ task' = IF task[t].smt = NeedToRollback
                    THEN [task EXCEPT ![t].smt = RollbackComplete]
                    ELSE task
  BY DEF RbFinish
<1>3. \/ recs' = recs /\ Marks(t, "Delegate", NeedToWrite, UnSend) /\ FromDistribution(t)
      \/ /\ recs' = CloseRecords(t, RecordsOf(t))
         /\ \/ Marks(t, task[t].type, RollbackComplete, task[t].tx)
            \/ task' = task /\ ~ FromDistribution(t)
  <2>1. /\ \A s : task' = [task EXCEPT ![t].smt = s] => Marks(t, task[t].type, s, task[t].tx)
        /\ \A s, x, n : task' = [task EXCEPT ![t].smt = s, ![t].tx = x, ![t].retry = n]
                       => Marks(t, task[t].type, s, x)
    BY <1>1, RowMarked, RootBeforeHas
  <2>2. CASE task[t].smt = NeedToRollback
    <3>1. CASE /\ MayRetry(t) /\ recs' = recs
               /\ task' = [task EXCEPT ![t].smt = NeedToWrite, ![t].tx = UnSend, ![t].retry = @ + 1]
      <4>1. task' = [task EXCEPT ![t].smt = NeedToWrite, ![t].tx = UnSend,
                                 ![t].retry = task[t].retry + 1]
        BY <3>1
      <4>2. task[t].type = "Delegate" /\ FromDistribution(t)
        BY <1>1, <3>1 DEF MayRetry
      <4>3. Marks(t, task[t].type, NeedToWrite, UnSend)
        BY <2>1, <4>1
      <4>4. QED
        BY <3>1, <4>2, <4>3
    <3>2. CASE /\ recs' = CloseRecords(t, RecordsOf(t))
               /\ task' = [task EXCEPT ![t].smt = RollbackComplete]
      BY <2>1, <3>2
    <3>3. QED
      BY <1>2, <2>2, <3>1, <3>2
  <2>3. CASE task[t].smt # NeedToRollback
    BY <1>1, <1>2, <2>3 DEF MayRetry
  <2>4. QED
    BY <2>2, <2>3
<1>4. RowMoves(t)
  <2>1. CASE ~ FromDistribution(t)
    BY <1>3, <2>1 DEF RowMoves, Marks, FromDistribution
  <2>2. CASE FromDistribution(t)
    <3>1. OurRow(t)
      BY <1>1, RootBeforeHas
    <3>2. /\ task'[t].type = "Delegate" /\ task'[t].tx # Committed /\ FromDistribution(t)'
          /\ \/ task'[t].smt = NeedToWrite /\ task'[t].tx = UnSend
             \/ task'[t].smt = RollbackComplete
      BY <1>1, <1>3, <2>2, <3>1 DEF Marks, OurRow, FromDistribution, UnSend, Committed
    <3>3. ~ InFlight(t)'
      BY <3>2 DEF InFlight, At, NeedToWrite, Writing, WriteComplete, NeedToRollback,
         RollbackComplete
    <3>4. QED
      BY <1>1, <2>2, <3>2, <3>3 DEF RowMoves, Undone
  <2>3. QED
    BY <2>1, <2>2
<1>5. (Taken(t)' => Taken(t)) /\ ~ (Busy(t) /\ Busy(t)')
  <2>1. CASE ~ FromDistribution(t)
    <3>1. ~ FromDistribution(t)' /\ task[t].type # "Delegate"
      BY <1>1, <1>3, <2>1 DEF Marks, FromDistribution
    <3>2. QED
      BY <2>1, <3>1 DEF Taken, Busy, InFlight
  <2>2. CASE FromDistribution(t)
    BY <1>1, <1>3, <2>2 DEF Marks, Busy, Taken, InFlight, At, Of, NeedToWrite, Writing,
       WriteComplete, NeedToRollback, RollbackComplete, UnSend, Pending
  <2>3. QED
    BY <2>1, <2>2
<1>6. \A u \in TaskIds \ {t} : task'[u] = task[u]
  BY <1>3 DEF Marks
<1>7. \A r \in RecordsOf(t) : r.type # "Chain"
  <2>1. ASSUME NEW r \in RecordsOf(t), r.type = "Chain" PROVE FALSE
    <3>1. OnChainRow(t)
      BY <2>1 DEF RecordsOf, RootBefore, RecInv, TasksOk, RecordsPlaced, Placed
    <3>2. QED
      BY <1>1, <2>1, <3>1 DEF OnChainRow
  <2>2. QED
    BY <2>1
<1>8. CASE recs' = recs
  BY <1>1, <1>4, <1>5, <1>6, <1>8, MarkMoves
<1>9. CASE recs' = CloseRecords(t, RecordsOf(t))
  BY <1>1, <1>4, <1>5, <1>6, <1>7, <1>9, CloseMoves, RootBeforeHas
<1>10. QED
  BY <1>3, <1>8, <1>9

LEMMA CfFinishMoves ==
    ASSUME RootBefore, CfFinish
    PROVE  Moves
<1> PICK t : t = cf.t
  OBVIOUS
<1>1. /\ t \in TaskIds /\ recs' = recs
      /\ FromDistribution(t) => Taken(t)
      /\ task' = IF At(t, NeedToWrite, Committed) THEN [task EXCEPT ![t].smt = WriteComplete]
                 ELSE task
  BY DEF CfFinish, CfUnchanged, RootBefore, RootInv, WorkInv, CfTask, SmtInv, SmtInv0, StepsOK
<1>2. CASE ~ At(t, NeedToWrite, Committed)
  BY <1>1, <1>2, StillMoves
<1>3. CASE At(t, NeedToWrite, Committed)
  <2>1. Marks(t, task[t].type, WriteComplete, Committed)
    BY <1>1, <1>3, RowMarked, RootBeforeHas DEF At
  <2>2. ~ Taken(t)'
    BY <2>1 DEF Marks, Taken, Of, NeedToWrite, WriteComplete
  <2>3. RowMoves(t)
    BY <1>1, <2>1 DEF RowMoves, Marks, FromDistribution, Confirmed, Taken, Of
  <2>4. \A u \in TaskIds \ {t} : task'[u] = task[u]
    BY <2>1 DEF Marks
  <2>5. QED
    BY <1>1, <2>2, <2>3, <2>4, MarkMoves
<1>4. QED
  BY <1>2, <1>3

LEMMA WorkerMoves ==
    ASSUME RootBefore, Rollbacker \/ RbFail \/ Confirmer \/ CfFail
    PROVE  Moves
<1>1. \/ UNCHANGED <<task, recs>> \/ RbFinish \/ CfFinish
  BY DEF Rollbacker, RbRead, RbLock, RbWrite, RbFail, Confirmer, CfRead, CfLock, CfWrite, CfFail,
     CfUnchanged
<1>2. QED
  BY <1>1, StillMoves, RbFinishMoves, CfFinishMoves

\* A task of ours that the parser finds on chain takes its records along.
LEMMA ParseOwnUpdateMoves ==
    ASSUME RootBefore, ParseOwnUpdate
    PROVE  Moves
<1>1. PICK t \in TaskIds :
        /\ Of(t, "Delegate", WriteComplete, Pending)
        /\ \A u \in TaskIds \ {t} : task'[u] = task[u]
        /\ Of(t, "Chain", NeedToWrite, Committed)' /\ task'[t].from = task[t].from
        /\ \A r \in recs : r.task # t => r \in recs'
        /\ \A r \in RecordsOf(t) :
             \E q \in recs' : q.type = "Chain" /\ q.task = t /\ q.acc = r.acc
        /\ \A q \in recs' : \/ q \in recs /\ q.task # t
                            \/ q.type = "Chain" /\ q.task = t
  BY ParseOwnUpdateDoes, RootBeforeHas DEF Of
<1>2. FromDistribution(t) /\ FromDistribution(t)' /\ Taken(t)'
  BY <1>1, RootBeforeHas DEF Of, FromDistribution, Taken
<1>3. \A u \in TaskIds : RowMoves(u) /\ (Taken(u)' => Taken(u) \/ u = t)
  <2>1. RowMoves(t)
    BY <1>1, <1>2 DEF RowMoves, Takes
  <2>2. QED
    BY <1>1, <2>1, RowSameMoves
<1>4. \A q \in recs' : RecordMoves(q)
  BY <1>1, <1>2 DEF RecordMoves
<1>5. ASSUME NEW u \in TaskIds, NEW a, HasRecord(u, a) PROVE HasRecord(u, a)'
  <2>1. PICK r \in RecordsOf(u) : r.acc = a /\ r.type # "Closed"
    BY <1>5 DEF HasRecord
  <2>2. CASE u = t
    <3>1. PICK q \in recs' : q.type = "Chain" /\ q.task = t /\ q.acc = a
      BY <1>1, <2>1, <2>2
    <3>2. QED
      BY <2>2, <3>1 DEF HasRecord, RecordsOf
  <2>3. CASE u # t
    BY <1>1, <2>1, <2>3 DEF HasRecord, RecordsOf
  <2>4. QED
    BY <2>2, <2>3
<1>6. ASSUME NEW r \in recs, r.type = "Chain" PROVE r \in recs'
  <2>1. OnChainRow(r.task)
    BY <1>6 DEF RootBefore, RecInv, TasksOk, RecordsPlaced, Placed
  <2>2. r.task # t
    BY <1>1, <2>1 DEF OnChainRow, Of
  <2>3. QED
    BY <1>1, <2>2
<1>7. ChainOf(t)' # {}
  <2>1. PICK r \in RecordsOf(t) : TRUE
    BY <1>1 DEF Of, Open, DefaultOf, WriteComplete, RollbackComplete, RootBefore, RecInv, TasksOk,
       OpenHaveRecords
  <2>2. QED
    BY <1>1, <2>1 DEF ChainOf, RecordsOf
<1>8. QED
  BY <1>3, <1>4, <1>5, <1>6, <1>7 DEF Moves, RecordsHeld, ChainRecordsStay, TakenGet

\* An update that is not in the table is one the parser has seen before it
\* crashed: ours are marked, and there are no others.
LEMMA ParseOtherUpdateMoves ==
    ASSUME RootBefore, ParseOtherUpdate
    PROVE  Moves
<1> PICK x : x = NextTx
  OBVIOUS
<1> PICK b : b = tx[x].by
  OBVIOUS
<1> PICK t : t = nTask + 1
  OBVIOUS
<1>1. MayParse /\ tx[x].kind = "update"
  BY DEF ParseOtherUpdate
<1>2. /\ parsed + 1 \in 1..Height /\ chain[parsed + 1] = x /\ x \in TxIds
      /\ tx[x].status = "committed" /\ x <= nTx
  BY <1>1, ParseTyped, RootBeforeHas, NetTyped
<1>3. b # 0
  BY <1>1, <1>2 DEF RootBefore, RootInv, NetInv, TxLeaves, TxLeaf
<1>4. b \in TaskIds
  BY <1>2, <1>3, RootBeforeHas, BoundsTyped DEF TypeOK, NodeTypeOK, Tx, TaskIds
<1>5. /\ task[b].out = x
      /\ \/ Of(b, "Delegate", WriteComplete, Pending)
         \/ task[b].type = "Chain" /\ FromDistribution(b)
         \/ Of(b, "Delegate", Writing, UnSend) /\ upd.pc = "mark" /\ upd.t = b
  BY <1>2, <1>3 DEF RootBefore, SmtInv, Linked, LinkedTx, Live
<1>6. ~ Of(b, "Delegate", WriteComplete, Pending)
  <2> SUFFICES ASSUME Of(b, "Delegate", WriteComplete, Pending) PROVE FALSE
    OBVIOUS
  <2>1. tx[x].ref = task[b].ref
    BY <1>2, <1>4, <1>5, RootBeforeHas DEF RowOk, Of
  <2>2. b \in GetTaskByRefOutpointAndOutpoint(x)
    BY <1>4, <1>5, <2>1 DEF GetTaskByRefOutpointAndOutpoint, At, Of
  <2>3. QED
    BY <2>2 DEF ParseOtherUpdate
<1>7. ~ (upd.pc = "mark" /\ upd.t = b)
  BY <1>1, <1>4, <1>5 DEF MayParse, Unmarked, RootBefore
<1>8. Recorded(parsed + 1)
  <2>1. ParserRow(b)
    BY <1>5, <1>6, <1>7 DEF ParserRow
  <2>2. PICK h \in 1..Height : RowOfBlock(b, h)
    BY <1>4, <2>1 DEF RootBefore, RecInv, ParsedOk
  <2>3. h = parsed + 1
    BY <1>2, <1>5, <2>2 DEF RowOfBlock, RootBefore, RecInv, CellsOk
  <2>4. QED
    BY <1>1, <1>2, <2>2, <2>3 DEF RowOfBlock
<1> DEFINE new == {[acc |-> a, ver |-> tx[x].leaf[a], type |-> "Chain", bn |-> parsed + 1,
                    task |-> t] : a \in tx[x].upd}
           twin(r) == \E q \in recs : /\ q.acc = r.acc /\ q.ver = r.ver
                                      /\ q.type = "Chain" /\ q.bn = parsed + 1
<1>9. \A r \in new : twin(r)
  BY <1>2, <1>8 DEF Recorded, RootAt
<1>10. recs' = recs
  <2>1. recs' = recs \/ recs' = recs \cup {r \in new : ~ twin(r)}
    BY DEF ParseOtherUpdate
  <2>2. QED
    BY <1>9, <2>1
<1>11. \A u \in TaskIds : RowMoves(u) /\ (Taken(u)' => Taken(u))
  <2>1. ASSUME NEW u \in TaskIds, task'[u] # task[u] PROVE RowMoves(u) /\ ~ Taken(u)'
    <3>1. u = t /\ u > nTask /\ task'[u].from = "parser"
      BY <2>1, ParseOtherUpdateDoes, RootBeforeHas, NextRow
    <3>2. ~ FromDistribution(u) /\ ~ FromDistribution(u)'
      BY <3>1, RootBeforeHas, NextRow DEF FromDistribution
    <3>3. QED
      BY <3>2 DEF RowMoves, Taken
  <2>2. QED
    BY <2>1, RowSameMoves
<1>12. QED
  BY <1>10, <1>11, QuietMoves

\* Rows of the parser's and the handlers' come, change and go.
LEMMA OutsideMoves ==
    ASSUME recs' = recs,
           \A u \in TaskIds : \/ task'[u] = task[u]
                              \/ ~ FromDistribution(u) /\ ~ FromDistribution(u)'
    PROVE  Moves
<1>1. ASSUME NEW u \in TaskIds PROVE RowMoves(u) /\ (Taken(u)' => Taken(u))
  <2>1. CASE task'[u] = task[u]
    BY <2>1, RowSameMoves
  <2>2. CASE ~ FromDistribution(u) /\ ~ FromDistribution(u)'
    BY <2>2 DEF RowMoves, Taken
  <2>3. QED
    BY <2>1, <2>2
<1>2. QED
  BY <1>1, QuietMoves

LEMMA ParserMoves ==
    ASSUME RootBefore, Parser
    PROVE  Moves
<1>1. ASSUME ParseNoLeaf PROVE Moves
  <2> DEFINE x == NextTx
             row == [NoRow EXCEPT !.type = "Chain", !.smt = WriteComplete, !.tx = Committed,
                                  !.out = x, !.bn = parsed + 1]
  <2>1. /\ task' = [u \in TaskIds |->
                      IF u = nTask + 1 THEN row
                      ELSE IF task[u].ref = 0 /\ task[u].out = x THEN NoRow
                      ELSE task[u]]
        /\ recs' = recs /\ MayParse
    BY <1>1 DEF ParseNoLeaf
  <2>2. row.from = "parser" /\ NoRow.from = "parser"
    BY DEF NoRow
  <2>3. x # 0
    BY <2>1, ParseTyped, RootBeforeHas
  <2> HIDE DEF x, row
  <2>4. ASSUME NEW u \in TaskIds
        PROVE  \/ task'[u] = task[u]
               \/ ~ FromDistribution(u) /\ ~ FromDistribution(u)'
    <3>1. CASE u = nTask + 1
      BY <2>1, <2>2, <3>1, RootBeforeHas, NextRow DEF FromDistribution
    <3>2. CASE u # nTask + 1 /\ task[u].ref = 0 /\ task[u].out = x
      BY <2>1, <2>2, <2>3, <3>2, RootBeforeHas DEF FromDistribution, RowOk
    <3>3. QED
      BY <2>1, <3>1, <3>2
  <2>5. QED
    BY <2>1, <2>4, OutsideMoves
<1>2. ASSUME ParseChannelProfit PROVE Moves
  <2> PICK x : x = NextTx
    OBVIOUS
  <2>1. /\ task' = [u \in TaskIds |->
                      IF task[u].type # "Absent" /\ task[u].out = x
                      THEN [task[u] EXCEPT !.tx = Committed, !.bn = parsed + 1]
                      ELSE task[u]]
        /\ recs' = recs /\ MayParse /\ tx[x].kind = "channel"
    BY <1>2 DEF ParseChannelProfit
  <2>2. x \in TxIds /\ x # 0
    BY <2>1, ParseTyped, RootBeforeHas
  <2>3. tx[x].by = 0
    BY <2>1, <2>2, RootBeforeHas DEF SmtInv0, TxsOk, TxOk
  <2>4. ASSUME NEW u \in TaskIds, task'[u] # task[u]
        PROVE  ~ FromDistribution(u) /\ ~ FromDistribution(u)'
    <3>1. task[u].out = x /\ task'[u] = [task[u] EXCEPT !.tx = Committed, !.bn = parsed + 1]
      BY <2>1, <2>4
    <3>2. task'[u].from = task[u].from
      BY <3>1, RootBeforeHas DEF TypeOK, DatabaseTypeOK, Row
    <3>3. ~ FromDistribution(u)
      <4>1. FromDistribution(u) => tx[x].by = u
        BY <2>2, <3>1, RootBeforeHas DEF RowOk
      <4>2. QED
        BY <2>3, <4>1 DEF TaskIds
    <3>4. QED
      BY <3>2, <3>3 DEF FromDistribution
  <2>5. QED
    BY <2>1, <2>4, OutsideMoves
<1>3. ASSUME ParserStoreBlock PROVE Moves
  BY <1>3, StillMoves DEF ParserStoreBlock
<1>4. QED
  BY <1>1, <1>2, <1>3, ParseOwnUpdateMoves, ParseOtherUpdateMoves DEF Parser

LEMMA RequestMoves ==
    ASSUME RootBefore, NEW a \in Accounts, Request(a)
    PROVE  Moves
<1>1. PICK v \in Versions :
        recs' = recs \cup {[acc |-> a, ver |-> v, type |-> "Default", bn |-> 0, task |-> 0]}
  BY DEF Request
<1>2. task' = task
  BY DEF Request
<1>3. recs \subseteq recs' /\ \A q \in recs' : q \in recs \/ q.task = 0
  BY <1>1
<1>4. \A u \in TaskIds : RowMoves(u) /\ (Taken(u)' => Taken(u))
  BY <1>2, RowSameMoves
<1>5. RecordsHeld
  BY <1>3 DEF RecordsHeld, HasRecord, RecordsOf
<1>6. QED
  BY <1>3, <1>4, <1>5 DEF Moves, RecordMoves, ChainRecordsStay, TakenGet

LEMMA HandlersMoves ==
    ASSUME RootBefore, Handlers
    PROVE  Moves
<1>1. ASSUME SpendCreateTask PROVE Moves
  <2> DEFINE row == [NoRow EXCEPT !.type = IF tx[hnd].kind = "channel" THEN "Chain" ELSE "Normal",
                                  !.smt = WriteComplete, !.tx = Pending,
                                  !.own = (tx[hnd].kind = "config"), !.out = hnd,
                                  !.from = "handler"]
  <2>1. /\ recs' = recs
        /\ \/ nTask < MaxTasks /\ task' = [task EXCEPT ![nTask + 1] = row]
           \/ task' = task
    BY <1>1 DEF SpendCreateTask
  <2>2. row.from = "handler"
    BY DEF NoRow
  <2> HIDE DEF row
  <2>3. ASSUME NEW u \in TaskIds, task'[u] # task[u]
        PROVE  ~ FromDistribution(u) /\ ~ FromDistribution(u)'
    <3>1. task \in [TaskIds -> Row] /\ nTask \in Nat
      BY RootBeforeHas DEF TypeOK, DatabaseTypeOK, TaskIds
    <3>2. u = nTask + 1 /\ u > nTask /\ task'[u] = row
      BY <2>1, <2>3, <3>1
    <3>3. QED
      BY <2>2, <3>2, RootBeforeHas, NextRow DEF FromDistribution
  <2>4. QED
    BY <2>1, <2>3, OutsideMoves
<1>2. ASSUME NEW kind, NEW script, SpendSend(kind, script) PROVE Moves
  BY <1>2, StillMoves DEF SpendSend, db
<1>3. QED
  BY <1>1, <1>2, RequestMoves DEF Handlers

\* The distributor makes the new tasks and gives them the waiting records.
LEMMA DistributionMoves ==
    ASSUME RootBefore, doUpdateDistribution
    PROVE  Moves
<1> DEFINE new == NeedDoDistribution
<1>1. PICK k \in Nat \ {0} : \E batch \in [new -> 1..k] :
        /\ nTask + k <= MaxTasks
        /\ \A u \in TaskIds :
             IF u \in nTask + 1 .. nTask + k
             THEN /\ task'[u].type = "Delegate" /\ task'[u].smt = NeedToWrite
                  /\ task'[u].tx = UnSend /\ task'[u].from = "distribution"
             ELSE task'[u] = task[u]
        /\ recs' = (recs \ new) \cup {[r EXCEPT !.task = nTask + batch[r]] : r \in new}
  BY DistributionDoes, RootBeforeHas
<1>2. PICK batch \in [new -> 1..k] :
        /\ nTask + k <= MaxTasks
        /\ \A u \in TaskIds :
             IF u \in nTask + 1 .. nTask + k
             THEN /\ task'[u].type = "Delegate" /\ task'[u].smt = NeedToWrite
                  /\ task'[u].tx = UnSend /\ task'[u].from = "distribution"
             ELSE task'[u] = task[u]
        /\ recs' = (recs \ new) \cup {[r EXCEPT !.task = nTask + batch[r]] : r \in new}
  BY <1>1
<1>3. nTask \in Nat /\ MaxTasks \in Nat
  BY RootBeforeHas, NextRow, BoundsTyped
<1>4. \A r \in new : r \in recs /\ r.task = 0 /\ r.type = "Default"
  BY DEF NeedDoDistribution, RecordsOf, RootBefore, RecInv, TasksOk, RecordsPlaced, Placed
<1>5. ASSUME NEW q \in recs', q \notin recs
      PROVE  q.task \in TaskIds /\ q.task > nTask /\ FromDistribution(q.task)' /\ q.type = "Default"
  <2>1. PICK r \in new : q = [r EXCEPT !.task = nTask + batch[r]]
    BY <1>2, <1>5
  <2>2. q.task = nTask + batch[r] /\ q.type = "Default"
    BY <1>4, <2>1, RecordTyped, RootBeforeHas DEF Record
  <2>3. q.task \in nTask + 1 .. nTask + k /\ q.task \in TaskIds
    BY <1>2, <1>3, <2>2 DEF TaskIds
  <2>4. QED
    BY <1>2, <1>3, <2>2, <2>3 DEF FromDistribution
<1>6. \A q \in recs' : RecordMoves(q)
  BY <1>5 DEF RecordMoves
<1>7. \A r \in recs : r.task # 0 => r \in recs'
  BY <1>2, <1>4
<1>8. RecordsHeld /\ ChainRecordsStay
  <2>1. \A u \in TaskIds : u # 0
    BY DEF TaskIds
  <2>2. RecordsHeld
    BY <1>7, <2>1 DEF RecordsHeld, HasRecord, RecordsOf
  <2>3. ChainRecordsStay
    BY <1>4, <1>2 DEF ChainRecordsStay
  <2>4. QED
    BY <2>2, <2>3
<1>9. ASSUME NEW u \in TaskIds PROVE RowMoves(u) /\ (Taken(u)' => Taken(u))
  <2>1. CASE u \in nTask + 1 .. nTask + k
    <3>1. u > nTask /\ Of(u, "Delegate", NeedToWrite, UnSend)' /\ FromDistribution(u)'
      BY <1>2, <1>3, <2>1 DEF Of, FromDistribution
    <3>2. QED
      BY <3>1 DEF RowMoves, Taken, Of
  <2>2. CASE u \notin nTask + 1 .. nTask + k
    BY <1>2, <2>2, RowSameMoves
  <2>3. QED
    BY <2>1, <2>2
<1>10. QED
  BY <1>6, <1>8, <1>9 DEF Moves, TakenGet

LEMMA NextMoves ==
    ASSUME RootBefore, [Next]_vars
    PROVE  Moves
<1>1. Environment \/ UNCHANGED vars => Moves
  BY StillMoves DEF Environment, CommitTx, RejectTx, ForeignCommit, SyncInfo, Crash, LockExpire,
     EnvUnchanged, db, vars
<1>2. QED
  BY <1>1, HandlersMoves, DistributionMoves, UpdaterMoves, CheckerMoves, WorkerMoves, ParserMoves
     DEF Next

-----------------------------------------------------------------------------
(* The distributor's rows, and the busy task *)

LEMMA NextOurs ==
    ASSUME RootBefore, Moves
    PROVE  Ours'
<1>1. ASSUME NEW u \in TaskIds PROVE OurRow(u)'
  <2>1. RowMoves(u) /\ OurRow(u)
    BY RootBeforeHas DEF Moves
  <2>2. CASE SameRowAs(u)
    BY <2>1, <2>2 DEF SameRowAs, OurRow, FromDistribution
  <2>3. CASE ~ FromDistribution(u)' \/ Drops(u)
    BY <2>3 DEF Drops, OurRow
  <2>4. CASE Of(u, "Delegate", NeedToWrite, UnSend)' \/ Starts(u) \/ Flies(u) \/ Undone(u)
    <3>1. task'[u].type = "Delegate" /\ task'[u].tx # Committed
      BY <2>4 DEF Of, Starts, Flies, Undone, InFlight, UnSend, Committed
    <3>2. QED
      BY <3>1 DEF OurRow
  <2>5. CASE Takes(u) \/ Confirmed(u)
    BY <2>5 DEF Takes, Confirmed, Taken, Of, OurRow
  <2>6. QED
    BY <2>1, <2>2, <2>3, <2>4, <2>5 DEF RowMoves
<1>2. ASSUME NEW u \in TaskIds, FromDistribution(u) PROVE FromDistribution(u)'
  BY <1>2 DEF Moves, RowMoves, SameRowAs, FromDistribution
<1>3. ASSUME NEW q \in recs', q.task # 0 PROVE FromDistribution(q.task)'
  <2>1. \A r \in recs : r.task # 0 => r.task \in TaskIds /\ FromDistribution(r.task)
    BY RecordTyped, RootBeforeHas DEF RootBefore, RootInv, Ours
  <2>2. RecordMoves(q)
    BY <1>3 DEF Moves
  <2>3. QED
    BY <1>2, <1>3, <2>1, <2>2 DEF RecordMoves
<1>4. ASSUME NEW u \in TaskIds, Taken(u)' PROVE ChainOf(u)' # {}
  <2>1. CASE Taken(u)
    <3>1. PICK r \in ChainOf(u) : TRUE
      BY <2>1 DEF RootBefore, RootInv, Ours
    <3>2. r \in recs'
      BY <3>1 DEF Moves, ChainRecordsStay, ChainOf, RecordsOf
    <3>3. QED
      BY <3>1, <3>2 DEF ChainOf, RecordsOf
  <2>2. QED
    BY <1>4, <2>1 DEF Moves, TakenGet
<1>5. QED
  BY <1>1, <1>3, <1>4 DEF Ours

\* Only updateSmt makes a task busy.
LEMMA BusyStarts ==
    ASSUME RootBefore, Moves, NEW u \in TaskIds, Busy(u)'
    PROVE  Busy(u) \/ Starts(u)
<1>1. RowMoves(u) /\ FromDistribution(u)'
  BY RootBeforeHas DEF Moves, Busy, InFlight, Taken, FromDistribution, RowOk
<1>2. CASE SameRowAs(u)
  BY <1>2 DEF SameRowAs, Busy, InFlight, Taken, At, Of, FromDistribution
<1>3. ~ Of(u, "Delegate", NeedToWrite, UnSend)' /\ ~ Drops(u) /\ ~ Undone(u) /\ ~ Confirmed(u)
  BY DEF Drops, Undone, Confirmed, Busy, InFlight, Taken, At, Of, NeedToWrite, Writing,
     WriteComplete, NeedToRollback, UnSend, Committed
<1>4. CASE Flies(u) \/ Takes(u)
  BY <1>4 DEF Flies, Takes, Busy, InFlight, At, Of
<1>5. QED
  BY <1>1, <1>2, <1>3, <1>4 DEF RowMoves

LEMMA NoneInProgress ==
    ASSUME GetTaskInProgress = {}, NEW t \in TaskIds
    PROVE  ~ Busy(t)
BY DEF GetTaskInProgress, Busy, InFlight, Taken, At, Of

LEMMA UpdaterAhead ==
    ASSUME TypeOK, Updater \/ UpdFail, upd'.pc \in {"cell", "lock", "root"}
    PROVE  \/ upd.pc \in {"cell", "lock", "root"} /\ ~ UpdStartWrite
           \/ GetTaskInProgress = {} /\ task' = task
<1>1. upd \in [pc : UpdSteps, t : 0..MaxTasks, h : 0..Height]
  BY DEF TypeOK, MemoryTypeOK
<1>2. \A t \in TaskIds : UpdRollbackWriting(t) \/ UpdCloseStale(t) => upd' = upd /\ upd.pc = "idle"
  BY DEF UpdRollbackWriting, UpdCloseStale, HeadTask
<1>3. \A t \in TaskIds : UpdPassNonce(t) => upd'.pc = "check"
  BY DEF UpdPassNonce, UpdIdle
<1>4. UpdDiffScript \/ UpdFail \/ UpdMarkPending => upd'.pc = "idle"
  BY DEF UpdDiffScript, UpdFail, UpdMarkPending, UpdStop, UpdIdle
<1>5. /\ UpdStartWrite => upd'.pc = "write"
      /\ UpdWriteSmt => upd'.pc = "build"
      /\ UpdBuild => upd'.pc = "send"
      /\ UpdSend => upd'.pc \in {"mark", "idle"}
  BY <1>1 DEF UpdStartWrite, UpdWriteSmt, UpdBuild, UpdSend, UpdStop, UpdIdle
<1>6. UpdCheckLiveCell \/ UpdLock => upd.pc \in {"cell", "lock"}
  BY DEF UpdCheckLiveCell, UpdLock
<1>7. UpdCheckInProgress => (GetTaskInProgress = {} \/ upd'.pc = "idle") /\ task' = task
  BY DEF UpdCheckInProgress, UpdIdle
<1>8. QED
  BY <1>2, <1>3, <1>4, <1>5, <1>6, <1>7 DEF Updater

LEMMA OthersLeaveUpd ==
    ASSUME [Next]_vars, ~ (Updater \/ UpdFail)
    PROVE  upd' = upd \/ upd' = UpdIdle
BY DEF Next, vars, Handlers, Request, SpendSend, SpendCreateTask, doUpdateDistribution, doCheckTx,
   Rollbacker, RbFail, RbRead, RbLock, RbWrite, RbFinish, RbUnchanged, Confirmer, CfFail, CfRead,
   CfLock, CfWrite, CfFinish, CfUnchanged, Parser, ParseOwnUpdate, ParseOtherUpdate, ParseNoLeaf,
   ParseChannelProfit, ParserStoreBlock, ParseUnchanged, Environment, CommitTx, RejectTx,
   ForeignCommit, SyncInfo, Crash, LockExpire, EnvUnchanged

LEMMA NextBusy ==
    ASSUME RootBefore, Moves, [Next]_vars
    PROVE  BusyInv'
<1>1. OneBusy'
  <2> SUFFICES ASSUME NEW t \in TaskIds, NEW u \in TaskIds, Busy(t)', Busy(u)' PROVE t = u
    BY DEF OneBusy
  <2>1. UpdStartWrite => \A v \in TaskIds : ~ Busy(v)
    BY DEF UpdStartWrite, RootBefore, RootInv, BusyInv, ClearOfBusy
  <2>2. /\ Busy(t) \/ Starts(t)
        /\ Busy(u) \/ Starts(u)
    BY BusyStarts
  <2>3. CASE UpdStartWrite
    BY <2>1, <2>2, <2>3 DEF Starts
  <2>4. CASE ~ UpdStartWrite
    BY <2>2, <2>4 DEF Starts, RootBefore, RootInv, BusyInv, OneBusy
  <2>5. QED
    BY <2>3, <2>4
<1>2. ClearOfBusy'
  <2> SUFFICES ASSUME upd'.pc \in {"cell", "lock", "root"}, NEW t \in TaskIds, Busy(t)' PROVE FALSE
    BY DEF ClearOfBusy
  <2>1. Busy(t) \/ Starts(t)
    BY BusyStarts
  <2>2. CASE Updater \/ UpdFail
    <3>1. CASE upd.pc \in {"cell", "lock", "root"} /\ ~ UpdStartWrite
      BY <2>1, <3>1 DEF Starts, RootBefore, RootInv, BusyInv, ClearOfBusy
    <3>2. CASE GetTaskInProgress = {} /\ task' = task
      BY <3>2, NoneInProgress, RowSameMoves
    <3>3. QED
      BY <2>2, <3>1, <3>2, UpdaterAhead, RootBeforeHas
  <2>3. CASE ~ (Updater \/ UpdFail)
    <3>1. upd' = upd
      BY <2>3, OthersLeaveUpd DEF UpdIdle
    <3>2. ~ UpdStartWrite
      BY <2>3 DEF Updater
    <3>3. QED
      BY <2>1, <3>1, <3>2 DEF Starts, RootBefore, RootInv, BusyInv, ClearOfBusy
  <2>4. QED
    BY <2>2, <2>3
<1>3. QED
  BY <1>1, <1>2 DEF BusyInv

-----------------------------------------------------------------------------
(* The chain *)

LEMMA TxTyped ==
    ASSUME TypeOK, NEW x \in TxIds
    PROVE  /\ tx[x].by = 0 \/ tx[x].by \in TaskIds
           /\ tx[x].ref \in Nat /\ (tx[x].ref # 0 => tx[x].ref \in TxIds)
<1>1. tx[x] \in Tx
  BY DEF TypeOK, NodeTypeOK
<1>2. tx[x].by \in 0..MaxTasks /\ tx[x].ref \in 0..MaxTxs
  BY <1>1 DEF Tx
<1>3. QED
  BY <1>2, BoundsTyped DEF TaskIds, TxIds

LEMMA SameLeaf ==
    ASSUME NEW x \in TxIds, TxLeaf(x), SameTx(x), nTx <= nTx', nTx \in Nat, nTx' \in Nat,
           tx[x].ref \in Nat, \A c : c = tx[x].ref /\ c # 0 => SameTx(c)
    PROVE  TxLeaf(x)'
BY DEF TxLeaf, SameTx

\* The transaction of a task, and one of a handler.
LEMMA BuiltLeaf ==
    ASSUME RootBefore, UpdBuild
    PROVE  nTx' = nTx + 1 /\ TxLeaf(nTx)'
<1> PICK x : x = nTx + 1
  OBVIOUS
<1> PICK c : c = chain[upd.h]
  OBVIOUS
<1> DEFINE rs == DefaultOf(upd.t)
           new == [kind |-> "update", ref |-> chain[upd.h], by |-> upd.t,
                   leaf |-> ChangedBy(rs, RootAt(upd.h)), upd |-> AccountsOf(rs),
                   script |-> tx[chain[upd.h]].script, status |-> "built"]
<1>1. tx' = [tx EXCEPT ![x] = new] /\ nTx' = x /\ nTx < MaxTxs
  BY DEF UpdBuild
<1>2. upd.h \in 1..Height /\ upd.t # 0
  BY DEF UpdBuild, RootBefore, SmtInv, SmtInv0, StepsOK, TaskIds
<1>3. c \in TxIds /\ c <= nTx
  BY <1>2, RootBeforeHas, NetTyped
<1>4. /\ new.ref = c /\ new.by # 0 /\ \A a \in Accounts \ new.upd : new.leaf[a] = tx[c].leaf[a]
  BY <1>2 DEF ChangedBy, RootAt
<1> HIDE DEF new
<1>5. x \in TxIds /\ x > nTx /\ nTx \in Nat
  BY <1>1, RootBeforeHas, NetTyped, BoundsTyped DEF TxIds
<1>6. tx'[x] = new /\ tx'[c] = tx[c]
  BY <1>1, <1>3, <1>5, RootBeforeHas DEF TypeOK, NodeTypeOK
<1>7. TxLeaf(x)'
  BY <1>1, <1>3, <1>4, <1>5, <1>6 DEF TxLeaf
<1>8. QED
  BY <1>1, <1>7

LEMMA SpentLeaf ==
    ASSUME RootBefore, NEW kind \in SpendKinds, NEW script, SpendSend(kind, script)
    PROVE  nTx' = nTx + 1 /\ TxLeaf(nTx)'
<1> PICK x : x = nTx + 1
  OBVIOUS
<1> PICK c : c = LiveCell
  OBVIOUS
<1> DEFINE new == [kind |-> kind, ref |-> LiveCell, by |-> 0, leaf |-> RootAt(Height),
                   upd |-> {}, script |-> script, status |-> "pool"]
<1>1. tx' = [tx EXCEPT ![x] = new] /\ nTx' = x /\ nTx < MaxTxs
  BY DEF SpendSend
<1>2. c \in TxIds /\ c <= nTx /\ nTx \in Nat
  BY RootBeforeHas, NetTyped DEF LiveCell
<1>3. /\ new.ref = c /\ new.upd = {} /\ new.kind # "update"
      /\ \A a \in Accounts : new.leaf[a] = tx[c].leaf[a]
  BY DEF SpendKinds, RootAt, LiveCell
<1> HIDE DEF new
<1>4. x \in TxIds /\ x > nTx
  BY <1>1, <1>2, BoundsTyped DEF TxIds
<1>5. tx'[x] = new /\ tx'[c] = tx[c]
  BY <1>1, <1>2, <1>4, RootBeforeHas DEF TypeOK, NodeTypeOK
<1>6. tx'[x].ref = c /\ c <= nTx'
  BY <1>1, <1>2, <1>3, <1>4, <1>5 DEF TxIds
<1>7. \A a \in Accounts : tx'[x].leaf[a] = tx'[c].leaf[a]
  BY <1>3, <1>5
<1>8. tx'[x].upd = {} /\ tx'[x].kind # "update"
  BY <1>3, <1>5
<1>9. TxLeaf(x)'
  BY <1>6, <1>7, <1>8 DEF TxLeaf
<1>10. QED
  BY <1>1, <1>9

LEMMA NobodyElse == ASSUME RootBefore, NEW a \in Accounts PROVE ~ ForeignCommit(a)
BY RootBeforeHas DEF ForeignCommit, RootBefore, TypeOK, MemoryTypeOK

\* What a step does to the node.
LEMMA NodeSteps ==
    ASSUME RootBefore, [Next]_vars
    PROVE  /\ nTx' = nTx \/ (nTx' = nTx + 1 /\ TxLeaf(nTx)')
           /\ chain' = chain \/ \E x \in TxIds : CommitTx(x)
           /\ synced' = synced \/ (SyncInfo /\ chain' = chain)
<1>1. CASE Handlers
  <2>1. Kinds \subseteq SpendKinds
    BY SmtTaskAssumption DEF SmtTaskAssumption
  <2>2. chain' = chain /\ synced' = synced
    BY <1>1 DEF Handlers, Request, SpendSend, SpendCreateTask, net
  <2>3. nTx' = nTx \/ (nTx' = nTx + 1 /\ TxLeaf(nTx)')
    <3>1. (\E a \in Accounts : Request(a)) \/ SpendCreateTask => nTx' = nTx
      BY DEF Request, SpendCreateTask, net
    <3>2. QED
      BY <1>1, <2>1, <3>1, SpentLeaf DEF Handlers
  <2>4. QED
    BY <2>2, <2>3
<1>2. CASE Updater \/ UpdFail
  <2>1. UpdBuild \/ nTx' = nTx
    BY <1>2 DEF Updater, UpdFail, UpdRollbackWriting, UpdCloseStale, UpdPassNonce,
       UpdCheckInProgress, UpdCheckLiveCell, UpdDiffScript, UpdLock, UpdStartWrite, UpdWriteSmt,
       UpdSend, UpdMarkPending, net
  <2>2. chain' = chain /\ synced' = synced
    BY <1>2 DEF Updater, UpdFail, UpdRollbackWriting, UpdCloseStale, UpdPassNonce,
       UpdCheckInProgress, UpdCheckLiveCell, UpdDiffScript, UpdLock, UpdStartWrite, UpdWriteSmt,
       UpdBuild, UpdSend, UpdMarkPending, net, UpdUnchanged
  <2>3. QED
    BY <2>1, <2>2, BuiltLeaf
<1>3. CASE Environment
  BY <1>3, NobodyElse DEF Environment, CommitTx, RejectTx, SyncInfo, Crash, LockExpire, net
<1>4. CASE doUpdateDistribution \/ doCheckTx \/ UNCHANGED vars
  BY <1>4 DEF doUpdateDistribution, doCheckTx, net, vars
<1>5. CASE Rollbacker \/ RbFail
  BY <1>5 DEF Rollbacker, RbFail, RbRead, RbLock, RbWrite, RbFinish, RbUnchanged, net
<1>6. CASE Confirmer \/ CfFail
  BY <1>6 DEF Confirmer, CfFail, CfRead, CfLock, CfWrite, CfFinish, CfUnchanged, net
<1>7. CASE Parser
  BY <1>7 DEF Parser, ParseOwnUpdate, ParseOtherUpdate, ParseNoLeaf, ParseChannelProfit,
     ParserStoreBlock, ParseUnchanged, net
<1>8. QED
  BY <1>1, <1>2, <1>3, <1>4, <1>5, <1>6, <1>7 DEF Next

\* A block changes accounts of the busy task only, or none.
LEMMA CommitLeaf ==
    ASSUME RootBefore, NEW x \in TxIds, CommitTx(x)
    PROVE  /\ UNCHANGED <<task, recs, smt, upd, rb, cf, lock, synced>>
           /\ Height' = Height + 1 /\ chain'[Height + 1] = x /\ x <= nTx
           /\ Root' \in [Accounts -> Versions]
           /\ \A a \in Accounts : Root'[a] = Root[a]
                \/ (tx[x].by \in TaskIds /\ \E r \in DefaultOf(tx[x].by) : r.acc = a)
           /\ tx[x].by = 0 => Root' = Root
           /\ tx[x].by # 0 => tx[x].by \in TaskIds /\ InFlight(tx[x].by)
                              /\ task[tx[x].by].smt # NeedToRollback
<1> PICK b : b = tx[x].by
  OBVIOUS
<1> PICK c : c = LiveCell
  OBVIOUS
<1>1. /\ tx[x].status = "pool" /\ tx[x].ref = c /\ chain' = Append(chain, x)
      /\ UNCHANGED <<task, recs, smt, upd, rb, cf, lock, synced, nTx>>
  BY DEF CommitTx, EnvUnchanged, db
<1>2. Height' = Height + 1 /\ chain'[Height + 1] = x
  BY <1>1, RootBeforeHas DEF TypeOK, NodeTypeOK, Height
<1>3. x <= nTx /\ nTx \in Nat
  BY <1>1, RootBeforeHas, NetTyped DEF SmtInv0, TxsOk, TxOk
<1>4. SameTx(x)
  BY <1>3 DEF RootBefore, NetGrows
<1>5. Root' = tx[x].leaf
  BY <1>2, <1>4 DEF Root, RootAt, SameTx
<1>6. Root = tx[c].leaf /\ Root \in [Accounts -> Versions] /\ tx[x].leaf \in [Accounts -> Versions]
      /\ tx[x].upd \subseteq Accounts /\ c # 0
  BY RootBeforeHas, NetTyped, ChainTyped DEF Root, RootAt, LiveCell, TypeOK, NodeTypeOK, Tx
<1>7. /\ \A a \in Accounts \ tx[x].upd : tx[x].leaf[a] = Root[a]
      /\ b = 0 => tx[x].upd = {}
  BY <1>1, <1>3, <1>6 DEF RootBefore, RootInv, NetInv, TxLeaves, TxLeaf
<1>8. b = 0 => Root' = Root
  BY <1>5, <1>6, <1>7
<1>9. ASSUME b # 0
      PROVE  /\ b \in TaskIds /\ InFlight(b) /\ task[b].smt # NeedToRollback
             /\ \A a \in tx[x].upd : \E r \in DefaultOf(b) : r.acc = a
  <2>1. b \in TaskIds
    BY <1>9, RootBeforeHas, BoundsTyped DEF TypeOK, NodeTypeOK, Tx, TaskIds
  <2>2. /\ task[b].out = x
        /\ \/ Of(b, "Delegate", WriteComplete, Pending)
           \/ Of(b, "Delegate", Writing, UnSend) /\ upd.pc = "mark" /\ upd.t = b
    BY <1>1, <1>9 DEF RootBefore, SmtInv, Linked, LinkedTx, Live
  <2>3. Sent(b) /\ InFlight(b) /\ task[b].smt # NeedToRollback
    BY <2>2 DEF Sent, InFlight, At, Of, Writing, WriteComplete, NeedToRollback
  <2>4. Asked(b, x)
    BY <2>1, <2>2, <2>3 DEF RootBefore, RecInv, TasksOk, RecordsMatch
  <2>5. QED
    BY <2>1, <2>3, <2>4 DEF Asked
<1>10. \A a \in Accounts : Root'[a] = Root[a] \/ (b \in TaskIds /\ \E r \in DefaultOf(b) : r.acc = a)
  BY <1>5, <1>7, <1>9
<1>11. QED
  BY <1>1, <1>2, <1>3, <1>5, <1>6, <1>8, <1>9, <1>10

\* A rollback or a confirmation ends it.
LEMMA BusyEnds ==
    ASSUME RootBefore, Moves, NEW u \in TaskIds, Busy(u), ~ Busy(u)'
    PROVE  Undone(u) \/ Confirmed(u)
<1>1. RowMoves(u) /\ FromDistribution(u)
  BY RootBeforeHas DEF Moves, Busy, InFlight, Taken
<1>2. ~ SameRowAs(u)
  BY DEF SameRowAs, Busy, InFlight, Taken, At, Of, FromDistribution
<1>3. ~ (u > nTask)
  BY <1>1, RootBeforeHas, NextRow
<1>4. ~ Starts(u)
  BY DEF Starts, Busy, InFlight, Taken, At, Of, NeedToWrite, Writing, WriteComplete,
     NeedToRollback
<1>5. ~ Drops(u) /\ ~ Flies(u) /\ ~ Takes(u)
  BY DEF Drops, Flies, Takes, Busy
<1>6. QED
  BY <1>1, <1>2, <1>3, <1>4, <1>5 DEF RowMoves

\* What the syncer has not seen is of tasks that are neither undone nor confirmed.
LEMMA UnsyncedBusy ==
    ASSUME RootBefore, Moves, NEW h \in synced + 1 .. Height, h \in 1..Height
    PROVE  \A b : b = tx[chain[h]].by /\ b # 0 => Busy(b)'
<1> PICK x : x = chain[h]
  OBVIOUS
<1> SUFFICES ASSUME NEW b, b = tx[x].by, b # 0 PROVE Busy(b)'
  OBVIOUS
<1>1. x \in TxIds /\ tx[x].status = "committed" /\ synced \in Nat /\ h > synced
  <2>1. synced \in Nat /\ Height \in Nat
    BY RootBeforeHas, NetTyped DEF TypeOK, DatabaseTypeOK
  <2>2. x \in TxIds /\ tx[x].status = "committed"
    BY RootBeforeHas, NetTyped
  <2>3. QED
    BY <2>1, <2>2
<1>2. Busy(b)
  BY DEF RootBefore, RootInv, NetInv, Unsynced
<1>3. b \in TaskIds
  BY <1>1, RootBeforeHas, TxTyped
<1>4. /\ task[b].out = x
      /\ \/ Of(b, "Delegate", WriteComplete, Pending)
         \/ task[b].type = "Chain" /\ FromDistribution(b)
         \/ Of(b, "Delegate", Writing, UnSend)
  BY <1>1 DEF RootBefore, SmtInv, Linked, LinkedTx, Live
<1>5. ~ Undone(b)
  BY <1>4 DEF Undone, InFlight, Of, Writing, WriteComplete, NeedToRollback
<1>6. ASSUME Confirmed(b) PROVE FALSE
  <2>1. cf.t = b /\ cf.pc # "idle" /\ FromDistribution(b)
    BY <1>6 DEF Confirmed, CfFinish, Taken
  <2>2. task[b].bn <= synced /\ task[b].type = "Chain"
    BY <1>6, <2>1 DEF RootBefore, RootInv, WorkInv, CfTask, Confirmed, Taken, Of
  <2>3. PICK g \in 1..Height : RowOfBlock(b, g)
    BY <1>3, <2>1, <2>2 DEF RootBefore, RecInv, ParsedOk, ParserRow
  <2>4. g = h /\ task[b].bn = h
    BY <1>4, <2>1, <2>3 DEF RowOfBlock, RootBefore, RecInv, CellsOk
  <2>5. QED
    BY <1>1, <2>2, <2>4
<1>7. QED
  BY <1>2, <1>3, <1>5, <1>6, BusyEnds

LEMMA NextNet ==
    ASSUME RootBefore, Moves, [Next]_vars
    PROVE  NetInv'
<1>1. /\ Height \in Nat \ {0} /\ nTx \in Nat /\ nTx' \in Nat /\ nTx <= nTx'
      /\ synced \in 1..Height /\ synced' \in 1..Height' /\ Height' \in Nat
  BY RootBeforeHas, NetTyped DEF RootBefore, NetGrows, ChainGrows, TypeOK, DatabaseTypeOK,
     NodeTypeOK, TxIds
<1>2. \A x \in TxIds : x <= nTx => SameTx(x) /\ TxLeaf(x)
  BY DEF RootBefore, NetGrows, RootInv, NetInv, TxLeaves
<1>3. \A h \in 1..Height : /\ chain[h] \in TxIds /\ chain'[h] = chain[h] /\ SameTx(chain[h])
                           /\ RootAt(h)' = RootAt(h)
  BY <1>2, RootBeforeHas, NetTyped DEF RootBefore, NetGrows, ChainGrows, RootAt, SameTx
<1>4. TxLeaves'
  <2> SUFFICES ASSUME NEW x \in TxIds, x <= nTx' PROVE TxLeaf(x)'
    BY DEF TxLeaves
  <2>1. CASE x <= nTx
    <3>1. tx[x].ref \in Nat /\ (tx[x].ref # 0 => tx[x].ref \in TxIds)
      BY RootBeforeHas, TxTyped
    <3>2. \A c : c = tx[x].ref /\ c # 0 => SameTx(c)
      BY <1>2, <2>1, <3>1 DEF TxLeaf
    <3>3. QED
      BY <1>1, <1>2, <2>1, <3>1, <3>2, SameLeaf
  <2>2. CASE ~ (x <= nTx)
    <3>1. nTx' = nTx + 1 /\ x = nTx'
      BY <1>1, <2>2, NodeSteps DEF TxIds
    <3>2. TxLeaf(nTx)'
      BY <1>1, <3>1, NodeSteps
    <3>3. QED
      BY <3>1, <3>2
  <2>3. QED
    BY <2>1, <2>2
<1>5. CASE chain' = chain
  <2>1. Height' = Height /\ Root' = Root /\ synced <= synced'
    <3>1. Height' = Height
      BY <1>5 DEF Height
    <3>2. Root' = Root
      BY <1>1, <1>3, <3>1 DEF Root, RootAt
    <3>3. synced <= synced'
      BY <1>1, NodeSteps DEF SyncInfo
    <3>4. QED
      BY <3>1, <3>2, <3>3
  <2>2. LeavesStay'
    <3> SUFFICES ASSUME NEW g \in 1..Height,
                        \A h \in g + 1 .. Height : tx'[chain'[h]].by = 0
                 PROVE  RootAt(g) = Root
      BY <1>3, <2>1 DEF LeavesStay
    <3>1. \A h \in g + 1 .. Height : h \in 1..Height
      BY <1>1
    <3>2. \A h \in g + 1 .. Height : tx[chain[h]].by = 0
      BY <1>3, <3>1 DEF SameTx
    <3>3. QED
      BY <3>2 DEF RootBefore, RootInv, NetInv, LeavesStay
  <2>3. Unsynced'
    <3>0. PICK s : s = synced'
      OBVIOUS
    <3> SUFFICES ASSUME NEW h \in s + 1 .. Height
                 PROVE  \A b : b = tx'[chain'[h]].by /\ b # 0 => Busy(b)'
      BY <2>1, <3>0 DEF Unsynced
    <3>1. h \in synced + 1 .. Height /\ h \in 1..Height
      <4>1. synced \in Nat /\ s \in Nat /\ Height \in Nat /\ synced <= s
        BY <1>1, <2>1, <3>0
      <4>2. QED
        BY <4>1
    <3>2. \A b : b = tx[chain[h]].by /\ b # 0 => Busy(b)'
      BY <3>1, UnsyncedBusy
    <3>3. tx'[chain'[h]].by = tx[chain[h]].by
      BY <1>3, <3>1 DEF SameTx
    <3>4. QED
      BY <3>2, <3>3
  <2>4. QED
    BY <1>4, <2>2, <2>3 DEF NetInv
<1>6. ASSUME NEW x \in TxIds, CommitTx(x) PROVE NetInv'
  <2>1. /\ UNCHANGED <<task, synced>> /\ Height' = Height + 1 /\ chain'[Height + 1] = x /\ x <= nTx
        /\ tx[x].by = 0 => Root' = Root
        /\ tx[x].by # 0 => tx[x].by \in TaskIds /\ InFlight(tx[x].by)
    BY <1>6, CommitLeaf
  <2>2. SameTx(x) /\ tx'[x].by = tx[x].by
    BY <1>2, <2>1 DEF SameTx
  <2>3. LeavesStay'
    <3> SUFFICES ASSUME NEW g \in 1..Height',
                        \A h \in g + 1 .. Height' : tx'[chain'[h]].by = 0
                 PROVE  RootAt(g)' = Root'
      BY DEF LeavesStay
    <3>1. CASE g = Height + 1
      BY <2>1, <3>1 DEF Root, RootAt
    <3>2. CASE g # Height + 1
      <4>1. g \in 1..Height /\ Height + 1 \in g + 1 .. Height'
        BY <1>1, <2>1, <3>2
      <4>2. tx[x].by = 0
        BY <2>1, <2>2, <4>1
      <4>3. \A h \in g + 1 .. Height : h \in 1..Height /\ h \in g + 1 .. Height'
        BY <1>1, <2>1, <4>1
      <4>4. \A h \in g + 1 .. Height : tx[chain[h]].by = 0
        BY <1>3, <4>3 DEF SameTx
      <4>5. RootAt(g) = Root
        BY <4>1, <4>4 DEF RootBefore, RootInv, NetInv, LeavesStay
      <4>6. QED
        BY <1>3, <2>1, <4>1, <4>2, <4>5
    <3>3. QED
      BY <3>1, <3>2
  <2>4. Unsynced'
    <3> SUFFICES ASSUME NEW h \in synced' + 1 .. Height'
                 PROVE  \A b : b = tx'[chain'[h]].by /\ b # 0 => Busy(b)'
      BY DEF Unsynced
    <3>1. CASE h = Height + 1
      <4>1. \A b : b = tx[x].by /\ b # 0 => b \in TaskIds /\ Busy(b)
        BY <2>1 DEF Busy
      <4>2. \A b : b = tx[x].by /\ b # 0 => Busy(b)'
        BY <2>1, <4>1, RowSameMoves
      <4>3. QED
        BY <2>1, <2>2, <3>1, <4>2
    <3>2. CASE h # Height + 1
      <4>1. h \in synced + 1 .. Height /\ h \in 1..Height
        BY <1>1, <2>1, <3>2
      <4>2. \A b : b = tx[chain[h]].by /\ b # 0 => Busy(b)'
        BY <4>1, UnsyncedBusy
      <4>3. tx'[chain'[h]].by = tx[chain[h]].by
        BY <1>3, <4>1 DEF SameTx
      <4>4. QED
        BY <4>2, <4>3
    <3>3. QED
      BY <3>1, <3>2
  <2>5. QED
    BY <1>4, <2>3, <2>4 DEF NetInv
<1>7. QED
  BY <1>5, <1>6, NodeSteps

-----------------------------------------------------------------------------
(* What the workers hold, and the SMT server *)

LEMMA RootMoves ==
    ASSUME RootBefore, [Next]_vars
    PROVE  Root' = Root \/ \E x \in TxIds : CommitTx(x)
<1>1. CASE chain' = chain
  <2>1. Height' = Height /\ Height \in 1..Height /\ chain[Height] <= nTx /\ chain[Height] \in TxIds
    BY <1>1, RootBeforeHas, NetTyped DEF Height
  <2>2. SameTx(chain[Height])
    <3> PICK x : x = chain[Height]
      OBVIOUS
    <3>1. SameTx(x)
      BY <2>1 DEF RootBefore, NetGrows
    <3>2. QED
      BY <3>1 DEF SameTx
  <2>3. QED
    BY <1>1, <2>1, <2>2 DEF Root, RootAt, SameTx
<1>2. QED
  BY <1>1, NodeSteps

\* Nothing of a task that is rolled back or confirmed gets on chain meanwhile.
LEMMA RootStays ==
    ASSUME RootBefore, [Next]_vars, NEW t \in TaskIds, Busy(t),
           task[t].smt = NeedToRollback \/ Taken(t)
    PROVE  Root' = Root
<1>1. ASSUME NEW x \in TxIds, CommitTx(x) PROVE Root' = Root
  <2> PICK b : b = tx[x].by
    OBVIOUS
  <2>1. /\ b = 0 => Root' = Root
        /\ b # 0 => b \in TaskIds /\ InFlight(b) /\ task[b].smt # NeedToRollback
    BY <1>1, CommitLeaf
  <2>2. CASE b # 0
    <3>1. b = t
      BY <2>1, <2>2 DEF Busy, RootBefore, RootInv, BusyInv, OneBusy
    <3>2. QED
      BY <2>1, <2>2, <3>1 DEF InFlight, Taken, Of
  <2>3. QED
    BY <2>1, <2>2
<1>2. QED
  BY <1>1, RootMoves

\* What the syncer knows is then what the live cell says.
LEMMA InfoIsRoot ==
    ASSUME RootBefore, NEW t \in TaskIds, Busy(t),
           task[t].smt = NeedToRollback \/ (Taken(t) /\ task[t].bn <= synced)
    PROVE  /\ \A a \in Accounts : Info(a) = Root[a]
           /\ \A a \in Accounts : Root[a] \in Versions
<1>1. synced \in 1..Height /\ synced \in Nat /\ Height \in Nat
  BY RootBeforeHas, NetTyped DEF TypeOK, DatabaseTypeOK
<1>2. ASSUME NEW h \in synced + 1 .. Height PROVE tx[chain[h]].by = 0
  <2> PICK x : x = chain[h]
    OBVIOUS
  <2> PICK b : b = tx[x].by
    OBVIOUS
  <2> SUFFICES ASSUME b # 0 PROVE FALSE
    OBVIOUS
  <2>1. h \in 1..Height /\ h > synced
    BY <1>1
  <2>2. x \in TxIds /\ tx[x].status = "committed"
    BY <2>1, RootBeforeHas, NetTyped
  <2>3. b \in TaskIds /\ Busy(b)
    BY <2>2, RootBeforeHas, TxTyped DEF RootBefore, RootInv, NetInv, Unsynced
  <2>4. /\ task[b].out = x
        /\ \/ Of(b, "Delegate", WriteComplete, Pending)
           \/ task[b].type = "Chain" /\ FromDistribution(b)
           \/ Of(b, "Delegate", Writing, UnSend)
    BY <2>2 DEF RootBefore, SmtInv, Linked, LinkedTx, Live
  <2>5. b = t
    BY <2>3 DEF RootBefore, RootInv, BusyInv, OneBusy
  <2>6. /\ task[t].out = x
        /\ \/ Of(t, "Delegate", WriteComplete, Pending)
           \/ task[t].type = "Chain" /\ FromDistribution(t)
           \/ Of(t, "Delegate", Writing, UnSend)
    BY <2>4, <2>5
  <2>7. CASE task[t].smt = NeedToRollback
    <3>1. FromDistribution(t) /\ OurRow(t)
      BY RootBeforeHas DEF Busy, InFlight, Taken
    <3>2. QED
      BY <2>6, <2>7, <3>1 DEF OurRow, Of, Writing, WriteComplete, NeedToRollback, NeedToWrite
  <2>8. CASE Taken(t) /\ task[t].bn <= synced
    <3>1. ParserRow(t) /\ FromDistribution(t)
      BY <2>8 DEF ParserRow, Taken, Of
    <3>2. PICK g \in 1..Height : RowOfBlock(t, g)
      BY <3>1 DEF RootBefore, RecInv, ParsedOk
    <3>3. g = h /\ task[t].bn = h
      BY <2>1, <2>6, <3>1, <3>2 DEF RowOfBlock, RootBefore, RecInv, CellsOk
    <3>4. QED
      BY <1>1, <2>1, <2>8, <3>3
  <2>9. QED
    BY <2>7, <2>8
<1>3. RootAt(synced) = Root
  BY <1>1, <1>2 DEF RootBefore, RootInv, NetInv, LeavesStay
<1>4. Height \in 1..Height
  BY RootBeforeHas, NetTyped
<1>5. QED
  BY <1>3, <1>4, RootBeforeHas, ChainTyped DEF Info, Root

\* Writing what a worker holds of the busy task restores the root.
LEMMA Restored ==
    ASSUME RootBefore, NEW t \in TaskIds, Busy(t), NEW rs, NEW val,
           \A r \in RecordsOf(t) : r.type # "Closed" => r \in rs,
           \A a \in Accounts : val[a] = Root[a] \/ (val[a] = -1 /\ a \notin AccountsOf(rs)),
           smt' = [a \in Accounts |-> IF val[a] = -1 THEN smt[a] ELSE val[a]]
    PROVE  smt' = Root
<1>1. Root \in [Accounts -> Versions]
  BY RootBeforeHas, NetTyped, ChainTyped DEF Root
<1>2. \A a \in Accounts : Root[a] # -1
  BY <1>1 DEF Versions
<1>3. ASSUME NEW a \in Accounts, a \notin AccountsOf(rs) PROVE smt[a] = Root[a]
  <2>1. ASSUME NEW u \in TaskIds, Busy(u), HasRecord(u, a) PROVE FALSE
    <3>1. u = t
      BY <2>1 DEF RootBefore, RootInv, BusyInv, OneBusy
    <3>2. PICK r \in RecordsOf(t) : r.acc = a /\ r.type # "Closed"
      BY <2>1, <3>1 DEF HasRecord
    <3>3. QED
      BY <1>3, <3>2 DEF AccountsOf
  <2>2. QED
    BY <2>1 DEF AtWork, RootBefore, RootInv, WorkInv, RestFollows
<1>4. \A a \in Accounts : smt'[a] = Root[a]
  BY <1>2, <1>3
<1>5. QED
  BY <1>1, <1>4

LEMMA SmtSteps ==
    ASSUME [Next]_vars
    PROVE  smt' = smt \/ UpdWriteSmt \/ RbWrite \/ CfWrite
<1>1. CASE Handlers \/ Environment \/ Parser
  BY <1>1 DEF Handlers, Request, SpendSend, SpendCreateTask, Environment, CommitTx, RejectTx,
     ForeignCommit, SyncInfo, Crash, LockExpire, EnvUnchanged, Parser, ParseOwnUpdate,
     ParseOtherUpdate, ParseNoLeaf, ParseChannelProfit, ParserStoreBlock, ParseUnchanged
<1>2. CASE Updater \/ UpdFail
  BY <1>2 DEF Updater, UpdFail, UpdRollbackWriting, UpdCloseStale, UpdPassNonce,
     UpdCheckInProgress, UpdCheckLiveCell, UpdDiffScript, UpdLock, UpdStartWrite, UpdBuild,
     UpdSend, UpdMarkPending
<1>3. CASE Rollbacker \/ RbFail \/ Confirmer \/ CfFail
  BY <1>3 DEF Rollbacker, RbFail, RbRead, RbLock, RbFinish, Confirmer, CfFail, CfRead, CfLock,
     CfFinish
<1>4. CASE doUpdateDistribution \/ doCheckTx \/ UNCHANGED vars
  BY <1>4 DEF doUpdateDistribution, doCheckTx, vars
<1>5. QED
  BY <1>1, <1>2, <1>3, <1>4 DEF Next

\* A worker that is done with the SMT server still holds the lock.
LEMMA SmtHeld ==
    ASSUME RootBefore, [Next]_vars, rb.pc = "finish" \/ cf.pc = "finish"
    PROVE  smt' = smt
BY SmtSteps DEF UpdWriteSmt, RbWrite, CfWrite, RootBefore, LockMutex, UpdLocked, RbLocked, CfLocked

LEMMA RbSteps ==
    ASSUME [Next]_vars
    PROVE  rb' = rb \/ rb'.pc = "idle" \/ RbLock \/ RbWrite \/ \E t \in TaskIds : RbRead(t)
<1>1. CASE Handlers \/ Environment \/ Parser
  <2>1. Crash => rb'.pc = "idle"
    BY DEF Crash, WorkIdle
  <2>2. Handlers \/ Parser \/ (Environment /\ ~ Crash) => rb' = rb
    BY DEF Handlers, Request, SpendSend, SpendCreateTask, Environment, CommitTx, RejectTx,
       ForeignCommit, SyncInfo, LockExpire, EnvUnchanged, Parser, ParseOwnUpdate,
       ParseOtherUpdate, ParseNoLeaf, ParseChannelProfit, ParserStoreBlock, ParseUnchanged
  <2>3. QED
    BY <1>1, <2>1, <2>2
<1>2. CASE Updater \/ UpdFail
  BY <1>2 DEF Updater, UpdFail, UpdRollbackWriting, UpdCloseStale, UpdPassNonce,
     UpdCheckInProgress, UpdCheckLiveCell, UpdDiffScript, UpdLock, UpdStartWrite, UpdWriteSmt,
     UpdBuild, UpdSend, UpdMarkPending, UpdUnchanged
<1>3. CASE Rollbacker \/ RbFail
  BY <1>3 DEF Rollbacker, RbFail, RbFinish, WorkIdle
<1>4. CASE Confirmer \/ CfFail
  BY <1>4 DEF Confirmer, CfFail, CfRead, CfLock, CfWrite, CfFinish, CfUnchanged
<1>5. CASE doUpdateDistribution \/ doCheckTx \/ UNCHANGED vars
  BY <1>5 DEF doUpdateDistribution, doCheckTx, vars
<1>6. QED
  BY <1>1, <1>2, <1>3, <1>4, <1>5 DEF Next

LEMMA CfSteps ==
    ASSUME [Next]_vars
    PROVE  cf' = cf \/ cf'.pc = "idle" \/ CfLock \/ CfWrite \/ \E t \in TaskIds : CfRead(t)
<1>1. CASE Handlers \/ Environment \/ Parser
  <2>1. Crash => cf'.pc = "idle"
    BY DEF Crash, WorkIdle
  <2>2. Handlers \/ Parser \/ (Environment /\ ~ Crash) => cf' = cf
    BY DEF Handlers, Request, SpendSend, SpendCreateTask, Environment, CommitTx, RejectTx,
       ForeignCommit, SyncInfo, LockExpire, EnvUnchanged, Parser, ParseOwnUpdate,
       ParseOtherUpdate, ParseNoLeaf, ParseChannelProfit, ParserStoreBlock, ParseUnchanged
  <2>3. QED
    BY <1>1, <2>1, <2>2
<1>2. CASE Updater \/ UpdFail
  BY <1>2 DEF Updater, UpdFail, UpdRollbackWriting, UpdCloseStale, UpdPassNonce,
     UpdCheckInProgress, UpdCheckLiveCell, UpdDiffScript, UpdLock, UpdStartWrite, UpdWriteSmt,
     UpdBuild, UpdSend, UpdMarkPending, UpdUnchanged
<1>3. CASE Confirmer \/ CfFail
  BY <1>3 DEF Confirmer, CfFail, CfFinish, WorkIdle
<1>4. CASE Rollbacker \/ RbFail
  BY <1>4 DEF Rollbacker, RbFail, RbRead, RbLock, RbWrite, RbFinish, RbUnchanged
<1>5. CASE doUpdateDistribution \/ doCheckTx \/ UNCHANGED vars
  BY <1>5 DEF doUpdateDistribution, doCheckTx, vars
<1>6. QED
  BY <1>1, <1>2, <1>3, <1>4, <1>5 DEF Next

LEMMA OriginStays ==
    ASSUME Moves, NEW t \in TaskIds, ~ (t > nTask)
    PROVE  FromDistribution(t)' <=> FromDistribution(t)
<1>1. RowMoves(t)
  BY DEF Moves
<1>2. CASE SameRowAs(t)
  BY <1>2 DEF SameRowAs, FromDistribution
<1>3. QED
  BY <1>1, <1>2 DEF RowMoves

\* The rollback worker reads the leaves of the live cell ...
LEMMA RbReadRoots ==
    ASSUME RootBefore, Moves, [Next]_vars, NEW t \in TaskIds, RbRead(t)
    PROVE  RbWork'
<1>1. /\ rb' = [pc |-> "lock", t |-> t, val |-> InfoLeaves(RecordsOf(t))]
      /\ task' = task /\ recs' = recs
  BY DEF RbRead
<1>2. CASE FromDistribution(t)
  <2>1. task[t].smt = NeedToRollback /\ Busy(t)
    <3>1. task[t].smt = NeedToRollback /\ OurRow(t) /\ RowOk(t)
      BY RootBeforeHas DEF RbRead, GetNeedRollBackTaskList
    <3>2. task[t].type = "Delegate"
      <4>1. task[t].type # "Closed"
        BY <3>1 DEF RowOk, Of, NeedToRollback, NeedToWrite
      <4>2. QED
        BY <1>2, <3>1, <4>1 DEF OurRow, NeedToRollback, NeedToWrite, WriteComplete
    <3>3. QED
      BY <3>1, <3>2 DEF Busy, InFlight
  <2>2. Root' = Root /\ \A a \in Accounts : Info(a) = Root[a]
    BY <2>1, RootStays, InfoIsRoot
  <2>3. \A a \in Accounts :
          rb'.val[a] = Root'[a] \/ (rb'.val[a] = -1 /\ a \notin AccountsOf(DefaultOf(t)'))
    BY <1>1, <2>2 DEF InfoLeaves, AccountsOf, DefaultOf, RecordsOf
  <2>4. FromDistribution(t)' /\ rb'.t = t /\ rb'.pc = "lock"
    BY <1>1, <1>2 DEF FromDistribution
  <2>5. QED
    BY <2>3, <2>4 DEF RbWork, Restores, AccountsOf, DefaultOf, RecordsOf, FromDistribution
<1>3. CASE ~ FromDistribution(t)
  <2>1. RecordsOf(t) = {}
    BY <1>3 DEF RecordsOf, RootBefore, RootInv, Ours, TaskIds
  <2>2. rb'.val = NoVal
    BY <1>1, <2>1 DEF InfoLeaves, AccountsOf, NoVal
  <2>3. ~ FromDistribution(t)' /\ rb'.t = t
    BY <1>1, <1>3 DEF FromDistribution
  <2>4. QED
    BY <2>2, <2>3 DEF RbWork, FromDistribution
<1>4. QED
  BY <1>2, <1>3

\* ... and writes them.
LEMMA RbWriteRoots ==
    ASSUME RootBefore, RbWrite, FromDistribution(rb.t)
    PROVE  smt' = Root
<1> PICK t : t = rb.t
  OBVIOUS
<1>1. t \in TaskIds /\ Busy(t) /\ task[t].type = "Delegate"
  BY RbTaskRow DEF RbWrite
<1>2. \A r \in RecordsOf(t) : r.type # "Closed" => r \in DefaultOf(t)
  <2>1. ASSUME NEW r \in RecordsOf(t) PROVE r.type # "Chain"
    <3>1. Placed(r) /\ r.task = t
      BY DEF RecordsOf, RootBefore, RecInv, TasksOk, RecordsPlaced
    <3>2. QED
      BY <1>1, <3>1 DEF Placed, OnChainRow
  <2>2. QED
    BY <2>1, RecordTyped, RootBeforeHas DEF DefaultOf, RecordsOf
<1>3. \A a \in Accounts :
        rb.val[a] = Root[a] \/ (rb.val[a] = -1 /\ a \notin AccountsOf(DefaultOf(t)))
  BY DEF RbWrite, RootBefore, RootInv, WorkInv, RbWork, Restores
<1>4. smt' = [a \in Accounts |-> IF rb.val[a] = -1 THEN smt[a] ELSE rb.val[a]]
  BY DEF RbWrite
<1> PICK val : val = rb.val
  OBVIOUS
<1>5. QED
  BY <1>1, <1>2, <1>3, <1>4, Restored

\* Nothing is added to what it holds while it waits.
LEMMA DefaultStays ==
    ASSUME RootBefore, Moves, NEW t \in TaskIds, ~ (t > nTask)
    PROVE  \A q \in DefaultOf(t)' : q \in DefaultOf(t)
<1> SUFFICES ASSUME NEW q \in recs', q.task = t, q.type = "Default" PROVE q \in recs
  BY DEF DefaultOf, RecordsOf
<1>1. RecordMoves(q) /\ t # 0
  BY DEF Moves, TaskIds
<1>2. QED
  BY <1>1 DEF RecordMoves

LEMMA NextRbWork ==
    ASSUME RootBefore, Moves, [Next]_vars
    PROVE  RbWork'
<1> SUFFICES ASSUME rb'.pc # "idle", \A t \in TaskIds : ~ RbRead(t) PROVE RbWork'
  BY RbReadRoots DEF RbWork
<1> PICK t : t = rb.t
  OBVIOUS
<1>1. rb' = rb \/ RbLock \/ RbWrite
  BY RbSteps
<1>2. /\ rb.pc # "idle" /\ rb'.t = t /\ rb'.val = rb.val
      /\ rb'.pc = rb.pc \/ (RbLock /\ rb'.pc = "write") \/ (RbWrite /\ rb'.pc = "finish")
      /\ RbLock => rb.pc = "lock"
  BY <1>1, RootBeforeHas DEF RbLock, RbWrite, TypeOK, MemoryTypeOK
<1>3. /\ t \in TaskIds /\ ~ (t > nTask) /\ (FromDistribution(t)' <=> FromDistribution(t))
      /\ FromDistribution(t) => Busy(t) /\ task[t].smt = NeedToRollback
  <2>1. /\ t \in TaskIds /\ t <= nTask
        /\ FromDistribution(t) => Busy(t) /\ task[t].smt = NeedToRollback
    BY <1>2, RbTaskRow
  <2>2. ~ (t > nTask)
    BY <2>1, RootBeforeHas, NextRow
  <2>3. QED
    BY <2>1, <2>2, OriginStays
<1>4. CASE ~ FromDistribution(t)
  <2>1. rb'.val = NoVal
    BY <1>2, <1>4 DEF RootBefore, RootInv, WorkInv, RbWork
  <2>2. QED
    BY <1>2, <1>3, <1>4, <2>1 DEF RbWork, FromDistribution
<1>5. CASE FromDistribution(t)
  <2>1. Root' = Root
    BY <1>3, <1>5, RootStays
  <2>2. CASE rb'.pc = "finish"
    <3>1. smt' = Root
      <4>1. CASE RbWrite
        BY <1>5, <4>1, RbWriteRoots
      <4>2. CASE ~ RbWrite
        <5>1. rb.pc = "finish"
          BY <1>2, <2>2, <4>2
        <5>2. smt = Root
          BY <1>5, <5>1 DEF RootBefore, RootInv, WorkInv, RbWork
        <5>3. QED
          BY <5>1, <5>2, SmtHeld
      <4>3. QED
        BY <4>1, <4>2
    <3>2. QED
      BY <1>2, <1>3, <1>5, <2>1, <2>2, <3>1 DEF RbWork, FromDistribution
  <2>3. CASE rb'.pc # "finish"
    <3>1. rb.pc # "finish"
      BY <1>1, <1>2, <2>3
    <3>2. \A a \in Accounts :
            rb.val[a] = Root[a] \/ (rb.val[a] = -1 /\ a \notin AccountsOf(DefaultOf(t)))
      BY <1>2, <1>5, <3>1 DEF RootBefore, RootInv, WorkInv, RbWork, Restores
    <3>3. \A a \in Accounts :
            \/ rb'.val[a] = Root'[a]
            \/ rb'.val[a] = -1 /\ \A q \in DefaultOf(t)' : q.acc # a
      BY <1>2, <1>3, <2>1, <3>2, DefaultStays DEF AccountsOf
    <3> DEFINE Held(w) == \A a \in Accounts :
                            \/ w.val[a] = Root[a]
                            \/ w.val[a] = -1 /\ \A q \in DefaultOf(w.t) : q.acc # a
    <3>4. Held(rb)'
      BY <1>2, <3>3 DEF DefaultOf, RecordsOf
    <3>5. Restores(rb, DefaultOf(rb.t))'
      BY <3>4 DEF Restores, AccountsOf
    <3>6. QED
      BY <1>2, <1>3, <1>5, <2>3, <3>5 DEF RbWork, FromDistribution
  <2>4. QED
    BY <2>2, <2>3
<1>6. QED
  BY <1>4, <1>5

LEMMA ChainStays ==
    ASSUME RootBefore, Moves, NEW t \in TaskIds, Taken(t)
    PROVE  \A q \in ChainOf(t)' : q \in ChainOf(t)
<1> SUFFICES ASSUME NEW q \in recs', q.task = t, q.type = "Chain" PROVE q \in recs
  BY DEF ChainOf, RecordsOf
<1>1. RecordMoves(q) /\ t # 0
  BY DEF Moves, TaskIds
<1>2. QED
  BY <1>1 DEF RecordMoves, Taken, Of

LEMMA TakenStays ==
    ASSUME RootBefore, Moves, NEW t \in TaskIds, Taken(t), cf'.pc # "idle"
    PROVE  Taken(t)' /\ task'[t].bn = task[t].bn
<1>1. RowMoves(t) /\ FromDistribution(t)
  BY DEF Moves, Taken
<1>2. ~ (t > nTask)
  BY <1>1, RootBeforeHas, NextRow
<1>3. ~ Confirmed(t)
  BY DEF Confirmed, CfFinish, WorkIdle
<1>4. ~ Starts(t) /\ ~ Drops(t) /\ ~ Flies(t) /\ ~ Undone(t) /\ ~ Takes(t)
  BY DEF Starts, Drops, Flies, Undone, Takes, Taken, Of, Busy, InFlight
<1>5. SameRowAs(t)
  BY <1>1, <1>2, <1>3, <1>4 DEF RowMoves
<1>6. QED
  BY <1>5 DEF SameRowAs, Taken, Of, FromDistribution

\* The confirmer takes a task whose block the syncer has seen.
LEMMA CfReadTask ==
    ASSUME RootBefore, NEW t \in TaskIds, CfRead(t)
    PROVE  ~ (t > nTask) /\ (FromDistribution(t) => Taken(t) /\ task[t].bn <= synced)
<1>1. task[t].type # "Absent" /\ task[t].smt = NeedToWrite /\ task[t].tx = Committed
  BY DEF CfRead, GetNeedToConfirmOtherTx, At
<1>2. ~ (t > nTask)
  BY <1>1, RootBeforeHas, NextRow DEF NoRow
<1>3. ASSUME FromDistribution(t) PROVE Taken(t) /\ task[t].bn <= synced
  <2>1. OurRow(t) /\ RowOk(t)
    BY RootBeforeHas
  <2>2. Taken(t)
    BY <1>1, <1>3, <2>1 DEF OurRow, RowOk, Taken, Of, UnSend, Committed
  <2>3. PICK r \in ChainOf(t) : TRUE
    BY <2>2 DEF RootBefore, RootInv, Ours
  <2>4. HasSynced(r.acc, task[t].bn)
    BY <2>3 DEF CfRead, AccountsOf
  <2>5. PICK h \in task[t].bn .. synced : TRUE
    BY <2>4 DEF HasSynced
  <2>6. task[t].bn \in Nat /\ synced \in Nat
    BY RootBeforeHas, NetTyped DEF TypeOK, DatabaseTypeOK, Row
  <2>7. QED
    BY <2>2, <2>5, <2>6
<1>4. QED
  BY <1>2, <1>3

LEMMA NextGivesIds ==
    ASSUME TypeOK, [Next]_vars
    PROVE  nTask <= nTask'
<1>1. nTask \in Nat /\ MaxTasks \in Nat
  BY BoundsTyped DEF TypeOK, DatabaseTypeOK, TaskIds
<1>2. CASE Handlers \/ Parser
  <2>1. nTask' = nTask \/ nTask' = nTask + 1
    BY <1>2 DEF Handlers, Request, SpendSend, SpendCreateTask, db, Parser, ParseOwnUpdate,
       ParseOtherUpdate, ParseNoLeaf, ParseChannelProfit, ParserStoreBlock
  <2>2. QED
    BY <1>1, <2>1
<1>3. CASE doUpdateDistribution
  <2>1. PICK k \in 1 .. MaxTasks - nTask : nTask' = nTask + k
    BY <1>3 DEF doUpdateDistribution
  <2>2. QED
    BY <1>1, <2>1
<1>4. nTask' = nTask => nTask <= nTask'
  BY <1>1
<1>5. CASE Updater \/ UpdFail
  BY <1>4, <1>5 DEF Updater, UpdFail, UpdRollbackWriting, UpdCloseStale, UpdPassNonce,
     UpdCheckInProgress, UpdCheckLiveCell, UpdDiffScript, UpdLock, UpdStartWrite, UpdWriteSmt,
     UpdBuild, UpdSend, UpdMarkPending, UpdUnchanged
<1>6. CASE Rollbacker \/ RbFail \/ Confirmer \/ CfFail
  BY <1>4, <1>6 DEF Rollbacker, RbFail, RbRead, RbLock, RbWrite, RbFinish, RbUnchanged,
     Confirmer, CfFail, CfRead, CfLock, CfWrite, CfFinish, CfUnchanged
<1>7. CASE doCheckTx \/ Environment \/ UNCHANGED vars
  BY <1>4, <1>7 DEF doCheckTx, Environment, CommitTx, RejectTx, ForeignCommit, SyncInfo, Crash,
     LockExpire, EnvUnchanged, db, vars
<1>8. QED
  BY <1>2, <1>3, <1>5, <1>6, <1>7 DEF Next

LEMMA NextCfTask ==
    ASSUME RootBefore, Moves, [Next]_vars
    PROVE  CfTask'
<1> SUFFICES ASSUME cf'.pc # "idle"
             PROVE  /\ cf'.t <= nTask'
                    /\ FromDistribution(cf.t)' => (Taken(cf.t) /\ task[cf.t].bn <= synced)'
  BY DEF CfTask
<1>1. PICK t \in TaskIds : /\ cf'.t = t /\ t <= nTask
                           /\ FromDistribution(t) => Taken(t) /\ task[t].bn <= synced
  <2>1. CASE \E t \in TaskIds : CfRead(t)
    <3>1. PICK t \in TaskIds : CfRead(t)
      BY <2>1
    <3>2. cf'.t = t
      BY <3>1 DEF CfRead
    <3>3. nTask \in Nat /\ t \in Nat
      BY RootBeforeHas, NextRow
    <3>4. QED
      BY <3>1, <3>2, <3>3, CfReadTask
  <2>2. CASE ~ \E t \in TaskIds : CfRead(t)
    <3>1. cf' = cf \/ CfLock \/ CfWrite
      BY <2>2, CfSteps
    <3>2. cf'.t = cf.t /\ cf.pc # "idle"
      BY <3>1, RootBeforeHas DEF CfLock, CfWrite, TypeOK, MemoryTypeOK
    <3>3. cf.t \in TaskIds
      BY <3>2 DEF RootBefore, SmtInv, SmtInv0, StepsOK
    <3>4. QED
      BY <3>2, <3>3 DEF RootBefore, RootInv, WorkInv, CfTask
  <2>3. QED
    BY <2>1, <2>2
<1>2. /\ nTask \in Nat /\ nTask' \in Nat /\ nTask <= nTask' /\ t \in Nat
      /\ synced \in Nat /\ synced' \in Nat /\ synced <= synced' /\ task[t].bn \in Nat
  <2>1. nTask \in Nat /\ nTask' \in Nat /\ t \in Nat /\ synced \in Nat /\ synced' \in Nat
    <3>1. nTask \in Nat /\ t \in Nat /\ synced \in Nat /\ nTask' \in Nat
      BY RootBeforeHas, NextRow, NetTyped, BoundsTyped DEF TypeOK, DatabaseTypeOK, TaskIds
    <3>2. synced' = synced \/ synced' = synced + 1
      BY NodeSteps DEF SyncInfo
    <3>3. QED
      BY <3>1, <3>2
  <2>2. task[t].bn \in Nat
    BY RootBeforeHas DEF TypeOK, DatabaseTypeOK, Row
  <2>3. synced <= synced'
    BY <2>1, NodeSteps DEF SyncInfo
  <2>4. nTask <= nTask'
    BY RootBeforeHas, NextGivesIds
  <2>5. QED
    BY <2>1, <2>2, <2>3, <2>4
<1>3. FromDistribution(t)' => Taken(t)' /\ task'[t].bn <= synced'
  <2>1. FromDistribution(t)' <=> FromDistribution(t)
    BY <1>1, <1>2, OriginStays
  <2>2. QED
    BY <1>1, <1>2, <2>1, TakenStays
<1>4. QED
  BY <1>1, <1>2, <1>3 DEF FromDistribution, Taken, Of

\* The confirmer reads the leaves of the live cell ...
LEMMA CfReadRoots ==
    ASSUME RootBefore, Moves, [Next]_vars, NEW t \in TaskIds, CfRead(t)
    PROVE  CfWork'
<1>1. /\ cf' = [pc |-> "lock", t |-> t, val |-> InfoLeaves(ChainOf(t))]
      /\ task' = task /\ recs' = recs
  BY DEF CfRead, CfUnchanged
<1>2. CASE FromDistribution(t)
  <2>1. Taken(t) /\ task[t].bn <= synced /\ Busy(t)
    BY <1>2, CfReadTask DEF Busy
  <2>2. Root' = Root /\ \A a \in Accounts : Info(a) = Root[a]
    BY <2>1, RootStays, InfoIsRoot
  <2>3. \A a \in Accounts :
          cf'.val[a] = Root'[a] \/ (cf'.val[a] = -1 /\ a \notin AccountsOf(ChainOf(t)'))
    BY <1>1, <2>2 DEF InfoLeaves, AccountsOf, ChainOf, RecordsOf
  <2>4. FromDistribution(t)' /\ cf'.t = t /\ cf'.pc = "lock"
    BY <1>1, <1>2 DEF FromDistribution
  <2>5. QED
    BY <2>3, <2>4 DEF CfWork, Restores, AccountsOf, ChainOf, RecordsOf, FromDistribution
<1>3. CASE ~ FromDistribution(t)
  <2>1. ChainOf(t) = {}
    BY <1>3 DEF ChainOf, RecordsOf, RootBefore, RootInv, Ours, TaskIds
  <2>2. cf'.val = NoVal
    BY <1>1, <2>1 DEF InfoLeaves, AccountsOf, NoVal
  <2>3. ~ FromDistribution(t)' /\ cf'.t = t
    BY <1>1, <1>3 DEF FromDistribution
  <2>4. QED
    BY <2>2, <2>3 DEF CfWork, FromDistribution
<1>4. QED
  BY <1>2, <1>3

\* ... and writes them, unless the SMT server has them.
LEMMA CfWriteRoots ==
    ASSUME RootBefore, CfWrite, FromDistribution(cf.t)
    PROVE  smt' = Root
<1> PICK t : t = cf.t
  OBVIOUS
<1>1. t \in TaskIds /\ Busy(t) /\ task[t].type = "Chain"
  BY DEF CfWrite, RootBefore, RootInv, WorkInv, CfTask, Busy, Taken, Of, SmtInv, SmtInv0, StepsOK
<1>2. \A r \in RecordsOf(t) : r.type # "Closed" => r \in ChainOf(t)
  <2>1. ASSUME NEW r \in RecordsOf(t) PROVE r.type # "Default"
    <3>1. Placed(r) /\ r.task = t /\ t # 0
      BY <1>1 DEF RecordsOf, RootBefore, RecInv, TasksOk, RecordsPlaced, TaskIds
    <3>2. QED
      BY <1>1, <3>1 DEF Placed, Open
  <2>2. QED
    BY <2>1, RecordTyped, RootBeforeHas DEF ChainOf, RecordsOf
<1>3. \A a \in Accounts :
        cf.val[a] = Root[a] \/ (cf.val[a] = -1 /\ a \notin AccountsOf(ChainOf(t)))
  BY DEF CfWrite, RootBefore, RootInv, WorkInv, CfWork, Restores
<1>4. \/ smt' = smt /\ smt = Root
      \/ smt' = [a \in Accounts |-> IF cf.val[a] = -1 THEN smt[a] ELSE cf.val[a]]
  BY DEF CfWrite, Root
<1> PICK val : val = cf.val
  OBVIOUS
<1>5. QED
  BY <1>1, <1>2, <1>3, <1>4, Restored

LEMMA NextCfWork ==
    ASSUME RootBefore, Moves, [Next]_vars
    PROVE  CfWork'
<1> SUFFICES ASSUME cf'.pc # "idle", \A t \in TaskIds : ~ CfRead(t) PROVE CfWork'
  BY CfReadRoots DEF CfWork
<1> PICK t : t = cf.t
  OBVIOUS
<1>1. cf' = cf \/ CfLock \/ CfWrite
  BY CfSteps
<1>2. /\ cf.pc # "idle" /\ cf'.t = t /\ cf'.val = cf.val
      /\ cf'.pc = cf.pc \/ (CfLock /\ cf'.pc = "write") \/ (CfWrite /\ cf'.pc = "finish")
      /\ CfLock => cf.pc = "lock"
  BY <1>1, RootBeforeHas DEF CfLock, CfWrite, TypeOK, MemoryTypeOK
<1>3. /\ t \in TaskIds /\ ~ (t > nTask) /\ (FromDistribution(t)' <=> FromDistribution(t))
      /\ FromDistribution(t) => Busy(t) /\ Taken(t)
  <2>1. /\ t \in TaskIds /\ t <= nTask
        /\ FromDistribution(t) => Busy(t) /\ Taken(t)
    BY <1>2 DEF RootBefore, RootInv, WorkInv, CfTask, Busy, SmtInv, SmtInv0, StepsOK
  <2>2. ~ (t > nTask)
    BY <2>1, RootBeforeHas, NextRow
  <2>3. QED
    BY <2>1, <2>2, OriginStays
<1>4. CASE ~ FromDistribution(t)
  <2>1. cf'.val = NoVal
    BY <1>2, <1>4 DEF RootBefore, RootInv, WorkInv, CfWork
  <2>2. QED
    BY <1>2, <1>3, <1>4, <2>1 DEF CfWork, FromDistribution
<1>5. CASE FromDistribution(t)
  <2>1. Root' = Root
    BY <1>3, <1>5, RootStays
  <2>2. CASE cf'.pc = "finish"
    <3>1. smt' = Root
      <4>1. CASE CfWrite
        BY <1>5, <4>1, CfWriteRoots
      <4>2. CASE ~ CfWrite
        <5>1. cf.pc = "finish"
          BY <1>2, <2>2, <4>2
        <5>2. smt = Root
          BY <1>5, <5>1 DEF RootBefore, RootInv, WorkInv, CfWork
        <5>3. QED
          BY <5>1, <5>2, SmtHeld
      <4>3. QED
        BY <4>1, <4>2
    <3>2. QED
      BY <1>2, <1>3, <1>5, <2>1, <2>2, <3>1 DEF CfWork, FromDistribution
  <2>3. CASE cf'.pc # "finish"
    <3>1. cf.pc # "finish"
      BY <1>1, <1>2, <2>3
    <3>2. \A a \in Accounts :
            cf.val[a] = Root[a] \/ (cf.val[a] = -1 /\ a \notin AccountsOf(ChainOf(t)))
      BY <1>2, <1>5, <3>1 DEF RootBefore, RootInv, WorkInv, CfWork, Restores
    <3>3. \A a \in Accounts :
            \/ cf'.val[a] = Root'[a]
            \/ cf'.val[a] = -1 /\ \A q \in ChainOf(t)' : q.acc # a
      BY <1>2, <1>3, <1>5, <2>1, <3>2, ChainStays DEF AccountsOf
    <3> DEFINE Held(w) == \A a \in Accounts :
                            \/ w.val[a] = Root[a]
                            \/ w.val[a] = -1 /\ \A q \in ChainOf(w.t) : q.acc # a
    <3>4. Held(cf)'
      BY <1>2, <3>3 DEF ChainOf, RecordsOf
    <3>5. Restores(cf, ChainOf(cf.t))'
      BY <3>4 DEF Restores, AccountsOf
    <3>6. QED
      BY <1>2, <1>3, <1>5, <2>3, <3>5 DEF CfWork, FromDistribution
  <2>4. QED
    BY <2>2, <2>3
<1>6. QED
  BY <1>4, <1>5

-----------------------------------------------------------------------------
(* The accounts nobody works on *)

LEMMA NextRest ==
    ASSUME RootBefore, Moves, [Next]_vars
    PROVE  RestFollows'
<1> SUFFICES ASSUME NEW a \in Accounts, ~ AtWork(a)' PROVE smt'[a] = Root'[a]
  BY DEF RestFollows
<1>1. CASE AtWork(a)
  <2>1. PICK u \in TaskIds : Busy(u) /\ HasRecord(u, a)
    BY <1>1 DEF AtWork
  <2>2. ~ Busy(u)'
    BY <2>1 DEF AtWork, Moves, RecordsHeld
  <2>3. CASE Undone(u)
    <3>1. rb.pc = "finish" /\ u = rb.t /\ task[u].smt = NeedToRollback /\ FromDistribution(u)
      BY <2>3, RootBeforeHas DEF Undone, RbFinish, InFlight
    <3>2. smt = Root
      BY <3>1 DEF RootBefore, RootInv, WorkInv, RbWork
    <3>3. QED
      BY <2>1, <3>1, <3>2, SmtHeld, RootStays
  <2>4. CASE Confirmed(u)
    <3>1. cf.pc = "finish" /\ u = cf.t /\ Taken(u) /\ FromDistribution(u)
      BY <2>4 DEF Confirmed, CfFinish, Taken
    <3>2. smt = Root
      BY <3>1 DEF RootBefore, RootInv, WorkInv, CfWork
    <3>3. QED
      BY <2>1, <3>1, <3>2, SmtHeld, RootStays
  <2>5. QED
    BY <2>1, <2>2, <2>3, <2>4, BusyEnds
<1>2. CASE ~ AtWork(a)
  <2>1. smt[a] = Root[a]
    BY <1>2 DEF RootBefore, RootInv, WorkInv, RestFollows
  <2>2. ASSUME NEW x \in TxIds, CommitTx(x) PROVE smt' = smt /\ Root'[a] = Root[a]
    <3> PICK b : b = tx[x].by
      OBVIOUS
    <3>1. /\ smt' = smt
          /\ Root'[a] = Root[a] \/ (b \in TaskIds /\ \E r \in DefaultOf(b) : r.acc = a)
          /\ b # 0 => InFlight(b)
      BY <2>2, CommitLeaf
    <3>2. ASSUME b \in TaskIds, NEW r \in DefaultOf(b), r.acc = a PROVE FALSE
      <4>1. b # 0 /\ Busy(b)
        BY <3>1, <3>2 DEF Busy, TaskIds
      <4>2. HasRecord(b, a)
        BY <3>2 DEF HasRecord, DefaultOf
      <4>3. QED
        BY <1>2, <3>2, <4>1, <4>2 DEF AtWork
    <3>3. QED
      BY <3>1, <3>2
  <2>3. CASE smt' = smt
    BY <2>1, <2>2, <2>3, RootMoves
  <2>4. CASE smt' # smt
    <3>1. Root' = Root
      BY <2>2, <2>4, RootMoves
    <3>2. CASE UpdWriteSmt
      <4>1. /\ upd.t \in TaskIds /\ Busy(upd.t)
            /\ smt' = ChangedBy(DefaultOf(upd.t), smt)
        BY <3>2 DEF UpdWriteSmt, RootBefore, SmtInv, SmtInv0, UpdTask, StepsOK, Busy, InFlight,
           At, Of
      <4>2. a \notin AccountsOf(DefaultOf(upd.t))
        BY <1>2, <4>1 DEF AtWork, HasRecord, AccountsOf, DefaultOf
      <4>3. QED
        BY <2>1, <3>1, <4>1, <4>2 DEF ChangedBy
    <3>3. CASE RbWrite
      <4>1. smt' = [b \in Accounts |-> IF rb.val[b] = -1 THEN smt[b] ELSE rb.val[b]]
        BY <3>3 DEF RbWrite
      <4>2. FromDistribution(rb.t) \/ rb.val = NoVal
        BY <3>3 DEF RbWrite, RootBefore, RootInv, WorkInv, RbWork
      <4>3. QED
        BY <2>1, <3>1, <3>3, <4>1, <4>2, RbWriteRoots DEF NoVal
    <3>4. CASE CfWrite
      <4>1. smt' = [b \in Accounts |-> IF cf.val[b] = -1 THEN smt[b] ELSE cf.val[b]]
        BY <2>4, <3>4 DEF CfWrite
      <4>2. FromDistribution(cf.t) \/ cf.val = NoVal
        BY <3>4 DEF CfWrite, RootBefore, RootInv, WorkInv, CfWork
      <4>3. QED
        BY <2>1, <3>1, <3>4, <4>1, <4>2, CfWriteRoots DEF NoVal
    <3>5. QED
      BY <2>4, <3>2, <3>3, <3>4, SmtSteps
  <2>5. QED
    BY <2>3, <2>4
<1>3. QED
  BY <1>1, <1>2

-----------------------------------------------------------------------------
(* The theorem *)

LEMMA InitRoots ==
    ASSUME Init
    PROVE  RootInv
<1>1. /\ \A t \in TaskIds : ~ FromDistribution(t) /\ task[t].type # "Delegate"
      /\ recs = {} /\ rb = WorkIdle /\ cf = WorkIdle /\ upd = UpdIdle /\ smt = NoLeaf
  BY DEF Init, FromDistribution, NoRow
<1>2. \A t \in TaskIds : ~ Busy(t)
  BY <1>1 DEF Busy, InFlight, Taken
<1>3. /\ 1 \in TxIds /\ chain = <<1>> /\ Height = 1 /\ nTx = 1 /\ synced = 1
      /\ tx[1] = [NoTx EXCEPT !.kind = "config", !.status = "committed"]
  BY BoundsTyped DEF Init, TxIds, Height
<1>4. tx[1].by = 0 /\ tx[1].upd = {} /\ tx[1].kind = "config" /\ tx[1].ref = 0 /\ tx[1].leaf = NoLeaf
  BY <1>3 DEF NoTx
<1>5. Ours
  BY <1>1 DEF Ours, OurRow, Taken
<1>6. BusyInv
  BY <1>2 DEF BusyInv, OneBusy, ClearOfBusy
<1>7. NetInv
  <2>1. TxLeaves
    <3>1. \A x \in TxIds : x <= nTx => x = 1
      BY <1>3 DEF TxIds
    <3>2. TxLeaf(1)
      BY <1>4 DEF TxLeaf
    <3>3. QED
      BY <3>1, <3>2 DEF TxLeaves
  <2>2. LeavesStay
    BY <1>3 DEF LeavesStay, Root
  <2>3. Unsynced
    BY <1>3 DEF Unsynced
  <2>4. QED
    BY <2>1, <2>2, <2>3 DEF NetInv
<1>8. WorkInv
  <2>1. smt = Root
    BY <1>1, <1>3, <1>4 DEF Root, RootAt
  <2>2. RestFollows
    BY <2>1 DEF RestFollows
  <2>3. QED
    BY <1>1, <2>2 DEF WorkInv, RbWork, CfTask, CfWork, WorkIdle
<1>9. QED
  BY <1>5, <1>6, <1>7, <1>8 DEF RootInv

LEMMA NextRoots ==
    ASSUME SendMarked, MaxForeign = 0, SmtInv, RecInv, LockMutex, RootInv, [Next]_vars
    PROVE  RootInv'
<1>1. SmtInv' /\ RecInv' /\ LockMutex'
  BY NextSound, NextRecords, NextMutex DEF SmtInv, SmtInv0
<1>2. NetGrows
  BY NextCells DEF SmtInv, RecInv
<1>3. RootBefore
  BY <1>1, <1>2 DEF RootBefore
<1>4. Moves
  BY <1>3, NextMoves
<1>5. Ours' /\ BusyInv' /\ NetInv'
  BY <1>3, <1>4, NextOurs, NextBusy, NextNet
<1>6. WorkInv'
  BY <1>3, <1>4, NextRest, NextRbWork, NextCfTask, NextCfWork DEF WorkInv
<1>7. QED
  BY <1>5, <1>6 DEF RootInv

LEMMA InvariantOfRoots == SendMarked /\ MaxForeign = 0 /\ Spec => []RootInv
<1> SUFFICES ASSUME SendMarked, MaxForeign = 0 PROVE Spec => []RootInv
  OBVIOUS
<1>1. Init => RootInv
  BY InitRoots
<1>2. SmtInv /\ (SmtInv0 /\ RecInv) /\ LockMutex /\ RootInv /\ [Next]_vars => RootInv'
  BY NextRoots
<1>3. Spec => []SmtInv
  BY InvariantOfMarked
<1>4. QED
  BY <1>1, <1>2, <1>3, InvariantOfRecords, MutualExclusion, PTL DEF Spec

\* While what was sent is recorded and only this service changes the parent's
\* accounts, the SMT server has the root of the live cell whenever the updater
\* may compare the two (do_task.go:76): whatever was rejected, retried, rolled
\* back, confirmed or cut short by a crash, no parent is blocked for good.
THEOREM RootFollowsChain == SendMarked /\ MaxForeign = 0 /\ Spec => []SmtFollowsChain
<1>1. SmtInv0 /\ RootInv => SmtFollowsChain
  <2> SUFFICES ASSUME SmtInv0, RootInv, Quiet PROVE smt = RootAt(Height)
    BY DEF SmtFollowsChain
  <2>1. \A a \in Accounts : ~ AtWork(a)
    BY NoneInProgress DEF Quiet, AtWork
  <2>2. \A a \in Accounts : smt[a] = Root[a]
    BY <2>1 DEF RootInv, WorkInv, RestFollows
  <2>3. smt \in [Accounts -> Versions] /\ Root \in [Accounts -> Versions]
    BY NetTyped, ChainTyped DEF SmtInv0, TypeOK, MemoryTypeOK, Root
  <2>4. QED
    BY <2>2, <2>3 DEF Root
<1>2. QED
  BY <1>1, InvariantOfRecords, InvariantOfRoots, PTL

=============================================================================
