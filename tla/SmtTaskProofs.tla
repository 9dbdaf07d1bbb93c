---------------------------- MODULE SmtTaskProofs ----------------------------
(* Proofs about SmtTask, for every number of accounts, tasks, transactions,  *)
(* retries and crashes.                                                      *)
EXTENDS SmtTask, TLAPS

\* What a goroutine that is between two steps still knows of its task and of the
\* block whose cell it read, and that a handled block is one the node has.
StepsOK ==
    /\ upd.pc # "idle" => upd.t \in TaskIds
    /\ upd.pc \notin {"idle", "check", "cell"} => upd.h \in 1..Height
    /\ rb.pc # "idle" => rb.t \in TaskIds
    /\ cf.pc # "idle" => cf.t \in TaskIds
    /\ handled => parsed < Height

UsedType == [reqs : 0..MaxReqs, foreign : 0..MaxForeign,
             spends : 0..MaxSpends, crash : 0..MaxCrash]

-----------------------------------------------------------------------------
(* The types of constants and of what is derived from the state *)

LEMMA BoundsTyped ==
    /\ MaxTasks \in Nat \ {0} /\ MaxTxs \in Nat \ {0}
    /\ MaxVer \in Nat \ {0} /\ MaxCount \in Nat \ {0}
    /\ MaxRetry \in Nat /\ MaxUndone \in Nat
    /\ MaxReqs \in Nat /\ MaxForeign \in Nat /\ MaxSpends \in Nat /\ MaxCrash \in Nat
    /\ 0 \in Scripts
BY SmtTaskAssumption DEF SmtTaskAssumption

LEMMA RowValues ==
    /\ {"Absent", "Delegate", "Normal", "Chain", "Closed"} \subseteq TaskTypes
    /\ {NeedToWrite, Writing, WriteComplete, NeedToRollback, RollbackComplete} \subseteq 0..4
    /\ {UnSend, Pending, Committed, Rejected} \subseteq 0..3
    /\ {"distribution", "handler", "parser"} \subseteq Origins
    /\ {0, 1} \subseteq 0..MaxTxs
BY BoundsTyped DEF TaskTypes, Origins, NeedToWrite, Writing, WriteComplete, NeedToRollback,
   RollbackComplete, UnSend, Pending, Committed, Rejected

LEMMA StepValues ==
    /\ {"idle", "check", "cell", "lock", "root", "write", "build", "send", "mark"}
         \subseteq UpdSteps
    /\ {"idle", "lock", "write", "finish"} \subseteq WorkSteps
    /\ TaskIds \subseteq 0..MaxTasks /\ 0 \in 0..MaxTasks
BY BoundsTyped DEF UpdSteps, WorkSteps, TaskIds

LEMMA NoRowTyped == NoRow \in Row
BY BoundsTyped DEF NoRow, Row, TaskTypes, Origins

\* What the goroutines write into a row of the task table.
LEMMA RowWritten ==
    ASSUME NEW f \in [TaskIds -> Row], NEW t
    PROVE  /\ \A s \in 0..4 : [f EXCEPT ![t].smt = s] \in [TaskIds -> Row]
           /\ \A s \in 0..4, x \in 0..3 :
                [f EXCEPT ![t].smt = s, ![t].tx = x] \in [TaskIds -> Row]
           /\ \A c, x \in 0..MaxTxs :
                [f EXCEPT ![t].ref = c, ![t].out = x] \in [TaskIds -> Row]
<1>1. ASSUME NEW s \in 0..4 PROVE [f EXCEPT ![t].smt = s] \in [TaskIds -> Row]
  <2>1. \A row \in Row : [row EXCEPT !.smt = s] \in Row
    BY <1>1 DEF Row
  <2> QED
    BY <2>1
<1>2. ASSUME NEW s \in 0..4, NEW x \in 0..3
      PROVE  [f EXCEPT ![t].smt = s, ![t].tx = x] \in [TaskIds -> Row]
  <2>1. \A row \in Row : [row EXCEPT !.tx = x] \in Row
    BY <1>2 DEF Row
  <2>2. [f EXCEPT ![t].smt = s] \in [TaskIds -> Row]
    BY <1>1
  <2> DEFINE g == [f EXCEPT ![t].smt = s]
  <2>3. [f EXCEPT ![t].smt = s, ![t].tx = x] = [g EXCEPT ![t].tx = x]
    OBVIOUS
  <2> HIDE DEF g
  <2>4. g \in [TaskIds -> Row]
    BY <2>2 DEF g
  <2> QED
    BY <2>1, <2>3, <2>4
<1>3. ASSUME NEW c \in 0..MaxTxs, NEW x \in 0..MaxTxs
      PROVE  [f EXCEPT ![t].ref = c, ![t].out = x] \in [TaskIds -> Row]
  <2>1. \A row \in Row : [row EXCEPT !.ref = c] \in Row
    BY <1>3 DEF Row
  <2>2. \A row \in Row : [row EXCEPT !.out = x] \in Row
    BY <1>3 DEF Row
  <2> DEFINE g == [f EXCEPT ![t].ref = c]
  <2>3. [f EXCEPT ![t].ref = c, ![t].out = x] = [g EXCEPT ![t].out = x]
    OBVIOUS
  <2>4. g \in [TaskIds -> Row]
    BY <2>1
  <2> HIDE DEF g
  <2> QED
    BY <2>2, <2>3, <2>4
<1>4. QED
  BY <1>1, <1>2, <1>3

LEMMA ChainTyped ==
    ASSUME TypeOK
    PROVE  /\ Height \in Nat \ {0}
           /\ LiveCell \in TxIds
           /\ \A h \in 1..Height : /\ chain[h] \in TxIds
                                   /\ tx[chain[h]] \in Tx
                                   /\ RootAt(h) \in [Accounts -> Versions]
           /\ \A a \in Accounts : Info(a) \in Versions
<1> USE DEF TypeOK, DatabaseTypeOK, NodeTypeOK
<1>1. Height \in Nat \ {0}
  BY DEF Height
<1>2. \A h \in 1..Height : chain[h] \in TxIds
  BY DEF Height
<1>3. \A h \in 1..Height : tx[chain[h]] \in Tx
  BY <1>2
<1>4. \A h \in 1..Height : RootAt(h) \in [Accounts -> Versions]
  BY <1>3 DEF RootAt, Tx
<1>5. LiveCell \in TxIds
  BY <1>1, <1>2 DEF LiveCell
<1>6. \A a \in Accounts : Info(a) \in Versions
  BY <1>4 DEF Info
<1>7. QED
  BY <1>1, <1>2, <1>3, <1>4, <1>5, <1>6

LEMMA ChangedByTyped ==
    ASSUME NEW rs \in SUBSET Record, NEW leaves \in [Accounts -> Versions]
    PROVE  ChangedBy(rs, leaves) \in [Accounts -> Versions]
<1>1. ASSUME NEW a \in Accounts, a \in AccountsOf(rs)
      PROVE  (CHOOSE r \in rs : r.acc = a).ver \in Versions
  <2>1. \E r \in rs : r.acc = a
    BY <1>1 DEF AccountsOf
  <2>2. (CHOOSE r \in rs : r.acc = a) \in rs
    BY <2>1
  <2>3. QED
    BY <2>2 DEF Record
<1>2. QED
  BY <1>1 DEF ChangedBy

LEMMA InfoLeavesTyped ==
    ASSUME TypeOK, NEW rs
    PROVE  InfoLeaves(rs) \in [Accounts -> Versions \cup {-1}]
BY ChainTyped DEF InfoLeaves

LEMMA CloseRecordsTyped ==
    ASSUME recs \subseteq Record, NEW t, NEW rs \in SUBSET recs
    PROVE  CloseRecords(t, rs) \subseteq Record
<1>1. \A r \in rs : [r EXCEPT !.type = "Closed"] \in Record
  BY DEF Record
<1>2. QED
  BY <1>1 DEF CloseRecords

-----------------------------------------------------------------------------
(* Type correctness *)

LEMMA InitTyped == Init => TypeOK /\ StepsOK
<1> SUFFICES ASSUME Init PROVE TypeOK /\ StepsOK
  OBVIOUS
<1>1. NoTx \in Tx /\ NoLeaf \in [Accounts -> Versions]
  BY BoundsTyped DEF NoTx, Tx, NoLeaf, SpendKinds, Versions
<1>2. chain = <<1>> /\ Height = 1
  BY DEF Height, Init
<1>3. DatabaseTypeOK
  <2>1. [NoRow EXCEPT !.type = "Chain", !.smt = WriteComplete, !.tx = Committed,
                      !.out = 1, !.bn = 1] \in Row
    BY NoRowTyped, RowValues DEF Row
  <2>2. task \in [TaskIds -> Row]
    BY <2>1, NoRowTyped DEF Init
  <2>3. QED
    BY <1>2, <2>2, BoundsTyped DEF DatabaseTypeOK, Init
<1>4. NodeTypeOK
  <2>1. [NoTx EXCEPT !.kind = "config", !.status = "committed"] \in Tx
    BY <1>1 DEF Tx, SpendKinds
  <2>2. 1 \in TxIds /\ chain \in Seq(TxIds)
    BY <1>2, BoundsTyped DEF TxIds
  <2>3. QED
    BY <1>1, <2>1, <2>2 DEF NodeTypeOK, Init
<1>5. /\ upd = UpdIdle /\ rb = WorkIdle /\ cf = WorkIdle /\ handled = FALSE
      /\ smt = NoLeaf /\ lock = "none" /\ hnd = 0
  BY DEF Init
<1>6. MemoryTypeOK
  <2>1. UpdIdle \in [pc : UpdSteps, t : 0..MaxTasks, h : 0..Height]
    BY <1>2, BoundsTyped DEF UpdIdle, UpdSteps
  <2>2. WorkIdle \in [pc : WorkSteps, t : 0..MaxTasks,
                     val : [Accounts -> Versions \cup {-1}]]
    BY BoundsTyped DEF WorkIdle, NoVal, WorkSteps
  <2>3. used \in [reqs : 0..MaxReqs, foreign : 0..MaxForeign, spends : 0..MaxSpends,
                  crash : 0..MaxCrash]
    BY BoundsTyped DEF Init
  <2>4. handled \in BOOLEAN
    BY <1>5
  <2>5. hnd \in 0..MaxTxs
    BY <1>5, BoundsTyped
  <2>6. QED
    BY <1>1, <1>5, <2>1, <2>2, <2>3, <2>4, <2>5 DEF MemoryTypeOK
<1>7. StepsOK
  BY <1>5 DEF StepsOK, UpdIdle, WorkIdle
<1>8. QED
  BY <1>3, <1>4, <1>6, <1>7 DEF TypeOK

\* The chain does not move when the node's variables do not.
LEMMA SameNode ==
    ASSUME TypeOK, UNCHANGED net
    PROVE  NodeTypeOK' /\ Height' = Height
BY DEF TypeOK, NodeTypeOK, net, Height

LEMMA UpdaterTyped ==
    ASSUME TypeOK, StepsOK, Updater \/ UpdFail
    PROVE  TypeOK' /\ StepsOK'
<1> DEFINE Locks == {"none", "upd", "rb", "cf", "dead"}
           Upd == [pc : UpdSteps, t : 0..MaxTasks, h : 0..Height]
<1>1. /\ parsed' = parsed /\ synced' = synced /\ nTask' = nTask
      /\ rb' = rb /\ cf' = cf /\ hnd' = hnd /\ handled' = handled /\ used' = used
  BY DEF Updater, UpdFail, UpdUnchanged, UpdRollbackWriting, UpdCloseStale, UpdPassNonce,
         UpdCheckInProgress, UpdCheckLiveCell, UpdDiffScript, UpdLock, UpdStartWrite,
         UpdWriteSmt, UpdBuild, UpdSend, UpdMarkPending
<1>2. /\ task \in [TaskIds -> Row] /\ recs \subseteq Record /\ smt \in [Accounts -> Versions]
      /\ lock \in Locks /\ upd \in Upd
      /\ Height \in 0..Height /\ Height \in 1..Height /\ 0 \in 0..Height
  BY ChainTyped DEF TypeOK, DatabaseTypeOK, MemoryTypeOK
<1>3. UpdIdle \in Upd /\ UpdIdle.pc = "idle"
  BY <1>2, StepValues DEF UpdIdle, Upd
<1>4. UpdStop => upd' = UpdIdle /\ lock' \in Locks
  BY <1>2 DEF UpdStop
<1> DEFINE Good == /\ task' \in [TaskIds -> Row] /\ recs' \subseteq Record
                   /\ smt' \in [Accounts -> Versions] /\ lock' \in Locks /\ upd' \in Upd
                   /\ NodeTypeOK' /\ Height' = Height
                   /\ upd'.pc # "idle" => upd'.t \in TaskIds
                   /\ upd'.pc \notin {"idle", "check", "cell"} => upd'.h \in 1..Height
<1> HIDE DEF Locks, Upd
<1>5. ASSUME NEW t \in TaskIds, UpdRollbackWriting(t) PROVE Good
  <2>1. task' \in [TaskIds -> Row]
    BY <1>2, <1>5, RowValues DEF UpdRollbackWriting, Row
  <2>2. QED
    BY <1>2, <1>5, <2>1, SameNode DEF UpdRollbackWriting, StepsOK, net, HeadTask
<1>6. ASSUME NEW t \in TaskIds, UpdCloseStale(t) PROVE Good
  <2>1. task' \in [TaskIds -> Row]
    BY <1>2, <1>6, RowValues DEF UpdCloseStale, Row
  <2>2. recs' \subseteq Record
    BY <1>2, <1>6, CloseRecordsTyped DEF UpdCloseStale, DefaultOf, RecordsOf
  <2>3. QED
    BY <1>2, <1>6, <2>1, <2>2, SameNode DEF UpdCloseStale, StepsOK
<1>7. ASSUME NEW t \in TaskIds, UpdPassNonce(t) PROVE Good
  <2>1. upd' \in Upd /\ upd'.pc = "check" /\ upd'.t \in TaskIds
    BY <1>2, <1>7, StepValues DEF UpdPassNonce, UpdIdle, Upd
  <2>2. QED
    BY <1>2, <1>7, <2>1, SameNode DEF UpdPassNonce
<1>8. ASSUME UpdCheckInProgress PROVE Good
  <2>1. upd' \in Upd /\ upd'.pc \in {"idle", "cell"} /\ (upd'.pc # "idle" => upd'.t = upd.t)
    BY <1>2, <1>3, <1>8, StepValues DEF UpdCheckInProgress, Upd
  <2>2. QED
    BY <1>2, <1>8, <2>1, SameNode DEF UpdCheckInProgress, StepsOK
<1>9. ASSUME UpdCheckLiveCell PROVE Good
  <2>1. upd' \in Upd /\ upd'.h = Height /\ upd'.t = upd.t
    BY <1>2, <1>9, StepValues DEF UpdCheckLiveCell, Upd
  <2>2. QED
    BY <1>2, <1>9, <2>1, SameNode DEF UpdCheckLiveCell, StepsOK
<1>10. ASSUME UpdDiffScript PROVE Good
  <2>1. task' \in [TaskIds -> Row]
    <3>1. task' = task \/ task' = [task EXCEPT ![upd.t].smt = RollbackComplete]
      BY <1>10 DEF UpdDiffScript
    <3>2. [task EXCEPT ![upd.t].smt = RollbackComplete] \in [TaskIds -> Row]
      BY <1>2, RowValues, RowWritten
    <3>3. QED
      BY <1>2, <3>1, <3>2
  <2>2. recs' \subseteq Record
    BY <1>2, <1>10, CloseRecordsTyped DEF UpdDiffScript, DefaultOf, RecordsOf
  <2>3. QED
    BY <1>2, <1>3, <1>10, <2>1, <2>2, SameNode DEF UpdDiffScript
<1>11. ASSUME UpdLock PROVE Good
  <2>1. upd' \in Upd /\ upd'.h = upd.h /\ upd'.t = upd.t
    BY <1>2, <1>11, StepValues DEF UpdLock, Upd
  <2>2. QED
    BY <1>2, <1>11, <2>1, SameNode DEF UpdLock, StepsOK, Locks
<1>12. ASSUME UpdStartWrite PROVE Good
  <2>1. upd' \in Upd /\ upd'.h = upd.h /\ upd'.t = upd.t
    BY <1>2, <1>12, StepValues DEF UpdStartWrite, Upd
  <2>2. task' \in [TaskIds -> Row]
    <3>1. task' = [task EXCEPT ![upd.t].smt = Writing]
      BY <1>12 DEF UpdStartWrite
    <3>2. QED
      BY <1>2, <3>1, RowValues, RowWritten
  <2>3. QED
    BY <1>2, <1>12, <2>1, <2>2, SameNode DEF UpdStartWrite, StepsOK
<1>13. ASSUME UpdWriteSmt PROVE Good
  <2>1. upd' \in Upd /\ upd'.h = upd.h /\ upd'.t = upd.t
    BY <1>2, <1>13, StepValues DEF UpdWriteSmt, Upd
  <2>2. smt' \in [Accounts -> Versions]
    BY <1>2, <1>13, ChangedByTyped DEF UpdWriteSmt, DefaultOf, RecordsOf
  <2>3. QED
    BY <1>2, <1>13, <2>1, <2>2, SameNode DEF UpdWriteSmt, StepsOK
<1>14. ASSUME UpdBuild PROVE Good
  <2>1. upd' \in Upd /\ upd'.h = upd.h /\ upd'.t = upd.t
    BY <1>2, <1>14, StepValues DEF UpdBuild, Upd
  <2>2. upd.h \in 1..Height /\ upd.t \in TaskIds
    BY <1>14 DEF UpdBuild, StepsOK
  <2>3. /\ chain[upd.h] \in TxIds /\ tx[chain[upd.h]] \in Tx
        /\ RootAt(upd.h) \in [Accounts -> Versions]
    BY <2>2, ChainTyped
  <2>4. nTx' \in TxIds /\ nTx' = nTx + 1
    <3>1. nTx' = nTx + 1 /\ nTx < MaxTxs
      BY <1>14, Zenon DEF UpdBuild
    <3>2. nTx \in 1..MaxTxs
      BY Zenon DEF TypeOK, NodeTypeOK, TxIds
    <3>3. nTx + 1 \in 1..MaxTxs
      BY <3>1, <3>2, BoundsTyped
    <3>4. QED
      BY <3>1, <3>3 DEF TxIds
  <2>5. task' \in [TaskIds -> Row]
    <3>1. chain[upd.h] \in 0..MaxTxs /\ nTx + 1 \in 0..MaxTxs
      BY <2>3, <2>4, BoundsTyped DEF TxIds
    <3>2. task' = [task EXCEPT ![upd.t].ref = chain[upd.h], ![upd.t].out = nTx + 1]
      BY <1>14 DEF UpdBuild
    <3>3. QED
      BY <1>2, <3>1, <3>2, RowWritten
  <2>6. NodeTypeOK' /\ Height' = Height
    <3>1. ChangedBy(DefaultOf(upd.t), RootAt(upd.h)) \in [Accounts -> Versions]
      BY <1>2, <2>3, ChangedByTyped DEF DefaultOf, RecordsOf
    <3>2. AccountsOf(DefaultOf(upd.t)) \subseteq Accounts
      BY <1>2 DEF AccountsOf, DefaultOf, RecordsOf, Record
    <3>3. tx' \in [TxIds -> Tx]
      <4> DEFINE new == [kind |-> "update", ref |-> chain[upd.h], by |-> upd.t,
                         leaf |-> ChangedBy(DefaultOf(upd.t), RootAt(upd.h)),
                         upd |-> AccountsOf(DefaultOf(upd.t)),
                         script |-> tx[chain[upd.h]].script, status |-> "built"]
      <4>1. tx[chain[upd.h]].script \in Scripts
        BY <2>3 DEF Tx
      <4>2. chain[upd.h] \in 0..MaxTxs /\ upd.t \in 0..MaxTasks
        BY <2>2, <2>3, StepValues, BoundsTyped DEF TxIds, TaskIds
      <4>3. new \in Tx
        BY <3>1, <3>2, <4>1, <4>2 DEF Tx
      <4>4. tx' = [tx EXCEPT ![nTx + 1] = new]
        BY <1>14 DEF UpdBuild
      <4> HIDE DEF new
      <4>5. QED
        BY <2>4, <4>3, <4>4 DEF TypeOK, NodeTypeOK
    <3>4. QED
      BY <1>14, <2>4, <3>3 DEF UpdBuild, TypeOK, NodeTypeOK, Height
  <2>7. QED
    BY <1>2, <1>14, <2>1, <2>5, <2>6 DEF UpdBuild, StepsOK
<1>15. ASSUME UpdSend PROVE Good
  <2>1. NodeTypeOK' /\ Height' = Height
    <3>1. tx' \in [TxIds -> Tx]
      <4>1. tx' = [tx EXCEPT ![task[upd.t].out].status = "pool"]
        BY <1>15 DEF UpdSend
      <4>2. tx \in [TxIds -> Tx]
        BY DEF TypeOK, NodeTypeOK
      <4>3. \A x \in TxIds : [tx[x] EXCEPT !.status = "pool"] \in Tx
        BY <4>2 DEF Tx
      <4>4. QED
        BY <4>1, <4>2, <4>3
    <3>2. QED
      BY <1>15, <3>1 DEF UpdSend, TypeOK, NodeTypeOK, Height
  <2>2. CASE UpdStop
    BY <1>2, <1>3, <1>4, <1>15, <2>1, <2>2 DEF UpdSend
  <2>3. CASE upd' = [upd EXCEPT !.pc = "mark"] /\ UNCHANGED lock
    <3>1. upd' \in Upd /\ upd'.h = upd.h /\ upd'.t = upd.t
      BY <1>2, <2>3, StepValues DEF Upd
    <3>2. QED
      BY <1>2, <1>15, <2>1, <2>3, <3>1 DEF UpdSend, StepsOK
  <2>4. QED
    BY <1>15, <2>2, <2>3 DEF UpdSend
<1>16. ASSUME UpdMarkPending PROVE Good
  <2>1. task' \in [TaskIds -> Row]
    <3>1. \/ task' = task
          \/ task' = [task EXCEPT ![upd.t].smt = WriteComplete, ![upd.t].tx = Pending]
      BY <1>16 DEF UpdMarkPending
    <3>2. [task EXCEPT ![upd.t].smt = WriteComplete, ![upd.t].tx = Pending] \in [TaskIds -> Row]
      BY <1>2, RowValues, RowWritten
    <3>3. QED
      BY <1>2, <3>1, <3>2
  <2>2. QED
    BY <1>2, <1>3, <1>4, <1>16, <2>1, SameNode DEF UpdMarkPending
<1>17. ASSUME UpdFail PROVE Good
  BY <1>2, <1>3, <1>4, <1>17, SameNode DEF UpdFail
<1>18. Good
  BY <1>5, <1>6, <1>7, <1>8, <1>9, <1>10, <1>11, <1>12, <1>13, <1>14, <1>15, <1>16, <1>17
     DEF Updater
<1>19. TypeOK'
  BY <1>1, <1>18 DEF TypeOK, DatabaseTypeOK, MemoryTypeOK, Locks, Upd
<1>20. StepsOK'
  BY <1>1, <1>18 DEF StepsOK
<1>21. QED
  BY <1>19, <1>20

LEMMA CheckerTyped ==
    ASSUME TypeOK, StepsOK, doCheckTx
    PROVE  TypeOK' /\ StepsOK'
<1>1. task' \in [TaskIds -> Row]
  <2>1. PICK lost : task' = [t \in TaskIds |->
                      IF t \in lost
                      THEN [task[t] EXCEPT !.smt = NeedToRollback, !.tx = Rejected]
                      ELSE task[t]]
    BY DEF doCheckTx
  <2>2. task \in [TaskIds -> Row]
    BY DEF TypeOK, DatabaseTypeOK
  <2>3. \A t \in TaskIds :
          [task[t] EXCEPT !.smt = NeedToRollback, !.tx = Rejected] \in Row
    BY <2>2, RowValues DEF Row
  <2>4. QED
    BY <2>1, <2>2, <2>3
<1>2. /\ UNCHANGED <<nTask, recs, parsed, synced, smt, lock, upd, rb, cf, hnd, handled, used>>
      /\ UNCHANGED net
  BY DEF doCheckTx
<1>3. NodeTypeOK' /\ Height' = Height
  BY <1>2, SameNode
<1>4. QED
  BY <1>1, <1>2, <1>3 DEF TypeOK, DatabaseTypeOK, MemoryTypeOK, StepsOK

LEMMA RollbackerTyped ==
    ASSUME TypeOK, StepsOK, Rollbacker \/ RbFail
    PROVE  TypeOK' /\ StepsOK'
<1> DEFINE Locks == {"none", "upd", "rb", "cf", "dead"}
           Work == [pc : WorkSteps, t : 0..MaxTasks, val : [Accounts -> Versions \cup {-1}]]
<1>1. UNCHANGED <<parsed, synced, nTask, upd, cf, hnd, handled, used>> /\ UNCHANGED net
  BY DEF Rollbacker, RbFail, RbUnchanged, RbRead, RbLock, RbWrite, RbFinish
<1>2. /\ task \in [TaskIds -> Row] /\ recs \subseteq Record /\ smt \in [Accounts -> Versions]
      /\ lock \in Locks /\ rb \in Work
  BY DEF TypeOK, DatabaseTypeOK, MemoryTypeOK
<1>3. WorkIdle \in Work /\ WorkIdle.pc = "idle"
  BY StepValues DEF WorkIdle, NoVal
<1> DEFINE Good == /\ task' \in [TaskIds -> Row] /\ recs' \subseteq Record
                   /\ smt' \in [Accounts -> Versions] /\ lock' \in Locks /\ rb' \in Work
                   /\ rb'.pc # "idle" => rb'.t \in TaskIds
<1> HIDE DEF Locks, Work
<1>4. ASSUME NEW t \in TaskIds, RbRead(t) PROVE Good
  <2>1. rb' = [pc |-> "lock", t |-> t, val |-> InfoLeaves(RecordsOf(t))]
    BY <1>4 DEF RbRead
  <2>2. InfoLeaves(RecordsOf(t)) \in [Accounts -> Versions \cup {-1}]
    BY InfoLeavesTyped
  <2>3. rb' \in Work /\ rb'.t = t
    BY <2>1, <2>2, StepValues DEF Work
  <2>4. QED
    BY <1>2, <1>4, <2>3 DEF RbRead
<1>5. ASSUME RbLock PROVE Good
  <2>1. rb' \in Work /\ rb'.t = rb.t
    BY <1>2, <1>5, StepValues DEF RbLock, Work
  <2>2. QED
    BY <1>2, <1>5, <2>1 DEF RbLock, StepsOK, Locks
<1>6. ASSUME RbWrite PROVE Good
  <2>1. rb' \in Work /\ rb'.t = rb.t
    BY <1>2, <1>6, StepValues DEF RbWrite, Work
  <2>2. rb.val \in [Accounts -> Versions \cup {-1}]
    BY <1>2 DEF Work
  <2>3. smt' \in [Accounts -> Versions]
    BY <1>2, <1>6, <2>2 DEF RbWrite
  <2>4. QED
    BY <1>2, <1>6, <2>1, <2>3 DEF RbWrite, StepsOK
<1>7. ASSUME RbFinish PROVE Good
  <2>1. CASE MayRetry(rb.t)
    <3>1. rb.t \in TaskIds => task[rb.t].retry + 1 \in 0..MaxRetry
      BY <1>2, <2>1, BoundsTyped DEF MayRetry, Row
    <3>2. task' \in [TaskIds -> Row]
      BY <1>2, <1>7, <2>1, <3>1, RowValues DEF RbFinish, Row
    <3>3. QED
      BY <1>2, <1>3, <1>7, <2>1, <3>2 DEF RbFinish, Locks
  <2>2. CASE ~ MayRetry(rb.t)
    <3>1. task' \in [TaskIds -> Row]
      BY <1>2, <1>7, <2>2, RowValues DEF RbFinish, Row
    <3>2. recs' \subseteq Record
      BY <1>2, <1>7, <2>2, CloseRecordsTyped DEF RbFinish, RecordsOf
    <3>3. QED
      BY <1>2, <1>3, <1>7, <3>1, <3>2 DEF RbFinish, Locks
  <2>3. QED
    BY <2>1, <2>2
<1>8. ASSUME RbFail PROVE Good
  BY <1>2, <1>3, <1>8 DEF RbFail, Locks
<1>9. Good
  BY <1>4, <1>5, <1>6, <1>7, <1>8 DEF Rollbacker
<1>10. NodeTypeOK' /\ Height' = Height
  BY <1>1, SameNode
<1>11. QED
  BY <1>1, <1>9, <1>10 DEF TypeOK, DatabaseTypeOK, MemoryTypeOK, StepsOK, Locks, Work

LEMMA ConfirmerTyped ==
    ASSUME TypeOK, StepsOK, Confirmer \/ CfFail
    PROVE  TypeOK' /\ StepsOK'
<1> DEFINE Locks == {"none", "upd", "rb", "cf", "dead"}
           Work == [pc : WorkSteps, t : 0..MaxTasks, val : [Accounts -> Versions \cup {-1}]]
<1>1. /\ UNCHANGED <<parsed, synced, nTask, recs, upd, rb, hnd, handled, used>>
      /\ UNCHANGED net
  BY DEF Confirmer, CfFail, CfUnchanged, CfRead, CfLock, CfWrite, CfFinish
<1>2. /\ task \in [TaskIds -> Row] /\ smt \in [Accounts -> Versions]
      /\ lock \in Locks /\ cf \in Work
  BY DEF TypeOK, DatabaseTypeOK, MemoryTypeOK
<1>3. WorkIdle \in Work /\ WorkIdle.pc = "idle"
  BY StepValues DEF WorkIdle, NoVal
<1> DEFINE Good == /\ task' \in [TaskIds -> Row]
                   /\ smt' \in [Accounts -> Versions] /\ lock' \in Locks /\ cf' \in Work
                   /\ cf'.pc # "idle" => cf'.t \in TaskIds
<1> HIDE DEF Locks, Work
<1>4. ASSUME NEW t \in TaskIds, CfRead(t) PROVE Good
  <2>1. cf' = [pc |-> "lock", t |-> t, val |-> InfoLeaves(ChainOf(t))]
    BY <1>4 DEF CfRead
  <2>2. InfoLeaves(ChainOf(t)) \in [Accounts -> Versions \cup {-1}]
    BY InfoLeavesTyped
  <2>3. cf' \in Work /\ cf'.t = t
    BY <2>1, <2>2, StepValues DEF Work
  <2>4. QED
    BY <1>2, <1>4, <2>3 DEF CfRead
<1>5. ASSUME CfLock PROVE Good
  <2>1. cf' \in Work /\ cf'.t = cf.t
    BY <1>2, <1>5, StepValues DEF CfLock, Work
  <2>2. QED
    BY <1>2, <1>5, <2>1 DEF CfLock, StepsOK, Locks
<1>6. ASSUME CfWrite PROVE Good
  <2>1. cf' \in Work /\ cf'.t = cf.t
    BY <1>2, <1>6, StepValues DEF CfWrite, Work
  <2>2. cf.val \in [Accounts -> Versions \cup {-1}]
    BY <1>2 DEF Work
  <2>3. [a \in Accounts |-> IF cf.val[a] = -1 THEN smt[a] ELSE cf.val[a]]
          \in [Accounts -> Versions]
    BY <1>2, <2>2
  <2>4. smt' \in [Accounts -> Versions]
    BY <1>2, <1>6, <2>3 DEF CfWrite
  <2>5. QED
    BY <1>2, <1>6, <2>1, <2>4 DEF CfWrite, StepsOK
<1>7. ASSUME CfFinish PROVE Good
  <2>1. task' \in [TaskIds -> Row]
    <3>1. task' = task \/ task' = [task EXCEPT ![cf.t].smt = WriteComplete]
      BY <1>7 DEF CfFinish
    <3>2. [task EXCEPT ![cf.t].smt = WriteComplete] \in [TaskIds -> Row]
      BY <1>2, RowValues, RowWritten
    <3>3. QED
      BY <1>2, <3>1, <3>2
  <2>2. QED
    BY <1>2, <1>3, <1>7, <2>1 DEF CfFinish, Locks
<1>8. ASSUME CfFail PROVE Good
  BY <1>2, <1>3, <1>8 DEF CfFail, Locks
<1>9. Good
  BY <1>4, <1>5, <1>6, <1>7, <1>8 DEF Confirmer
<1>10. NodeTypeOK' /\ Height' = Height
  BY <1>1, SameNode
<1>11. QED
  BY <1>1, <1>9, <1>10 DEF TypeOK, DatabaseTypeOK, MemoryTypeOK, StepsOK, Locks, Work

LEMMA ParserTyped ==
    ASSUME TypeOK, StepsOK, Parser
    PROVE  TypeOK' /\ StepsOK'
<1>1. UNCHANGED <<synced, smt, lock, upd, rb, cf, hnd, used>> /\ UNCHANGED net
  BY DEF Parser, ParseUnchanged, ParseOwnUpdate, ParseOtherUpdate, ParseNoLeaf,
         ParseChannelProfit, ParserStoreBlock
<1>2. /\ task \in [TaskIds -> Row] /\ recs \subseteq Record /\ nTask \in 1..MaxTasks
      /\ parsed \in 1..Height
  BY DEF TypeOK, DatabaseTypeOK
<1>3. Height \in Nat \ {0} /\ parsed + 1 \in Nat
  BY <1>2, ChainTyped
<1>4. MayParse => /\ parsed < Height
                  /\ parsed + 1 \in 1..Height
                  /\ NextTx \in TxIds
                  /\ NextTx \in 0..MaxTxs
                  /\ tx[NextTx] \in Tx
  <2>1. MayParse => parsed < Height
    BY DEF MayParse, ToParse
  <2>2. MayParse => parsed + 1 \in 1..Height
    BY <1>2, <1>3, <2>1
  <2>3. QED
    BY <2>1, <2>2, ChainTyped, BoundsTyped DEF NextTx, TxIds
<1>5. nTask < MaxTasks => nTask + 1 \in 1..MaxTasks /\ nTask + 1 \in 0..MaxTasks
  BY <1>2, BoundsTyped
<1> DEFINE Good == /\ task' \in [TaskIds -> Row] /\ recs' \subseteq Record
                   /\ nTask' \in 1..MaxTasks
                   /\ parsed' \in 1..Height
                   /\ handled' \in BOOLEAN
                   /\ handled' => parsed' < Height
<1>6. ASSUME ParseOwnUpdate PROVE Good
  <2>1. PICK t \in TaskIds :
          /\ task' = [task EXCEPT ![t].type = "Chain", ![t].smt = NeedToWrite,
                                  ![t].tx = Committed, ![t].bn = parsed + 1]
          /\ recs' = (recs \ RecordsOf(t))
                     \cup {[r EXCEPT !.type = "Chain", !.bn = parsed + 1] : r \in RecordsOf(t)}
    BY <1>6 DEF ParseOwnUpdate, GetTaskByRefOutpointAndOutpoint
  <2>2. task' \in [TaskIds -> Row]
    <3> DEFINE row == [task[t] EXCEPT !.type = "Chain", !.smt = NeedToWrite,
                                      !.tx = Committed, !.bn = parsed + 1]
    <3>1. row \in Row
      <4>1. task[t] \in Row
        BY <1>2
      <4>2. \A n \in Nat : [task[t] EXCEPT !.type = "Chain", !.smt = NeedToWrite,
                                          !.tx = Committed, !.bn = n] \in Row
        BY <4>1, RowValues DEF Row
      <4>3. QED
        BY <1>3, <4>2
    <3>2. task' = [task EXCEPT ![t] = row]
      <4>1. task[t] \in Row
        BY <1>2
      <4>2. QED
        BY <1>2, <2>1, <4>1 DEF Row
    <3> HIDE DEF row
    <3>3. QED
      BY <1>2, <3>1, <3>2
  <2>3. \A r \in recs : [r EXCEPT !.type = "Chain", !.bn = parsed + 1] \in Record
    BY <1>2, <1>3 DEF Record
  <2>4. recs' \subseteq Record
    BY <1>2, <2>1, <2>3 DEF RecordsOf
  <2>5. handled' \in BOOLEAN
    BY <1>6 DEF ParseOwnUpdate
  <2>6. QED
    BY <1>2, <1>4, <1>6, <2>2, <2>4, <2>5 DEF ParseOwnUpdate, ParseUnchanged
<1>7. ASSUME ParseOtherUpdate PROVE Good
  <2> DEFINE new == {[acc |-> a, ver |-> tx[NextTx].leaf[a], type |-> "Chain",
                      bn |-> parsed + 1, task |-> nTask + 1] : a \in tx[NextTx].upd}
             row == [NoRow EXCEPT !.type = "Chain", !.tx = Committed, !.own = TRUE,
                                  !.ref = tx[NextTx].ref, !.out = NextTx,
                                  !.bn = parsed + 1]
  <2>1. MayParse /\ tx[NextTx].ref \in 0..MaxTxs
    BY <1>4, <1>7 DEF ParseOtherUpdate, Tx
  <2>2. nTask < MaxTasks => new \subseteq Record
    <3>1. \A a \in tx[NextTx].upd : a \in Accounts /\ tx[NextTx].leaf[a] \in Versions
      BY <1>4, <2>1 DEF Tx
    <3>2. QED
      BY <1>3, <1>5, <3>1 DEF Record
  <2>3. row \in Row
    BY <1>3, <1>4, <2>1, NoRowTyped, RowValues DEF Row
  <2> HIDE DEF new, row
  <2>4. \/ UNCHANGED <<task, nTask, recs>>
        \/ /\ nTask < MaxTasks
           /\ task' = [task EXCEPT ![nTask + 1] = row]
           /\ nTask' = nTask + 1
           /\ recs' \subseteq recs \cup new
    BY <1>7 DEF ParseOtherUpdate, new, row
  <2>5. task' \in [TaskIds -> Row] /\ recs' \subseteq Record /\ nTask' \in 1..MaxTasks
    BY <1>2, <1>5, <2>2, <2>3, <2>4
  <2>6. handled' \in BOOLEAN
    BY <1>7 DEF ParseOtherUpdate
  <2>7. QED
    BY <1>2, <1>4, <2>1, <1>7, <2>5, <2>6 DEF ParseOtherUpdate, ParseUnchanged
<1>8. ASSUME ParseNoLeaf PROVE Good
  <2> DEFINE row == [NoRow EXCEPT !.type = "Chain", !.smt = WriteComplete,
                                  !.tx = Committed, !.out = NextTx, !.bn = parsed + 1]
  <2>1. MayParse /\ nTask < MaxTasks
    BY <1>8 DEF ParseNoLeaf
  <2>2. row \in Row
    BY <1>3, <1>4, <2>1, NoRowTyped, RowValues DEF Row
  <2> HIDE DEF row
  <2>3. task' = [u \in TaskIds |-> IF u = nTask + 1 THEN row
                                   ELSE IF task[u].ref = 0 /\ task[u].out = NextTx THEN NoRow
                                   ELSE task[u]]
    BY <1>8 DEF ParseNoLeaf, row
  <2>4. task' \in [TaskIds -> Row]
    BY <1>2, <2>2, <2>3, NoRowTyped
  <2>5. handled' \in BOOLEAN
    BY <1>8 DEF ParseNoLeaf
  <2>6. QED
    BY <1>2, <1>4, <1>5, <1>8, <2>1, <2>4, <2>5 DEF ParseNoLeaf, ParseUnchanged
<1>9. ASSUME ParseChannelProfit PROVE Good
  <2>1. \A u \in TaskIds : [task[u] EXCEPT !.tx = Committed, !.bn = parsed + 1] \in Row
    BY <1>2, <1>3, RowValues DEF Row
  <2>2. task' \in [TaskIds -> Row]
    BY <1>2, <1>9, <2>1 DEF ParseChannelProfit
  <2>3. handled' \in BOOLEAN
    BY <1>9 DEF ParseChannelProfit
  <2>4. QED
    BY <1>2, <1>4, <1>9, <2>2, <2>3 DEF ParseChannelProfit, ParseUnchanged
<1>10. ASSUME ParserStoreBlock PROVE Good
  <2>1. handled' = FALSE
    BY <1>10 DEF ParserStoreBlock
  <2>2. parsed' = parsed + 1 /\ parsed < Height
    BY <1>10 DEF ParserStoreBlock, StepsOK
  <2>3. parsed' \in 1..Height
    BY <1>2, <1>3, <2>2
  <2>4. handled' \in BOOLEAN
    BY <2>1
  <2>5. QED
    BY <1>2, <1>10, <2>1, <2>3, <2>4 DEF ParserStoreBlock
<1>11. Good
  BY <1>6, <1>7, <1>8, <1>9, <1>10 DEF Parser
<1>12. NodeTypeOK' /\ Height' = Height
  BY <1>1, SameNode
<1>13. QED
  BY <1>1, <1>11, <1>12 DEF TypeOK, DatabaseTypeOK, MemoryTypeOK, StepsOK

LEMMA DistributionTyped ==
    ASSUME TypeOK, StepsOK, doUpdateDistribution
    PROVE  TypeOK' /\ StepsOK'
<1>1. /\ UNCHANGED <<parsed, synced, smt, lock, upd, rb, cf, hnd, handled, used>>
      /\ UNCHANGED net
  BY DEF doUpdateDistribution
<1>2. /\ task \in [TaskIds -> Row] /\ recs \subseteq Record /\ nTask \in 1..MaxTasks
  BY DEF TypeOK, DatabaseTypeOK
<1> DEFINE new == NeedDoDistribution
           row == [NoRow EXCEPT !.type = "Delegate", !.own = TRUE,
                                !.script = tx[LiveCell].script, !.from = "distribution"]
<1>3. row \in Row
  <2>1. tx[LiveCell].script \in Scripts
    BY ChainTyped DEF LiveCell, Tx
  <2>2. QED
    BY <2>1, NoRowTyped, RowValues DEF Row
<1>4. new \in SUBSET Record
  BY <1>2 DEF NeedDoDistribution, RecordsOf
<1> HIDE DEF new, row
<1>5. PICK k \in 1 .. MaxTasks - nTask : \E batch \in [new -> 1..k] :
        /\ task' = [t \in TaskIds |-> IF t \in nTask + 1 .. nTask + k THEN row ELSE task[t]]
        /\ nTask' = nTask + k
        /\ recs' = (recs \ new) \cup {[r EXCEPT !.task = nTask + batch[r]] : r \in new}
  BY DEF doUpdateDistribution, new, row
<1>6. PICK batch \in [new -> 1..k] :
        /\ task' = [t \in TaskIds |-> IF t \in nTask + 1 .. nTask + k THEN row ELSE task[t]]
        /\ nTask' = nTask + k
        /\ recs' = (recs \ new) \cup {[r EXCEPT !.task = nTask + batch[r]] : r \in new}
  BY <1>5
<1>7. nTask' \in 1..MaxTasks /\ \A i \in 1..k : nTask + i \in 0..MaxTasks
  BY <1>2, <1>6, BoundsTyped
<1>8. task' \in [TaskIds -> Row]
  BY <1>2, <1>3, <1>6
<1>9. recs' \subseteq Record
  <2>1. \A r \in new : nTask + batch[r] \in 0..MaxTasks
    BY <1>6, <1>7
  <2>2. \A r \in new : \A i \in 0..MaxTasks : [r EXCEPT !.task = i] \in Record
    BY <1>4 DEF Record
  <2>3. \A r \in new : [r EXCEPT !.task = nTask + batch[r]] \in Record
    BY <2>1, <2>2
  <2>4. QED
    BY <1>2, <1>6, <2>3
<1>10. NodeTypeOK' /\ Height' = Height
  BY <1>1, SameNode
<1>11. QED
  BY <1>1, <1>7, <1>8, <1>9, <1>10 DEF TypeOK, DatabaseTypeOK, MemoryTypeOK, StepsOK

\* Every counter of the model stays within its bound.
LEMMA UsedTyped ==
    ASSUME TypeOK
    PROVE  /\ used.reqs < MaxReqs => [used EXCEPT !.reqs = @ + 1] \in UsedType
           /\ used.foreign < MaxForeign => [used EXCEPT !.foreign = @ + 1] \in UsedType
           /\ used.spends < MaxSpends => [used EXCEPT !.spends = @ + 1] \in UsedType
           /\ used.crash < MaxCrash => [used EXCEPT !.crash = @ + 1] \in UsedType
<1>1. used \in UsedType
  BY DEF TypeOK, MemoryTypeOK, UsedType
<1>2. \A n \in Nat : \A i \in 0..n : i < n => i + 1 \in 0..n
  OBVIOUS
<1>3. /\ used.reqs < MaxReqs => used.reqs + 1 \in 0..MaxReqs
      /\ used.foreign < MaxForeign => used.foreign + 1 \in 0..MaxForeign
      /\ used.spends < MaxSpends => used.spends + 1 \in 0..MaxSpends
      /\ used.crash < MaxCrash => used.crash + 1 \in 0..MaxCrash
  BY <1>1, <1>2, BoundsTyped DEF UsedType
<1>4. /\ \A i \in 0..MaxReqs : [used EXCEPT !.reqs = i] \in UsedType
      /\ \A i \in 0..MaxForeign : [used EXCEPT !.foreign = i] \in UsedType
      /\ \A i \in 0..MaxSpends : [used EXCEPT !.spends = i] \in UsedType
      /\ \A i \in 0..MaxCrash : [used EXCEPT !.crash = i] \in UsedType
  BY <1>1 DEF UsedType
<1>5. QED
  BY <1>3, <1>4

LEMMA RequestTyped ==
    ASSUME TypeOK, StepsOK, NEW a \in Accounts, Request(a)
    PROVE  TypeOK' /\ StepsOK'
<1>1. /\ UNCHANGED <<task, nTask, parsed, synced, smt, lock, upd, rb, cf, hnd, handled>>
      /\ UNCHANGED net
  BY DEF Request
<1>2. PICK v \in Versions :
        recs' = recs \cup {[acc |-> a, ver |-> v, type |-> "Default", bn |-> 0, task |-> 0]}
  BY DEF Request
<1>3. [acc |-> a, ver |-> v, type |-> "Default", bn |-> 0, task |-> 0] \in Record
  BY StepValues DEF Record
<1>4. recs' \subseteq Record
  BY <1>2, <1>3 DEF TypeOK, DatabaseTypeOK
<1>5. used' \in UsedType
  BY UsedTyped DEF Request
<1>6. NodeTypeOK' /\ Height' = Height
  BY <1>1, SameNode
<1>7. QED
  BY <1>1, <1>4, <1>5, <1>6 DEF TypeOK, DatabaseTypeOK, MemoryTypeOK, StepsOK, UsedType

LEMMA SpendSendTyped ==
    ASSUME TypeOK, StepsOK, NEW kind \in Kinds, NEW script \in Scripts,
           SpendSend(kind, script)
    PROVE  TypeOK' /\ StepsOK'
<1> DEFINE new == [kind |-> kind, ref |-> LiveCell, by |-> 0, leaf |-> RootAt(Height),
                   upd |-> {}, script |-> script, status |-> "pool"]
<1>1. /\ UNCHANGED db /\ UNCHANGED <<synced, chain, smt, lock, upd, rb, cf, handled>>
      /\ nTx' = nTx + 1 /\ hnd' = nTx + 1 /\ nTx < MaxTxs
      /\ tx' = [tx EXCEPT ![nTx + 1] = new]
  BY DEF SpendSend
<1>2. new \in Tx
  <2>1. LiveCell \in 0..MaxTxs /\ RootAt(Height) \in [Accounts -> Versions]
    BY ChainTyped, BoundsTyped DEF TxIds
  <2>2. kind \in SpendKinds
    BY SmtTaskAssumption DEF SmtTaskAssumption
  <2>3. QED
    BY <2>1, <2>2, StepValues DEF Tx
<1> HIDE DEF new
<1>3. nTx' \in TxIds /\ hnd' \in 0..MaxTxs
  BY <1>1, BoundsTyped DEF TypeOK, NodeTypeOK, TxIds
<1>4. NodeTypeOK' /\ Height' = Height
  BY <1>1, <1>2, <1>3 DEF TypeOK, NodeTypeOK, Height
<1>5. used' \in UsedType
  BY UsedTyped DEF SpendSend
<1>6. QED
  BY <1>1, <1>3, <1>4, <1>5 DEF TypeOK, DatabaseTypeOK, MemoryTypeOK, StepsOK, UsedType, db

LEMMA SpendCreateTaskTyped ==
    ASSUME TypeOK, StepsOK, SpendCreateTask
    PROVE  TypeOK' /\ StepsOK'
<1> DEFINE row == [NoRow EXCEPT !.type = IF tx[hnd].kind = "channel" THEN "Chain" ELSE "Normal",
                                !.smt = WriteComplete, !.tx = Pending,
                                !.own = (tx[hnd].kind = "config"), !.out = hnd,
                                !.from = "handler"]
<1>1. /\ UNCHANGED <<recs, parsed, synced, smt, lock, upd, rb, cf, handled, used>>
      /\ UNCHANGED net /\ hnd' = 0
  BY DEF SpendCreateTask
<1>2. \/ nTask < MaxTasks /\ task' = [task EXCEPT ![nTask + 1] = row] /\ nTask' = nTask + 1
      \/ UNCHANGED <<task, nTask>>
  BY DEF SpendCreateTask
<1>3. row \in Row
  <2>1. hnd \in 0..MaxTxs
    BY DEF TypeOK, MemoryTypeOK
  <2>2. (tx[hnd].kind = "config") \in BOOLEAN
    OBVIOUS
  <2>3. (IF tx[hnd].kind = "channel" THEN "Chain" ELSE "Normal") \in TaskTypes
    BY RowValues
  <2>4. QED
    BY <2>1, <2>2, <2>3, NoRowTyped, RowValues DEF Row
<1> HIDE DEF row
<1>4. task' \in [TaskIds -> Row] /\ nTask' \in 1..MaxTasks
  BY <1>2, <1>3, BoundsTyped DEF TypeOK, DatabaseTypeOK
<1>5. hnd' \in 0..MaxTxs
  BY <1>1, BoundsTyped
<1>6. NodeTypeOK' /\ Height' = Height
  BY <1>1, SameNode
<1>7. QED
  BY <1>1, <1>4, <1>5, <1>6 DEF TypeOK, DatabaseTypeOK, MemoryTypeOK, StepsOK

\* What refers to a block of the chain still does when the chain grows.
LEMMA LongerChain ==
    ASSUME TypeOK, StepsOK, NEW x \in TxIds, chain' = Append(chain, x),
           tx' \in [TxIds -> Tx], nTx' \in TxIds, used' \in UsedType,
           UNCHANGED db, UNCHANGED <<synced, smt, lock, upd, rb, cf, hnd, handled>>
    PROVE  TypeOK' /\ StepsOK'
<1>1. chain' \in Seq(TxIds) /\ Height \in Nat /\ Height' = Height + 1
  BY DEF TypeOK, NodeTypeOK, Height
<1>2. 0..Height \subseteq 0..Height' /\ 1..Height \subseteq 1..Height'
  BY <1>1
<1>3. upd' \in [pc : UpdSteps, t : 0..MaxTasks, h : 0..Height']
  BY <1>2 DEF TypeOK, MemoryTypeOK
<1>4. parsed' \in 1..Height' /\ synced' \in 1..Height'
  BY <1>2 DEF TypeOK, DatabaseTypeOK, db
<1>5. handled' => parsed' < Height'
  BY <1>1, <1>4 DEF StepsOK, TypeOK, DatabaseTypeOK, db
<1>6. QED
  BY <1>1, <1>2, <1>3, <1>4, <1>5
     DEF TypeOK, DatabaseTypeOK, NodeTypeOK, MemoryTypeOK, StepsOK, db, UsedType

LEMMA SettleTyped ==
    ASSUME NEW txs \in [TxIds -> Tx], NEW x \in TxIds
    PROVE  SettleTx(x, txs) \in [TxIds -> Tx]
<1>1. \A y \in TxIds : /\ [txs[y] EXCEPT !.status = "committed"] \in Tx
                       /\ [txs[y] EXCEPT !.status = "rejected"] \in Tx
  BY DEF Tx
<1>2. QED
  BY <1>1 DEF SettleTx

LEMMA ForeignCommitTyped ==
    ASSUME TypeOK, StepsOK, NEW a \in Accounts, ForeignCommit(a)
    PROVE  TypeOK' /\ StepsOK'
<1> DEFINE v == RootAt(Height)[a] + 1
           new == [kind |-> "update", ref |-> LiveCell, by |-> 0,
                   leaf |-> [RootAt(Height) EXCEPT ![a] = v], upd |-> {a},
                   script |-> tx[LiveCell].script, status |-> "pool"]
<1>1. /\ UNCHANGED db /\ UNCHANGED <<synced, smt, lock, upd, rb, cf, hnd, handled>>
      /\ nTx < MaxTxs /\ nTx' = nTx + 1 /\ chain' = Append(chain, nTx + 1)
      /\ tx' = SettleTx(nTx + 1, [tx EXCEPT ![nTx + 1] = new])
      /\ v \in Versions
  BY DEF ForeignCommit, EnvUnchanged
<1>2. new \in Tx
  <2>1. LiveCell \in 0..MaxTxs /\ tx[LiveCell].script \in Scripts
    BY ChainTyped, BoundsTyped DEF TxIds, Tx, LiveCell
  <2>2. [RootAt(Height) EXCEPT ![a] = v] \in [Accounts -> Versions]
    BY <1>1, ChainTyped
  <2> HIDE DEF v
  <2>3. QED
    BY <2>1, <2>2, StepValues DEF Tx, SpendKinds
<1> HIDE DEF new
<1>3. nTx + 1 \in TxIds
  BY <1>1, BoundsTyped DEF TypeOK, NodeTypeOK, TxIds
<1>4. [tx EXCEPT ![nTx + 1] = new] \in [TxIds -> Tx]
  BY <1>2, <1>3 DEF TypeOK, NodeTypeOK
<1>5. used' \in UsedType
  BY UsedTyped DEF ForeignCommit
<1>6. QED
  BY <1>1, <1>3, <1>4, <1>5, SettleTyped, LongerChain

LEMMA EnvironmentTyped ==
    ASSUME TypeOK, StepsOK, Environment
    PROVE  TypeOK' /\ StepsOK'
<1>1. used \in UsedType /\ tx \in [TxIds -> Tx] /\ nTx \in TxIds
  BY DEF TypeOK, NodeTypeOK, MemoryTypeOK, UsedType
<1>2. ASSUME NEW x \in TxIds, CommitTx(x) PROVE TypeOK' /\ StepsOK'
  <2>1. tx' \in [TxIds -> Tx]
    BY <1>1, <1>2, SettleTyped DEF CommitTx
  <2>2. QED
    BY <1>1, <1>2, <2>1, LongerChain DEF CommitTx, EnvUnchanged
<1>3. ASSUME NEW x \in TxIds, RejectTx(x) PROVE TypeOK' /\ StepsOK'
  <2>1. tx' \in [TxIds -> Tx]
    BY <1>1, <1>3 DEF RejectTx, Tx
  <2>2. NodeTypeOK' /\ Height' = Height
    BY <1>3, <2>1 DEF RejectTx, TypeOK, NodeTypeOK, Height
  <2>3. QED
    BY <1>3, <2>2 DEF RejectTx, EnvUnchanged, db, TypeOK, DatabaseTypeOK, MemoryTypeOK, StepsOK
<1>4. ASSUME NEW a \in Accounts, ForeignCommit(a) PROVE TypeOK' /\ StepsOK'
  BY <1>4, ForeignCommitTyped
<1>5. ASSUME SyncInfo PROVE TypeOK' /\ StepsOK'
  <2>1. synced' \in 1..Height
    BY <1>5, ChainTyped DEF SyncInfo, TypeOK, DatabaseTypeOK
  <2>2. NodeTypeOK' /\ Height' = Height
    BY <1>5, SameNode DEF SyncInfo
  <2>3. QED
    BY <1>5, <2>1, <2>2
       DEF SyncInfo, EnvUnchanged, db, TypeOK, DatabaseTypeOK, MemoryTypeOK, StepsOK
<1>6. ASSUME Crash PROVE TypeOK' /\ StepsOK'
  <2>1. UNCHANGED db /\ UNCHANGED <<synced, smt>>
    BY <1>6 DEF Crash
  <2>2. NodeTypeOK' /\ Height' = Height
    BY <1>6, SameNode DEF Crash
  <2>3. /\ upd' = UpdIdle /\ rb' = WorkIdle /\ cf' = WorkIdle /\ hnd' = 0
        /\ handled' = FALSE /\ lock' \in {"none", "dead"}
    BY <1>6 DEF Crash
  <2>4. UpdIdle \in [pc : UpdSteps, t : 0..MaxTasks, h : 0..Height]
    <3>1. 0 \in 0..Height
      BY ChainTyped
    <3>2. QED
      BY <3>1, StepValues DEF UpdIdle
  <2>5. WorkIdle \in [pc : WorkSteps, t : 0..MaxTasks,
                     val : [Accounts -> Versions \cup {-1}]]
    BY StepValues DEF WorkIdle, NoVal
  <2>6. used' \in UsedType
    BY <1>6, UsedTyped DEF Crash
  <2>7. handled' \in BOOLEAN /\ hnd' \in 0..MaxTxs
    <3>1. handled' \in BOOLEAN
      BY <2>3
    <3>2. hnd' \in 0..MaxTxs
      BY <2>3, BoundsTyped
    <3>3. QED
      BY <3>1, <3>2
  <2>8. TypeOK'
    BY <2>1, <2>2, <2>3, <2>4, <2>5, <2>6, <2>7
       DEF db, TypeOK, DatabaseTypeOK, MemoryTypeOK, UsedType
  <2>9. StepsOK'
    BY <2>3 DEF StepsOK, UpdIdle, WorkIdle
  <2>10. QED
    BY <2>8, <2>9
<1>7. ASSUME LockExpire PROVE TypeOK' /\ StepsOK'
  <2>1. NodeTypeOK' /\ Height' = Height
    BY <1>7, SameNode DEF LockExpire
  <2>2. QED
    BY <1>7, <2>1 DEF LockExpire, db, TypeOK, DatabaseTypeOK, MemoryTypeOK, StepsOK
<1>8. QED
  BY <1>2, <1>3, <1>4, <1>5, <1>6, <1>7 DEF Environment

LEMMA IdleTyped ==
    ASSUME TypeOK, StepsOK, UNCHANGED vars
    PROVE  TypeOK' /\ StepsOK'
<1>1. NodeTypeOK' /\ Height' = Height
  BY SameNode DEF vars, net
<1>2. QED
  BY <1>1 DEF vars, TypeOK, DatabaseTypeOK, MemoryTypeOK, StepsOK

LEMMA NextTyped == TypeOK /\ StepsOK /\ [Next]_vars => TypeOK' /\ StepsOK'
<1> SUFFICES ASSUME TypeOK, StepsOK, [Next]_vars PROVE TypeOK' /\ StepsOK'
  OBVIOUS
<1>1. ASSUME Handlers PROVE TypeOK' /\ StepsOK'
  BY <1>1, RequestTyped, SpendSendTyped, SpendCreateTaskTyped DEF Handlers
<1>2. QED
  BY <1>1, DistributionTyped, UpdaterTyped, CheckerTyped, RollbackerTyped, ConfirmerTyped,
     ParserTyped, EnvironmentTyped, IdleTyped DEF Next

\* Every variable always holds values of the kind the code stores in it: no id,
\* block number or retry count leaves its range, and every worker's task exists.
THEOREM TypeCorrect == Spec => []TypeOK
<1>1. Spec => [](TypeOK /\ StepsOK)
  BY InitTyped, NextTyped, PTL DEF Spec
<1>2. QED
  BY <1>1, PTL

-----------------------------------------------------------------------------
(* The lock *)

LEMMA InitMutex == Init => LockMutex
BY DEF Init, LockMutex, UpdLocked, RbLocked, CfLocked, UpdIdle, WorkIdle

\* The steps of one worker move its own part of LockMutex and leave the others'.
LEMMA UpdaterMutex ==
    ASSUME TypeOK, LockMutex, Updater \/ UpdFail
    PROVE  LockMutex'
<1>1. rb' = rb /\ cf' = cf
  BY DEF Updater, UpdFail, UpdUnchanged, UpdRollbackWriting, UpdCloseStale, UpdPassNonce,
         UpdCheckInProgress, UpdCheckLiveCell, UpdDiffScript, UpdLock, UpdStartWrite,
         UpdWriteSmt, UpdBuild, UpdSend, UpdMarkPending
<1>2. UpdStop => LockMutex'
  BY <1>1 DEF UpdStop, LockMutex, UpdLocked, RbLocked, CfLocked, UpdIdle
<1>3. upd \in [pc : UpdSteps, t : 0..MaxTasks, h : 0..Height] /\ UpdIdle.pc = "idle"
  BY DEF TypeOK, MemoryTypeOK, UpdIdle
<1>4. (UpdLocked' <=> UpdLocked) /\ UNCHANGED lock => LockMutex'
  BY <1>1 DEF LockMutex, RbLocked, CfLocked
<1>5. ASSUME NEW t \in TaskIds, UpdRollbackWriting(t) \/ UpdCloseStale(t)
      PROVE  LockMutex'
  BY <1>1, <1>5 DEF UpdRollbackWriting, UpdCloseStale, LockMutex, UpdLocked, RbLocked, CfLocked
<1>6. ASSUME NEW t \in TaskIds, UpdPassNonce(t) PROVE LockMutex'
  <2>1. upd.pc = "idle" /\ upd'.pc = "check" /\ lock' = lock
    BY <1>3, <1>6 DEF UpdPassNonce, HeadTask, UpdIdle
  <2>2. QED
    BY <1>4, <2>1 DEF UpdLocked
<1>7. ASSUME UpdCheckInProgress \/ UpdCheckLiveCell \/ UpdDiffScript PROVE LockMutex'
  <2>1. upd.pc \in {"check", "cell"} /\ upd'.pc \in {"idle", "cell", "lock"} /\ lock' = lock
    BY <1>3, <1>7 DEF UpdCheckInProgress, UpdCheckLiveCell, UpdDiffScript
  <2>2. QED
    BY <1>4, <2>1 DEF UpdLocked
<1>8. ASSUME UpdLock PROVE LockMutex'
  <2>1. upd'.pc = "root" /\ lock = "none" /\ lock' = "upd"
    BY <1>3, <1>8 DEF UpdLock, LockFree
  <2>2. QED
    BY <1>1, <2>1 DEF LockMutex, UpdLocked, RbLocked, CfLocked
<1>9. ASSUME UpdStartWrite \/ UpdWriteSmt \/ UpdBuild PROVE LockMutex'
  <2>1. /\ upd.pc \in {"root", "write", "build"} /\ upd'.pc \in {"write", "build", "send"}
        /\ lock' = lock
    BY <1>3, <1>9 DEF UpdStartWrite, UpdWriteSmt, UpdBuild
  <2>2. QED
    BY <1>4, <2>1 DEF UpdLocked
<1>10. ASSUME UpdSend PROVE LockMutex'
  <2>1. UpdStop \/ (upd.pc = "send" /\ upd'.pc = "mark" /\ lock' = lock)
    BY <1>3, <1>10 DEF UpdSend
  <2>2. QED
    BY <1>2, <1>4, <2>1 DEF UpdLocked
<1>11. QED
  BY <1>2, <1>5, <1>6, <1>7, <1>8, <1>9, <1>10 DEF Updater, UpdFail, UpdMarkPending

LEMMA RollbackerMutex ==
    ASSUME TypeOK, LockMutex, Rollbacker \/ RbFail
    PROVE  LockMutex'
<1>1. upd' = upd /\ cf' = cf
  BY DEF Rollbacker, RbFail, RbUnchanged, RbRead, RbLock, RbWrite, RbFinish
<1>2. (\A p : [rb EXCEPT !.pc = p].pc = p) /\ WorkIdle.pc = "idle"
  BY DEF TypeOK, MemoryTypeOK, WorkIdle
<1>3. ASSUME NEW t \in TaskIds, RbRead(t) PROVE LockMutex'
  BY <1>1, <1>3 DEF RbRead, LockMutex, UpdLocked, RbLocked, CfLocked
<1>4. ASSUME RbLock \/ RbWrite \/ RbFinish \/ RbFail PROVE LockMutex'
  BY <1>1, <1>2, <1>4 DEF RbLock, RbWrite, RbFinish, RbFail, LockFree,
     LockMutex, UpdLocked, RbLocked, CfLocked
<1>5. QED
  BY <1>3, <1>4 DEF Rollbacker

LEMMA ConfirmerMutex ==
    ASSUME TypeOK, LockMutex, Confirmer \/ CfFail
    PROVE  LockMutex'
<1>1. upd' = upd /\ rb' = rb
  BY DEF Confirmer, CfFail, CfUnchanged, CfRead, CfLock, CfWrite, CfFinish
<1>2. (\A p : [cf EXCEPT !.pc = p].pc = p) /\ WorkIdle.pc = "idle"
  BY DEF TypeOK, MemoryTypeOK, WorkIdle
<1>3. ASSUME NEW t \in TaskIds, CfRead(t) PROVE LockMutex'
  BY <1>1, <1>3 DEF CfRead, LockMutex, UpdLocked, RbLocked, CfLocked
<1>4. ASSUME CfLock \/ CfWrite \/ CfFinish \/ CfFail PROVE LockMutex'
  BY <1>1, <1>2, <1>4 DEF CfLock, CfWrite, CfFinish, CfFail, LockFree,
     LockMutex, UpdLocked, RbLocked, CfLocked
<1>5. QED
  BY <1>3, <1>4 DEF Confirmer

LEMMA NextMutex == TypeOK /\ LockMutex /\ [Next]_vars => LockMutex'
<1> SUFFICES ASSUME TypeOK, LockMutex, [Next]_vars PROVE LockMutex'
  OBVIOUS
<1>1. UNCHANGED <<lock, upd, rb, cf>> => LockMutex'
  BY DEF LockMutex, UpdLocked, RbLocked, CfLocked
<1>2. ASSUME Handlers PROVE UNCHANGED <<lock, upd, rb, cf>>
  BY <1>2 DEF Handlers, Request, SpendSend, SpendCreateTask
<1>3. ASSUME doUpdateDistribution \/ doCheckTx PROVE UNCHANGED <<lock, upd, rb, cf>>
  BY <1>3 DEF doUpdateDistribution, doCheckTx
<1>4. ASSUME Parser PROVE UNCHANGED <<lock, upd, rb, cf>>
  BY <1>4 DEF Parser, ParseUnchanged, ParseOwnUpdate, ParseOtherUpdate, ParseNoLeaf,
     ParseChannelProfit, ParserStoreBlock
<1>5. ASSUME Environment PROVE LockMutex'
  <2>1. ASSUME Crash PROVE LockMutex'
    BY <2>1 DEF Crash, LockMutex, UpdLocked, RbLocked, CfLocked, UpdIdle, WorkIdle
  <2>2. ASSUME LockExpire PROVE LockMutex'
    BY <2>2 DEF LockExpire, LockMutex, UpdLocked, RbLocked, CfLocked
  <2>3. ASSUME \/ \E x \in TxIds : CommitTx(x) \/ RejectTx(x)
               \/ \E a \in Accounts : ForeignCommit(a)
               \/ SyncInfo
        PROVE UNCHANGED <<lock, upd, rb, cf>>
    BY <2>3 DEF CommitTx, RejectTx, ForeignCommit, SyncInfo, EnvUnchanged
  <2>4. QED
    BY <1>1, <1>5, <2>1, <2>2, <2>3 DEF Environment
<1>6. ASSUME UNCHANGED vars PROVE UNCHANGED <<lock, upd, rb, cf>>
  BY <1>6 DEF vars
<1>7. QED
  BY <1>1, <1>2, <1>3, <1>4, <1>5, <1>6, UpdaterMutex, RollbackerMutex, ConfirmerMutex
     DEF Next

\* The updater, the rollback worker and the confirmer write to the SMT server one
\* at a time, however often they fail, and whenever the process crashes.
THEOREM MutualExclusion == Spec => []LockMutex
BY TypeCorrect, InitMutex, NextMutex, PTL DEF Spec

-----------------------------------------------------------------------------
(* At most one task in flight *)

\* The updater goes from its check of the tasks in progress to the write of the
\* SMT over two more steps.  Nothing else puts a task in flight meanwhile, which
\* is what makes the check still good when it is used.
ClearToWrite ==
    upd.pc \in {"cell", "lock", "root"} => \A t \in TaskIds : ~ InFlight(t)

NoTakeOff == \A t \in TaskIds : InFlight(t)' => InFlight(t)

\* A step that puts no task in flight and does not pass the check.
LEMMA KeepsOneInFlight ==
    ASSUME OneInFlight, ClearToWrite, NoTakeOff,
           upd'.pc \in {"cell", "lock", "root"} => upd.pc \in {"cell", "lock", "root"}
    PROVE  OneInFlight' /\ ClearToWrite'
<1>1. OneInFlight'
  BY DEF OneInFlight, NoTakeOff
<1>2. ClearToWrite'
  BY DEF ClearToWrite, NoTakeOff
<1>3. QED
  BY <1>1, <1>2

LEMMA UpdaterOneInFlight ==
    ASSUME TypeOK, StepsOK, OneInFlight, ClearToWrite, Updater \/ UpdFail
    PROVE  OneInFlight' /\ ClearToWrite'
<1> DEFINE Early == {"cell", "lock", "root"}
<1>1. /\ task \in [TaskIds -> Row]
      /\ upd \in [pc : UpdSteps, t : 0..MaxTasks, h : 0..Height]
      /\ UpdIdle.pc = "idle"
  BY DEF TypeOK, DatabaseTypeOK, MemoryTypeOK, UpdIdle
<1>2. UNCHANGED task => NoTakeOff
  BY DEF NoTakeOff, InFlight, At
<1>3. UpdStop => upd'.pc \notin Early
  BY <1>1 DEF UpdStop
<1>4. ASSUME NEW t \in TaskIds, UpdRollbackWriting(t) PROVE OneInFlight' /\ ClearToWrite'
  <2>1. InFlight(t) /\ upd' = upd
    BY <1>4 DEF UpdRollbackWriting, HeadTask, GetNeedToDoTaskList, InFlight, At
  <2>2. \A u \in TaskIds : u # t => task'[u] = task[u]
    BY <1>1, <1>4 DEF UpdRollbackWriting
  <2>3. NoTakeOff
    BY <2>1, <2>2 DEF NoTakeOff, InFlight, At
  <2>4. QED
    BY <2>1, <2>3, KeepsOneInFlight
<1>5. ASSUME NEW t \in TaskIds, UpdCloseStale(t) PROVE OneInFlight' /\ ClearToWrite'
  <2>1. \A u \in TaskIds : task'[u] = task[u] \/ task'[u].type = "Closed"
    BY <1>1, <1>5 DEF UpdCloseStale, Row
  <2>2. NoTakeOff
    BY <2>1 DEF NoTakeOff, InFlight, At
  <2>3. QED
    BY <1>5, <2>2, KeepsOneInFlight DEF UpdCloseStale
<1>6. ASSUME NEW t \in TaskIds, UpdPassNonce(t) PROVE OneInFlight' /\ ClearToWrite'
  <2>1. upd'.pc = "check"
    BY <1>6 DEF UpdPassNonce, UpdIdle
  <2>2. QED
    BY <1>2, <1>6, <2>1, KeepsOneInFlight DEF UpdPassNonce
<1>7. ASSUME UpdCheckInProgress PROVE OneInFlight' /\ ClearToWrite'
  <2>1. NoTakeOff
    BY <1>2, <1>7 DEF UpdCheckInProgress
  <2>2. CASE GetTaskInProgress = {}
    <3>1. \A t \in TaskIds : ~ InFlight(t)
      BY <2>2 DEF GetTaskInProgress, InFlight
    <3>2. QED
      BY <2>1, <3>1 DEF NoTakeOff, OneInFlight, ClearToWrite
  <2>3. CASE GetTaskInProgress # {}
    <3>1. upd'.pc = "idle"
      BY <1>1, <1>7, <2>3 DEF UpdCheckInProgress
    <3>2. QED
      BY <2>1, <3>1, KeepsOneInFlight
  <2>4. QED
    BY <2>2, <2>3
<1>8. ASSUME UpdCheckLiveCell \/ UpdLock PROVE OneInFlight' /\ ClearToWrite'
  <2>1. upd.pc \in Early /\ task' = task
    BY <1>8 DEF UpdCheckLiveCell, UpdLock
  <2>2. QED
    BY <1>2, <2>1, KeepsOneInFlight
<1>9. ASSUME UpdDiffScript PROVE OneInFlight' /\ ClearToWrite'
  <2>1. \A u \in TaskIds : task'[u] = task[u] \/ task'[u].smt = RollbackComplete
    BY <1>1, <1>9 DEF UpdDiffScript, Row
  <2>2. NoTakeOff
    BY <2>1 DEF NoTakeOff, InFlight, At, RollbackComplete, Writing, WriteComplete,
       NeedToRollback
  <2>3. upd'.pc = "idle"
    BY <1>1, <1>9 DEF UpdDiffScript
  <2>4. QED
    BY <2>2, <2>3, KeepsOneInFlight
<1>10. ASSUME UpdStartWrite PROVE OneInFlight' /\ ClearToWrite'
  <2>1. \A t \in TaskIds : ~ InFlight(t)
    BY <1>10 DEF UpdStartWrite, ClearToWrite
  <2>2. \A t \in TaskIds : t # upd.t => task'[t] = task[t]
    BY <1>1, <1>10 DEF UpdStartWrite
  <2>3. \A t \in TaskIds : InFlight(t)' => t = upd.t
    BY <2>1, <2>2 DEF InFlight, At
  <2>4. upd'.pc = "write"
    BY <1>1, <1>10 DEF UpdStartWrite
  <2>5. QED
    BY <2>3, <2>4 DEF OneInFlight, ClearToWrite
<1>11. ASSUME UpdWriteSmt \/ UpdSend PROVE OneInFlight' /\ ClearToWrite'
  <2>1. task' = task
    BY <1>11 DEF UpdWriteSmt, UpdSend
  <2>2. upd'.pc \notin Early
    BY <1>1, <1>3, <1>11 DEF UpdWriteSmt, UpdSend
  <2>3. QED
    BY <1>2, <2>1, <2>2, KeepsOneInFlight
<1>12. ASSUME UpdBuild PROVE OneInFlight' /\ ClearToWrite'
  <2>1. upd'.pc = "send"
    BY <1>1, <1>12 DEF UpdBuild
  <2>2. \A t \in TaskIds : /\ task'[t].type = task[t].type
                           /\ task'[t].smt = task[t].smt
                           /\ task'[t].tx = task[t].tx
    BY <1>1, <1>12 DEF UpdBuild, Row
  <2>3. NoTakeOff
    BY <2>2 DEF NoTakeOff, InFlight, At
  <2>4. QED
    BY <2>1, <2>3, KeepsOneInFlight
<1>13. ASSUME UpdMarkPending PROVE OneInFlight' /\ ClearToWrite'
  <2>1. \A t \in TaskIds : t # upd.t => task'[t] = task[t]
    BY <1>1, <1>13 DEF UpdMarkPending
  <2>2. upd.t \in TaskIds /\ ~ UNCHANGED task =>
           task'[upd.t].type = task[upd.t].type /\ At(upd.t, Writing, UnSend)
    BY <1>1, <1>13 DEF UpdMarkPending, Row
  <2>3. NoTakeOff
    <3>1. CASE UNCHANGED task
      BY <1>2, <3>1
    <3>2. CASE ~ UNCHANGED task
      <4>1. \A t \in TaskIds : t # upd.t /\ InFlight(t)' => InFlight(t)
        BY <2>1 DEF InFlight, At
      <4>2. \A t \in TaskIds : t = upd.t /\ InFlight(t)' => InFlight(t)
        BY <2>2, <3>2 DEF InFlight, At
      <4>3. QED
        BY <4>1, <4>2 DEF NoTakeOff
    <3>3. QED
      BY <3>1, <3>2
  <2>4. QED
    BY <1>3, <1>13, <2>3, KeepsOneInFlight DEF UpdMarkPending
<1>14. ASSUME UpdFail PROVE OneInFlight' /\ ClearToWrite'
  BY <1>2, <1>3, <1>14, KeepsOneInFlight DEF UpdFail
<1>15. QED
  BY <1>4, <1>5, <1>6, <1>7, <1>8, <1>9, <1>10, <1>11, <1>12, <1>13, <1>14 DEF Updater

\* Only tasks of its list are lost to the checker.
LEMMA CheckedTasksAreListed ==
    ASSUME doCheckTx
    PROVE  \E lost \in SUBSET GetNeedDoCheckTxTaskList :
             /\ \A t \in GetNeedDoCheckTxTaskList :
                  t \in lost <=> \/ NodeRejected(task[t].out)
                                \/ \E d \in lost : d < t /\ task[t].ref = task[d].out
             /\ task' = [t \in TaskIds |->
                           IF t \in lost
                           THEN [task[t] EXCEPT !.smt = NeedToRollback, !.tx = Rejected]
                           ELSE task[t]]
BY Zenon DEF doCheckTx

\* The other goroutines, the handlers and the parser put no task in flight.
LEMMA OthersTakeNoOff ==
    ASSUME TypeOK, StepsOK,
           \/ Handlers \/ doUpdateDistribution \/ doCheckTx \/ Rollbacker \/ RbFail
           \/ Confirmer \/ CfFail \/ Parser \/ Environment \/ UNCHANGED vars
    PROVE  NoTakeOff
<1>1. task \in [TaskIds -> Row] /\ nTask \in 1..MaxTasks
  BY DEF TypeOK, DatabaseTypeOK
<1> DEFINE Landed(t) == \/ task'[t].type # "Delegate"
                        \/ task'[t].smt = NeedToWrite
                        \/ task'[t].smt = RollbackComplete
                        \/ task'[t].smt = WriteComplete /\ task'[t].tx = Committed
<1>2. (\A t \in TaskIds : task'[t] = task[t] \/ Landed(t)) => NoTakeOff
  BY DEF NoTakeOff, InFlight, At, NeedToWrite, Writing, WriteComplete, NeedToRollback,
     RollbackComplete, Pending, Committed
<1>3. UNCHANGED task => NoTakeOff
  BY <1>2
<1>4. ASSUME Handlers PROVE NoTakeOff
  <2>1. CASE SpendCreateTask
    <3>1. \/ UNCHANGED task
          \/ \E type \in {"Chain", "Normal"}, own \in BOOLEAN :
               task' = [task EXCEPT ![nTask + 1] =
                         [NoRow EXCEPT !.type = type, !.smt = WriteComplete, !.tx = Pending,
                                       !.own = own, !.out = hnd, !.from = "handler"]]
      BY <2>1 DEF SpendCreateTask
    <3>2. \A t \in TaskIds : task'[t] = task[t] \/ task'[t].type \in {"Chain", "Normal"}
      BY <1>1, <3>1 DEF NoRow
    <3>3. QED
      BY <1>2, <3>2
  <2>2. CASE ~ SpendCreateTask
    BY <1>3, <1>4, <2>2 DEF Handlers, Request, SpendSend, db
  <2>3. QED
    BY <2>1, <2>2
<1>5. ASSUME doUpdateDistribution PROVE NoTakeOff
  <2>1. PICK k : task' = [t \in TaskIds |->
                            IF t \in nTask + 1 .. nTask + k
                            THEN [NoRow EXCEPT !.type = "Delegate", !.own = TRUE,
                                               !.script = tx[LiveCell].script,
                                               !.from = "distribution"]
                            ELSE task[t]]
    BY <1>5 DEF doUpdateDistribution
  <2> DEFINE new == [NoRow EXCEPT !.type = "Delegate", !.own = TRUE,
                                  !.script = tx[LiveCell].script, !.from = "distribution"]
             In(t) == t \in nTask + 1 .. nTask + k
  <2>3. new.smt = NeedToWrite
    BY DEF NoRow, NeedToWrite
  <2>4. task' = [t \in TaskIds |-> IF In(t) THEN new ELSE task[t]]
    BY <2>1
  <2> HIDE DEF new, In
  <2>5. \A t \in TaskIds : task'[t] = task[t] \/ task'[t].smt = NeedToWrite
    BY <2>3, <2>4
  <2>2. QED
    BY <1>2, <2>5
<1>6. ASSUME doCheckTx PROVE NoTakeOff
  <2>1. PICK lost \in SUBSET GetNeedDoCheckTxTaskList :
          task' = [t \in TaskIds |->
                        IF t \in lost
                        THEN [task[t] EXCEPT !.smt = NeedToRollback, !.tx = Rejected]
                        ELSE task[t]]
    BY <1>6, CheckedTasksAreListed
  <2>2. \A t \in TaskIds : \/ task'[t] = task[t]
                           \/ /\ task'[t].type = task[t].type
                              /\ At(t, WriteComplete, Pending)
    BY <1>1, <2>1 DEF GetNeedDoCheckTxTaskList, Row
  <2>3. QED
    BY <2>2 DEF NoTakeOff, InFlight, At
<1>7. ASSUME Rollbacker \/ RbFail PROVE NoTakeOff
  <2>1. CASE RbFinish
    <3>1. \A t \in TaskIds : \/ task'[t] = task[t]
                             \/ task'[t].smt \in {NeedToWrite, RollbackComplete}
      BY <1>1, <2>1 DEF RbFinish, Row
    <3>2. QED
      BY <1>2, <3>1
  <2>2. CASE ~ RbFinish
    BY <1>3, <1>7, <2>2 DEF Rollbacker, RbFail, RbRead, RbLock, RbWrite
  <2>3. QED
    BY <2>1, <2>2
<1>8. ASSUME Confirmer \/ CfFail PROVE NoTakeOff
  <2>1. CASE CfFinish
    <3>1. \A t \in TaskIds : \/ task'[t] = task[t]
                             \/ task'[t].smt = WriteComplete /\ task'[t].tx = Committed
      BY <1>1, <2>1 DEF CfFinish, Row, At
    <3>2. QED
      BY <1>2, <3>1
  <2>2. CASE ~ CfFinish
    BY <1>3, <1>8, <2>2 DEF Confirmer, CfFail, CfRead, CfLock, CfWrite
  <2>3. QED
    BY <2>1, <2>2
<1>9. ASSUME Parser PROVE NoTakeOff
  <2>1. CASE ParseOwnUpdate
    <3>1. \A t \in TaskIds : task'[t] = task[t] \/ task'[t].type = "Chain"
      <4>1. PICK t \in TaskIds :
              task' = [task EXCEPT ![t].type = "Chain", ![t].smt = NeedToWrite,
                                   ![t].tx = Committed, ![t].bn = parsed + 1]
        BY <2>1 DEF ParseOwnUpdate, GetTaskByRefOutpointAndOutpoint
      <4>2. QED
        BY <1>1, <4>1 DEF Row
    <3>2. QED
      BY <1>2, <3>1
  <2>2. CASE ParseOtherUpdate
    <3>1. \A t \in TaskIds : task'[t] = task[t] \/ task'[t].type = "Chain"
      BY <1>1, <2>2 DEF ParseOtherUpdate, NoRow
    <3>2. QED
      BY <1>2, <3>1
  <2>3. CASE ParseNoLeaf
    <3>1. \A t \in TaskIds : task'[t] = task[t] \/ task'[t].type \in {"Chain", "Absent"}
      BY <1>1, <2>3 DEF ParseNoLeaf, NoRow
    <3>2. QED
      BY <1>2, <3>1
  <2>4. CASE ParseChannelProfit
    <3>1. \A t \in TaskIds : \/ task'[t] = task[t]
                             \/ /\ task'[t].type = task[t].type
                                /\ task'[t].smt = task[t].smt
                                /\ task'[t].tx = Committed
      BY <1>1, <2>4 DEF ParseChannelProfit, Row
    <3>2. QED
      BY <3>1 DEF NoTakeOff, InFlight, At, UnSend, Pending, Committed
  <2>5. CASE ParserStoreBlock
    BY <1>3, <2>5 DEF ParserStoreBlock
  <2>6. QED
    BY <1>9, <2>1, <2>2, <2>3, <2>4, <2>5 DEF Parser
<1>10. ASSUME Environment \/ UNCHANGED vars PROVE NoTakeOff
  BY <1>3, <1>10 DEF Environment, CommitTx, RejectTx, ForeignCommit, SyncInfo, Crash,
     LockExpire, EnvUnchanged, db, vars
<1>11. QED
  BY <1>4, <1>5, <1>6, <1>7, <1>8, <1>9, <1>10

LEMMA NextOneInFlight ==
    TypeOK /\ StepsOK /\ OneInFlight /\ ClearToWrite /\ [Next]_vars
      => OneInFlight' /\ ClearToWrite'
<1> SUFFICES ASSUME TypeOK, StepsOK, OneInFlight, ClearToWrite, [Next]_vars
             PROVE  OneInFlight' /\ ClearToWrite'
  OBVIOUS
<1>1. CASE Updater \/ UpdFail
  BY <1>1, UpdaterOneInFlight
<1>2. CASE ~ (Updater \/ UpdFail)
  <2>1. NoTakeOff
    BY <1>2, OthersTakeNoOff DEF Next
  <2>2. upd' = upd \/ upd' = UpdIdle
    BY <1>2 DEF Next, vars, Handlers, Request, SpendSend, SpendCreateTask,
       doUpdateDistribution, doCheckTx, Rollbacker, RbFail, RbRead, RbLock, RbWrite,
       RbFinish, RbUnchanged, Confirmer, CfFail, CfRead, CfLock, CfWrite, CfFinish,
       CfUnchanged, Parser, ParseOwnUpdate, ParseOtherUpdate, ParseNoLeaf,
       ParseChannelProfit, ParserStoreBlock, ParseUnchanged, Environment, CommitTx,
       RejectTx, ForeignCommit, SyncInfo, Crash, LockExpire, EnvUnchanged
  <2>3. QED
    BY <2>1, <2>2, KeepsOneInFlight DEF UpdIdle
<1>3. QED
  BY <1>1, <1>2

\* At most one delegate task of the parent is being written, in the pool or waiting
\* to be rolled back: the check the updater makes two steps and a lock before it
\* writes is enough, with any number of tasks and whatever fails or crashes.
THEOREM AtMostOneInFlight == Spec => []OneInFlight
<1>1. Init => OneInFlight /\ ClearToWrite
  <2>1. ASSUME Init PROVE \A t \in TaskIds : ~ InFlight(t)
    BY <2>1 DEF Init, InFlight, NoRow
  <2>2. QED
    BY <2>1 DEF OneInFlight, ClearToWrite
<1>2. Spec => [](TypeOK /\ StepsOK)
  BY InitTyped, NextTyped, PTL DEF Spec
<1>3. QED
  BY <1>1, <1>2, NextOneInFlight, PTL DEF Spec

=============================================================================
