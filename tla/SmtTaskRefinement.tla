-------------------------- MODULE SmtTaskRefinement --------------------------
(* Proofs that a task of SmtTask ends one way only, that nothing given up is  *)
(* on chain, and that SmtTask implements SmtBatch.                            *)
EXTENDS SmtTaskProofs

-----------------------------------------------------------------------------
(* The inductive invariant *)

Of(t, type, s, x) == task[t].type = type /\ task[t].smt = s /\ task[t].tx = x
FromDistribution(t) == task[t].from = "distribution"

\* A transaction that is on chain or may get there, and what is known of one
\* built for a task: it is an update, and when the node took it the cell it
\* spends was on chain.
Live(x) == tx[x].status \in {"pool", "committed"}
OnChain(x) == x \in TxIds /\ x <= nTx /\ tx[x].status = "committed"
TxOk(x) ==
    /\ x > nTx => tx[x].status = "absent"
    /\ tx[x].by # 0 => tx[x].kind = "update"
    /\ Live(x) /\ tx[x].by # 0 => OnChain(tx[x].ref)
TxsOk == /\ \A x \in TxIds : TxOk(x)
         /\ \A h \in 1..Height : OnChain(chain[h])

\* What is known of a row, by where it came from: ids are given out in order,
\* the handlers' rows name no cell, only the distributor's are retried, and the
\* outpoints of those are those of the transaction built for them.
RowOk(t) ==
    /\ t > nTask => task[t] = NoRow
    /\ task[t].type = "Delegate" => FromDistribution(t)
    /\ task[t].type = "Closed" => FromDistribution(t) /\ Of(t, "Closed", NeedToWrite, UnSend)
    /\ ~ FromDistribution(t) => task[t].retry = 0
    /\ task[t].smt = WriteComplete /\ task[t].tx = Pending =>
         /\ task[t].out # 0
         /\ \/ task[t].type = "Delegate"
            \/ ~ FromDistribution(t) /\ task[t].ref = 0
    /\ FromDistribution(t) /\ task[t].out # 0 =>
         /\ task[t].out <= nTx
         /\ tx[task[t].out].by = t
         /\ tx[task[t].out].ref = task[t].ref
         /\ task[t].ref # 0
RowsOk == \A t \in TaskIds : RowOk(t)

\* The task in the updater's hands is its own until the transaction is marked.
UpdTask ==
    /\ upd.pc \in {"check", "cell", "lock", "root"} => Of(upd.t, "Delegate", NeedToWrite, UnSend)
    /\ upd.pc \in {"write", "build", "send", "mark"} => Of(upd.t, "Delegate", Writing, UnSend)
    /\ upd.pc \in {"send", "mark"} => task[upd.t].out # 0
    /\ upd.pc = "send" => tx[task[upd.t].out].status = "built"

\* A transaction that may get on chain is the last one built for its task, and
\* the task is marked so, or about to be.
LinkedTx(x) ==
    LET t == tx[x].by
    IN  Live(x) /\ t # 0 =>
          /\ task[t].out = x
          /\ \/ Of(t, "Delegate", WriteComplete, Pending)
             \/ task[t].type = "Chain" /\ FromDistribution(t) /\ tx[x].status = "committed"
             \/ Of(t, "Delegate", Writing, UnSend) /\ upd.pc = "mark" /\ upd.t = t
Linked == \A x \in TxIds : LinkedTx(x)

\* What the proofs carry along; SmtInv0 holds whether or not SendMarked does.
SmtInv0 == TypeOK /\ StepsOK /\ TxsOk /\ RowsOk /\ UpdTask
SmtInv == SmtInv0 /\ OneInFlight /\ ClearToWrite /\ Linked

\* The step that EndIsFinal asks for.
EndStays(t) ==
    /\ task[t].type = "Chain" => task'[t].type \in {"Chain", "Absent"}
    /\ task[t].type = "Closed" => task'[t] = task[t]
    /\ GivenUp(t) => task'[t] = task[t]
EndsStay == \A t \in TaskIds : EndStays(t)

-----------------------------------------------------------------------------
(* Steps of SmtBatch, from what happens to each task *)

SameStates == \A u \in TaskIds : BatchState(u)' = BatchState(u)
OtherStates(t) == \A u \in TaskIds \ {t} : BatchState(u)' = BatchState(u)
SameTries == \A u \in TaskIds : task'[u].retry = task[u].retry
SameMined == \A u \in TaskIds : MinedBatch(u)' = MinedBatch(u)
BatchStep == Batch!BatchNext \/ UNCHANGED Batch!batchVars

LEMMA BatchStutters ==
    ASSUME SameStates, SameTries, SameMined
    PROVE  BatchStep
BY DEF SameStates, SameTries, SameMined, BatchStep, Batch!batchVars

LEMMA BatchMoves ==
    ASSUME NEW t \in TaskIds, OtherStates(t), NEW s, BatchState(t)' = s
    PROVE  [u \in TaskIds |-> BatchState(u)]' = [[u \in TaskIds |-> BatchState(u)] EXCEPT ![t] = s]
BY DEF OtherStates

LEMMA BatchTries ==
    ASSUME NEW t \in TaskIds, OtherStates(t), SameTries, SameMined,
           \A u \in TaskIds : BatchState(u) # "tried",
           BatchState(t) = "waiting", ~ MinedBatch(t), BatchState(t)' = "tried"
    PROVE  BatchStep
<1>1. Batch!Move(t, "waiting", "tried")
  BY BatchMoves DEF Batch!Move
<1>2. Batch!Try(t)
  BY <1>1 DEF Batch!Try, SameTries, SameMined
<1>3. QED
  BY <1>2 DEF Batch!BatchNext, BatchStep

LEMMA BatchFinishes ==
    ASSUME NEW t \in TaskIds, OtherStates(t), SameTries, SameMined,
           BatchState(t) = "tried", MinedBatch(t), BatchState(t)' = "done"
    PROVE  BatchStep
<1>1. Batch!Move(t, "tried", "done")
  BY BatchMoves DEF Batch!Move
<1>2. Batch!Finish(t)
  BY <1>1 DEF Batch!Finish, SameTries, SameMined
<1>3. QED
  BY <1>2 DEF Batch!BatchNext, BatchStep

LEMMA BatchGivesUp ==
    ASSUME NEW t \in TaskIds, OtherStates(t), SameTries, SameMined,
           BatchState(t) = "tried", ~ MinedBatch(t), task[t].retry = MaxRetry,
           BatchState(t)' = "ended"
    PROVE  BatchStep
<1>1. Batch!Move(t, "tried", "ended")
  BY BatchMoves DEF Batch!Move
<1>2. Batch!GiveUp(t)
  BY <1>1 DEF Batch!GiveUp, SameTries, SameMined
<1>3. QED
  BY <1>2 DEF Batch!BatchNext, BatchStep

LEMMA BatchDrops ==
    ASSUME NEW t \in TaskIds, OtherStates(t), SameTries, SameMined,
           BatchState(t) = "waiting", ~ MinedBatch(t), BatchState(t)' = "ended"
    PROVE  BatchStep
<1>1. Batch!Move(t, "waiting", "ended")
  BY BatchMoves DEF Batch!Move
<1>2. Batch!Drop(t)
  BY <1>1 DEF Batch!Drop, SameTries, SameMined
<1>3. QED
  BY <1>2 DEF Batch!BatchNext, BatchStep

LEMMA BatchIsTakenBack ==
    ASSUME NEW t \in TaskIds, OtherStates(t), SameMined,
           \A u \in TaskIds \ {t} : task'[u].retry = task[u].retry,
           BatchState(t) = "tried", ~ MinedBatch(t), BatchState(t)' = "waiting",
           task[t].retry < MaxRetry, task'[t].retry = task[t].retry + 1
    PROVE  BatchStep
<1>1. Batch!Move(t, "tried", "waiting")
  BY BatchMoves DEF Batch!Move
<1>2. [u \in TaskIds |-> task[u].retry]'
        = [[u \in TaskIds |-> task[u].retry] EXCEPT ![t] = @ + 1]
  OBVIOUS
<1>3. Batch!TakeBack(t)
  BY <1>1, <1>2 DEF Batch!TakeBack, SameMined
<1>4. QED
  BY <1>3 DEF Batch!BatchNext, BatchStep

LEMMA BatchIsMined ==
    ASSUME NEW t \in TaskIds, SameStates, SameTries,
           \A u \in TaskIds \ {t} : MinedBatch(u)' = MinedBatch(u),
           BatchState(t) = "tried", ~ MinedBatch(t), MinedBatch(t)'
    PROVE  BatchStep
<1>1. [u \in TaskIds |-> MinedBatch(u)]'
        = [[u \in TaskIds |-> MinedBatch(u)] EXCEPT ![t] = TRUE]
  BY DEF MinedBatch
<1>2. Batch!Mine(t)
  BY <1>1 DEF Batch!Mine, SameStates, SameTries
<1>3. QED
  BY <1>2 DEF Batch!BatchNext, BatchStep

LEMMA BatchesAreQueued ==
    ASSUME NEW new \in SUBSET TaskIds, SameTries, SameMined,
           \A u \in new : BatchState(u) = "none" /\ BatchState(u)' = "waiting",
           \A u \in TaskIds \ new : BatchState(u)' = BatchState(u)
    PROVE  BatchStep
<1>1. Batch!Queue(new)
  BY DEF Batch!Queue, SameTries, SameMined
<1>2. QED
  BY <1>1 DEF Batch!BatchNext, BatchStep

-----------------------------------------------------------------------------
(* What a step that leaves most of the state alone keeps *)

OneRow(t) == \A u \in TaskIds \ {t} : task'[u] = task[u]
TxKept ==
    /\ nTx <= nTx'
    /\ \A x \in TxIds : x <= nTx => tx'[x].by = tx[x].by /\ tx'[x].ref = tx[x].ref
NoLive(t) == \A x \in TxIds : Live(x) => tx[x].by # t

\* Tasks that the updater may be at work on.
Unsent(t) == Of(t, "Delegate", NeedToWrite, UnSend) \/ Of(t, "Delegate", Writing, UnSend)

LEMMA SameNet ==
    ASSUME TypeOK, UNCHANGED net
    PROVE  TxKept /\ SameMined /\ (TxsOk => TxsOk')
<1>1. TxKept /\ SameMined
  BY DEF net, TxKept, SameMined, MinedBatch, TypeOK, NodeTypeOK, TxIds
<1>2. TxsOk => TxsOk'
  BY DEF net, TxsOk, TxOk, OnChain, Live, Height
<1>3. QED
  BY <1>1, <1>2

LEMMA SameRow ==
    ASSUME NEW u \in TaskIds, task'[u] = task[u]
    PROVE  /\ BatchState(u)' = BatchState(u)
           /\ task'[u].retry = task[u].retry
           /\ EndStays(u)
BY DEF BatchState, GivenUp, InFlight, At, EndStays

LEMMA RowKept ==
    ASSUME TypeOK, TypeOK', NEW u \in TaskIds, RowOk(u), task'[u] = task[u], nTask <= nTask', TxKept
    PROVE  RowOk(u)'
<1>1. /\ task[u].out \in 0..MaxTxs
      /\ nTask \in Nat /\ nTask' \in Nat /\ u \in Nat
      /\ nTx \in Nat /\ nTx' \in Nat
  BY BoundsTyped DEF TypeOK, DatabaseTypeOK, NodeTypeOK, Row, TaskIds, TxIds
<1>2. u > nTask' => task'[u] = NoRow
  BY <1>1 DEF RowOk
<1>3. ASSUME FromDistribution(u), task[u].out # 0
      PROVE  /\ task[u].out <= nTx'
             /\ tx'[task[u].out].by = u
             /\ tx'[task[u].out].ref = task[u].ref
             /\ task[u].ref # 0
  <2>1. task[u].out \in TxIds /\ task[u].out <= nTx
    BY <1>1, <1>3, BoundsTyped DEF RowOk, TxIds
  <2>2. QED
    BY <1>1, <1>3, <2>1 DEF RowOk, TxKept
<1>4. QED
  BY <1>2, <1>3 DEF RowOk, FromDistribution, Of

LEMMA SameRows ==
    ASSUME SmtInv0, TypeOK', UNCHANGED <<task, nTask>>, TxKept
    PROVE  RowsOk' /\ EndsStay /\ SameStates /\ SameTries
<1>1. nTask <= nTask'
  BY DEF SmtInv0, TypeOK, DatabaseTypeOK
<1>2. RowsOk'
  BY <1>1, RowKept DEF SmtInv0, RowsOk
<1>3. QED
  BY <1>2, SameRow DEF EndsStay, SameStates, SameTries

LEMMA OtherRows ==
    ASSUME SmtInv0, TypeOK', NEW t \in TaskIds, OneRow(t), nTask <= nTask', TxKept,
           RowOk(t)', EndStays(t)
    PROVE  /\ RowsOk' /\ EndsStay /\ OtherStates(t)
           /\ \A u \in TaskIds \ {t} : task'[u].retry = task[u].retry
<1>1. ASSUME NEW u \in TaskIds, u # t
      PROVE  /\ RowOk(u)' /\ EndStays(u)
             /\ BatchState(u)' = BatchState(u)
             /\ task'[u].retry = task[u].retry
  BY <1>1, RowKept, SameRow DEF OneRow, SmtInv0, RowsOk
<1>2. QED
  BY <1>1 DEF RowsOk, EndsStay, OtherStates

LEMMA UpdTaskKept ==
    ASSUME SmtInv0, upd' = upd \/ upd' = UpdIdle,
           \A x \in TxIds : tx[x].status = "built" => tx'[x].status = "built",
           \A u \in TaskIds : Unsent(u) => task'[u] = task[u]
    PROVE  UpdTask'
<1>1. CASE upd' = UpdIdle
  BY <1>1 DEF UpdTask, UpdIdle
<1>2. CASE upd' = upd /\ upd.pc # "idle"
  <2>1. upd.t \in TaskIds /\ upd.pc \in UpdSteps
    BY <1>2 DEF SmtInv0, StepsOK, TypeOK, MemoryTypeOK
  <2>2. task'[upd.t] = task[upd.t]
    BY <1>2, <2>1 DEF SmtInv0, UpdTask, UpdSteps, Unsent
  <2>3. task[upd.t].out # 0 => task[upd.t].out \in TxIds
    BY <2>1, BoundsTyped DEF SmtInv0, TypeOK, DatabaseTypeOK, Row, TxIds
  <2>4. QED
    BY <1>2, <2>2, <2>3 DEF SmtInv0, UpdTask, Of
<1>3. CASE upd' = upd /\ upd.pc = "idle"
  BY <1>3 DEF UpdTask
<1>4. QED
  BY <1>1, <1>2, <1>3

LEMMA NoLiveTx ==
    ASSUME Linked, NEW t \in TaskIds, task[t].type # "Chain",
           ~ Of(t, "Delegate", WriteComplete, Pending),
           ~ (Of(t, "Delegate", Writing, UnSend) /\ upd.pc = "mark" /\ upd.t = t)
    PROVE  NoLive(t) /\ ~ MinedBatch(t)
<1>1. t # 0
  BY DEF TaskIds
<1>2. NoLive(t)
  BY <1>1 DEF Linked, LinkedTx, NoLive
<1>3. QED
  BY <1>2 DEF NoLive, Live, MinedBatch

LEMMA LinkedKept ==
    ASSUME TypeOK, Linked, UNCHANGED tx,
           \A u \in TaskIds : \/ /\ task'[u] = task[u]
                                 /\ upd' = upd \/ upd.pc # "mark" \/ upd.t # u
                              \/ NoLive(u)
                              \/ \A x \in TxIds : tx[x].by = u => LinkedTx(x)'
    PROVE  Linked'
<1>1. ASSUME NEW x \in TxIds PROVE LinkedTx(x)'
  <2>1. CASE tx[x].by = 0 \/ ~ Live(x)
    BY <2>1 DEF LinkedTx, Live
  <2>2. CASE tx[x].by # 0 /\ Live(x)
    <3>1. tx[x].by \in TaskIds
      BY <2>2, BoundsTyped DEF TypeOK, NodeTypeOK, Tx, TaskIds
    <3>2. ~ NoLive(tx[x].by)
      BY <2>2 DEF NoLive
    <3>3. LinkedTx(x)
      BY DEF Linked
    <3>4. CASE /\ task'[tx[x].by] = task[tx[x].by]
               /\ upd' = upd \/ upd.pc # "mark" \/ upd.t # tx[x].by
      BY <2>2, <3>3, <3>4 DEF LinkedTx, Live, Of, FromDistribution
    <3>5. QED
      BY <3>1, <3>2, <3>4
  <2>3. QED
    BY <2>1, <2>2
<1>2. QED
  BY <1>1 DEF Linked

-----------------------------------------------------------------------------
(* Every step keeps the invariant, no task that ended is touched, and while  *)
(* what was sent is recorded it is a step of SmtBatch                        *)

Sound ==
    /\ RowsOk' /\ TxsOk' /\ UpdTask' /\ EndsStay
    /\ SendMarked /\ OneInFlight /\ ClearToWrite /\ Linked => Linked' /\ BatchStep

LEMMA NoRowStep ==
    ASSUME SmtInv0, TypeOK', UNCHANGED <<task, nTask, net>>, UpdTask',
           upd' = upd \/ upd.pc # "mark" \/ ~ SendMarked
    PROVE  Sound
<1>1. TxKept /\ SameMined /\ TxsOk'
  BY SameNet DEF SmtInv0
<1>2. RowsOk' /\ EndsStay /\ SameStates /\ SameTries
  BY <1>1, SameRows
<1>3. ASSUME SendMarked, Linked PROVE Linked'
  BY <1>3, LinkedKept DEF SmtInv0, net
<1>4. BatchStep
  BY <1>1, <1>2, BatchStutters
<1>5. QED
  BY <1>1, <1>2, <1>3, <1>4 DEF Sound

\* Steps that a task, its transaction and the updater's hold on them do not see.
LEMMA StillStep ==
    ASSUME SmtInv0, TypeOK', UNCHANGED <<task, nTask, net>>,
           \/ upd' = upd
           \/ upd' = UpdIdle /\ (SendMarked => upd.pc # "mark")
    PROVE  Sound
<1>1. UpdTask'
  BY UpdTaskKept DEF net
<1>2. QED
  BY <1>1, NoRowStep

\* A step that changes the row of task t and nothing else of the tables.
OneRowStep(t) == OneRow(t) /\ UNCHANGED <<nTask, net>>

Becomes(t, type, s, x) ==
    /\ OneRowStep(t)
    /\ task'[t].type = type /\ task'[t].smt = s /\ task'[t].tx = x
    /\ task'[t].retry = task[t].retry
    /\ task'[t].ref = task[t].ref /\ task'[t].out = task[t].out
    /\ task'[t].from = task[t].from

LEMMA RowBecomes ==
    ASSUME SmtInv0, NEW t \in TaskIds, NEW type, NEW s, NEW x, Becomes(t, type, s, x),
           task[t].type # "Absent" \/ task[t].smt # NeedToWrite,
           type = "Delegate" => FromDistribution(t),
           type = "Closed" => FromDistribution(t) /\ s = NeedToWrite /\ x = UnSend,
           s = WriteComplete /\ x = Pending =>
             /\ task[t].out # 0
             /\ type = "Delegate" \/ (~ FromDistribution(t) /\ task[t].ref = 0)
    PROVE  RowOk(t)'
<1>1. RowOk(t) /\ t \in Nat /\ nTask \in Nat
  BY DEF SmtInv0, RowsOk, TypeOK, DatabaseTypeOK, TaskIds
<1>2. t <= nTask
  BY <1>1 DEF RowOk, NoRow, NeedToWrite
<1>3. ~ (t > nTask')
  BY <1>1, <1>2 DEF Becomes, OneRowStep
<1>4. ASSUME FromDistribution(t), task[t].out # 0
      PROVE  /\ task'[t].out <= nTx'
             /\ tx'[task'[t].out].by = t
             /\ tx'[task'[t].out].ref = task'[t].ref
             /\ task'[t].ref # 0
  BY <1>1, <1>4 DEF RowOk, Becomes, OneRowStep, net
<1>5. QED
  BY <1>1, <1>3, <1>4 DEF RowOk, Becomes, FromDistribution, Of

\* What a step that changes one row of the tables leaves to be shown.
LEMMA RowStep ==
    ASSUME SmtInv0, TypeOK', NEW t \in TaskIds, OneRowStep(t), RowOk(t)', EndStays(t), UpdTask',
           upd' = upd \/ upd.pc # "mark" \/ upd.t = t \/ ~ SendMarked,
           SendMarked /\ OneInFlight /\ ClearToWrite /\ Linked =>
             /\ NoLive(t) \/ \A x \in TxIds : tx[x].by = t => LinkedTx(x)'
             /\ OtherStates(t) /\ SameMined
                /\ (\A u \in TaskIds \ {t} : task'[u].retry = task[u].retry) => BatchStep
    PROVE  Sound
<1>1. TxKept /\ SameMined /\ TxsOk'
  BY SameNet DEF SmtInv0, OneRowStep
<1>2. nTask <= nTask'
  BY DEF SmtInv0, OneRowStep, TypeOK, DatabaseTypeOK
<1>3. /\ RowsOk' /\ EndsStay /\ OtherStates(t)
      /\ \A u \in TaskIds \ {t} : task'[u].retry = task[u].retry
  BY <1>1, <1>2, OtherRows DEF OneRowStep
<1>4. ASSUME SendMarked, OneInFlight, ClearToWrite, Linked PROVE Linked'
  <2>1. UNCHANGED tx /\ TypeOK
    BY DEF OneRowStep, net, SmtInv0
  <2>2. QED
    BY <1>4, <2>1, LinkedKept DEF OneRowStep, OneRow
<1>5. QED
  BY <1>1, <1>3, <1>4 DEF Sound

\* What the statements that update a row do to its fields.
LEMMA RowUpdates ==
    ASSUME TypeOK, NEW t \in TaskIds, UNCHANGED <<nTask, net>>
    PROVE  /\ \A s : task' = [task EXCEPT ![t].smt = s] => Becomes(t, task[t].type, s, task[t].tx)
           /\ \A s, x : task' = [task EXCEPT ![t].smt = s, ![t].tx = x]
                          => Becomes(t, task[t].type, s, x)
           /\ \A y : task' = [task EXCEPT ![t].type = y] => Becomes(t, y, task[t].smt, task[t].tx)
<1>1. task \in [TaskIds -> Row]
  BY DEF TypeOK, DatabaseTypeOK
<1>2. ASSUME NEW s, task' = [task EXCEPT ![t].smt = s]
      PROVE  Becomes(t, task[t].type, s, task[t].tx)
  BY <1>1, <1>2 DEF Becomes, OneRowStep, OneRow, Row
<1>3. ASSUME NEW s, NEW x, task' = [task EXCEPT ![t].smt = s, ![t].tx = x]
      PROVE  Becomes(t, task[t].type, s, x)
  BY <1>1, <1>3 DEF Becomes, OneRowStep, OneRow, Row
<1>4. ASSUME NEW y, task' = [task EXCEPT ![t].type = y]
      PROVE  Becomes(t, y, task[t].smt, task[t].tx)
  BY <1>1, <1>4 DEF Becomes, OneRowStep, OneRow, Row
<1>5. QED
  BY <1>2, <1>3, <1>4

\* The state of a batch, by the fields of its row.
LEMMA StateOfRow ==
    ASSUME NEW t \in TaskIds, FromDistribution(t)
    PROVE  /\ task[t].type = "Chain" => BatchState(t) = "done"
           /\ task[t].type = "Closed" => BatchState(t) = "ended"
           /\ Of(t, "Delegate", NeedToWrite, UnSend) => BatchState(t) = "waiting"
           /\ Of(t, "Delegate", Writing, UnSend) => BatchState(t) = "tried"
           /\ Of(t, "Delegate", WriteComplete, Pending) => BatchState(t) = "tried"
           /\ task[t].type = "Delegate" /\ task[t].smt = NeedToRollback => BatchState(t) = "tried"
           /\ task[t].type = "Delegate" /\ task[t].smt = RollbackComplete => BatchState(t) = "ended"
BY DEF FromDistribution, BatchState, GivenUp, InFlight, At, Of, NeedToWrite, Writing,
   WriteComplete, NeedToRollback, RollbackComplete, UnSend, Pending

LEMMA StateOfNewRow ==
    ASSUME NEW t \in TaskIds, FromDistribution(t)'
    PROVE  /\ task'[t].type = "Chain" => BatchState(t)' = "done"
           /\ task'[t].type = "Closed" => BatchState(t)' = "ended"
           /\ Of(t, "Delegate", NeedToWrite, UnSend)' => BatchState(t)' = "waiting"
           /\ Of(t, "Delegate", Writing, UnSend)' => BatchState(t)' = "tried"
           /\ Of(t, "Delegate", WriteComplete, Pending)' => BatchState(t)' = "tried"
           /\ task'[t].type = "Delegate" /\ task'[t].smt = NeedToRollback => BatchState(t)' = "tried"
           /\ task'[t].type = "Delegate" /\ task'[t].smt = RollbackComplete => BatchState(t)' = "ended"
BY DEF FromDistribution, BatchState, GivenUp, InFlight, At, Of, NeedToWrite, Writing,
   WriteComplete, NeedToRollback, RollbackComplete, UnSend, Pending

\* A task found half written goes to the rollback worker: its try goes on.
LEMMA UpdRollbackWritingStep ==
    ASSUME SmtInv0, TypeOK', NEW t \in TaskIds, UpdRollbackWriting(t)
    PROVE  Sound
<1>1. /\ Of(t, "Delegate", Writing, UnSend) /\ upd.pc = "idle"
      /\ task' = [task EXCEPT ![t].smt = NeedToRollback]
      /\ UNCHANGED <<nTask, net, upd>>
  BY DEF UpdRollbackWriting, HeadTask, GetNeedToDoTaskList, At, Of, UpdUnchanged
<1>2. Becomes(t, "Delegate", NeedToRollback, UnSend)
  BY <1>1, RowUpdates DEF SmtInv0, Of
<1>3. FromDistribution(t) /\ FromDistribution(t)'
  BY <1>1, <1>2 DEF SmtInv0, RowsOk, RowOk, Of, Becomes, FromDistribution
<1>4. RowOk(t)'
  BY <1>1, <1>2, <1>3, RowBecomes DEF Of, NeedToRollback, WriteComplete
<1>5. EndStays(t)
  BY <1>1 DEF EndStays, Of, GivenUp, Writing, RollbackComplete
<1>6. UpdTask'
  BY <1>1 DEF UpdTask
<1>7. ASSUME Linked PROVE NoLive(t)
  BY <1>1, <1>7, NoLiveTx DEF Of, Writing, WriteComplete
<1>8. BatchState(t) = "tried" /\ BatchState(t)' = "tried"
  BY <1>1, <1>2, <1>3, StateOfRow, StateOfNewRow DEF Becomes
<1>9. ASSUME OtherStates(t), SameMined, \A u \in TaskIds \ {t} : task'[u].retry = task[u].retry
      PROVE  BatchStep
  BY <1>2, <1>8, <1>9, BatchStutters DEF Becomes, SameStates, OtherStates, SameTries
<1>10. QED
  BY <1>1, <1>2, <1>4, <1>5, <1>6, <1>7, <1>9, RowStep DEF Becomes

\* A waiting task is dropped.
LEMMA TaskDrops ==
    ASSUME SmtInv0, TypeOK', NEW t \in TaskIds, Of(t, "Delegate", NeedToWrite, UnSend),
           upd.pc # "mark", upd'.pc = "idle",
           \/ Becomes(t, "Closed", NeedToWrite, UnSend)
           \/ Becomes(t, "Delegate", RollbackComplete, UnSend)
    PROVE  Sound
<1>1. OneRowStep(t) /\ task'[t].from = task[t].from /\ task'[t].retry = task[t].retry
  BY DEF Becomes
<1>2. FromDistribution(t) /\ FromDistribution(t)'
  BY <1>1 DEF SmtInv0, RowsOk, RowOk, Of, FromDistribution
<1>3. RowOk(t)'
  <2>1. CASE Becomes(t, "Closed", NeedToWrite, UnSend)
    BY <1>2, <2>1, RowBecomes DEF Of, NeedToWrite, WriteComplete
  <2>2. CASE Becomes(t, "Delegate", RollbackComplete, UnSend)
    BY <1>2, <2>2, RowBecomes DEF Of, RollbackComplete, WriteComplete
  <2>3. QED
    BY <2>1, <2>2
<1>4. EndStays(t)
  BY DEF EndStays, Of, GivenUp, NeedToWrite, RollbackComplete
<1>5. UpdTask'
  BY DEF UpdTask
<1>6. ASSUME Linked PROVE NoLive(t) /\ ~ MinedBatch(t)
  BY <1>6, NoLiveTx DEF Of, NeedToWrite, Writing, WriteComplete
<1>7. BatchState(t) = "waiting" /\ BatchState(t)' = "ended"
  BY <1>2, StateOfRow, StateOfNewRow DEF Becomes
<1>8. ASSUME Linked, OtherStates(t), SameMined, \A u \in TaskIds \ {t} : task'[u].retry = task[u].retry
      PROVE  BatchStep
  BY <1>1, <1>6, <1>7, <1>8, BatchDrops DEF SameTries
<1>9. QED
  BY <1>1, <1>3, <1>4, <1>5, <1>6, <1>8, RowStep

LEMMA UpdCloseStaleStep ==
    ASSUME SmtInv0, TypeOK', NEW t \in TaskIds, UpdCloseStale(t)
    PROVE  Sound
<1>1. /\ task[t].type = "Delegate" /\ task[t].smt = NeedToWrite /\ upd.pc = "idle"
      /\ At(t, NeedToWrite, UnSend) \/ At(t, Writing, UnSend)
      /\ UNCHANGED <<nTask, net, upd>>
      /\ task' = [task EXCEPT ![t].type = "Closed"] \/ UNCHANGED task
  BY DEF UpdCloseStale, HeadTask, GetNeedToDoTaskList, UpdUnchanged
<1>2. Of(t, "Delegate", NeedToWrite, UnSend)
  BY <1>1 DEF At, Of, NeedToWrite, Writing
<1>3. CASE UNCHANGED task
  BY <1>1, <1>3, StillStep
<1>4. CASE task' = [task EXCEPT ![t].type = "Closed"]
  <2>1. Becomes(t, "Closed", NeedToWrite, UnSend)
    BY <1>1, <1>2, <1>4, RowUpdates DEF SmtInv0, Of
  <2>2. QED
    BY <1>1, <1>2, <2>1, TaskDrops
<1>5. QED
  BY <1>1, <1>3, <1>4

LEMMA UpdDiffScriptStep ==
    ASSUME SmtInv0, TypeOK', UpdDiffScript
    PROVE  Sound
<1>1. /\ upd.pc = "cell" /\ upd' = UpdIdle
      /\ UNCHANGED <<nTask, net>>
      /\ task[upd.t].smt = NeedToWrite =>
           task' = [task EXCEPT ![upd.t].smt = RollbackComplete]
  BY DEF UpdDiffScript, UpdUnchanged
<1>2. upd.t \in TaskIds /\ Of(upd.t, "Delegate", NeedToWrite, UnSend)
  BY <1>1 DEF SmtInv0, StepsOK, UpdTask
<1>3. Becomes(upd.t, "Delegate", RollbackComplete, UnSend)
  BY <1>1, <1>2, RowUpdates DEF SmtInv0, Of
<1>4. QED
  BY <1>1, <1>2, <1>3, TaskDrops DEF UpdIdle

\* The steps on which the updater only moves on.
LEMMA UpdMovesStep ==
    ASSUME SmtInv0, TypeOK',
           \/ \E t \in TaskIds : UpdPassNonce(t)
           \/ UpdCheckInProgress \/ UpdCheckLiveCell \/ UpdLock \/ UpdWriteSmt
    PROVE  Sound
<1>1. UNCHANGED <<task, nTask, net>> /\ upd.pc # "mark"
  BY DEF UpdPassNonce, HeadTask, UpdCheckInProgress, UpdCheckLiveCell, UpdLock, UpdWriteSmt,
     UpdUnchanged
<1>2. upd \in [pc : UpdSteps, t : 0..MaxTasks, h : 0..Height]
  BY DEF SmtInv0, TypeOK, MemoryTypeOK
<1>3. UpdTask'
  <2>1. CASE \E t \in TaskIds : UpdPassNonce(t)
    <3>1. PICK t \in TaskIds : UpdPassNonce(t)
      BY <2>1
    <3>2. /\ task[t].type = "Delegate" /\ task[t].smt = NeedToWrite
          /\ At(t, NeedToWrite, UnSend) \/ At(t, Writing, UnSend)
          /\ upd'.pc = "check" /\ upd'.t = t
      BY <3>1 DEF UpdPassNonce, HeadTask, GetNeedToDoTaskList, UpdIdle
    <3>3. Of(t, "Delegate", NeedToWrite, UnSend)'
      BY <1>1, <3>2 DEF At, Of, NeedToWrite, Writing
    <3>4. QED
      BY <3>2, <3>3 DEF UpdTask
  <2>2. CASE UpdCheckInProgress \/ UpdCheckLiveCell \/ UpdLock
    <3>1. /\ upd.pc \in {"check", "cell", "lock"}
          /\ upd'.pc \in {"idle", "cell", "lock", "root"}
          /\ upd'.pc # "idle" => upd'.t = upd.t
      <4>1. CASE UpdCheckInProgress
        BY <1>2, <4>1 DEF UpdCheckInProgress, UpdIdle
      <4>2. CASE UpdCheckLiveCell
        BY <1>2, <4>2 DEF UpdCheckLiveCell
      <4>3. CASE UpdLock
        BY <1>2, <4>3 DEF UpdLock
      <4>4. QED
        BY <2>2, <4>1, <4>2, <4>3
    <3>2. QED
      BY <1>1, <3>1 DEF SmtInv0, UpdTask, Of
  <2>3. CASE UpdWriteSmt
    <3>1. upd.pc = "write" /\ upd'.pc = "build" /\ upd'.t = upd.t
      BY <1>2, <2>3 DEF UpdWriteSmt
    <3>2. QED
      BY <1>1, <3>1 DEF SmtInv0, UpdTask, Of
  <2>4. QED
    BY <2>1, <2>2, <2>3
<1>4. QED
  BY <1>1, <1>3, NoRowStep

\* The try begins: nothing is in flight since the updater checked, and no
\* transaction of the task may get on chain.
LEMMA UpdStartWriteStep ==
    ASSUME SmtInv0, TypeOK', UpdStartWrite
    PROVE  Sound
<1> PICK t \in TaskIds : upd.t = t
  BY DEF UpdStartWrite, SmtInv0, StepsOK
<1>1. /\ upd.pc = "root" /\ upd'.pc = "write" /\ upd'.t = t
      /\ UNCHANGED <<nTask, net>>
      /\ task' = [task EXCEPT ![t].smt = Writing]
  BY DEF UpdStartWrite, UpdUnchanged, SmtInv0, TypeOK, MemoryTypeOK
<1>2. Of(t, "Delegate", NeedToWrite, UnSend)
  BY <1>1 DEF SmtInv0, UpdTask
<1>3. Becomes(t, "Delegate", Writing, UnSend)
  BY <1>1, <1>2, RowUpdates DEF SmtInv0, Of
<1>4. FromDistribution(t) /\ FromDistribution(t)'
  BY <1>2, <1>3 DEF SmtInv0, RowsOk, RowOk, Of, Becomes, FromDistribution
<1>5. RowOk(t)'
  BY <1>2, <1>3, <1>4, RowBecomes DEF Of, Writing, WriteComplete
<1>6. EndStays(t)
  BY <1>2 DEF EndStays, Of, GivenUp, NeedToWrite, RollbackComplete
<1>7. UpdTask'
  BY <1>1, <1>3 DEF UpdTask, Becomes, Of
<1>8. ASSUME Linked PROVE NoLive(t) /\ ~ MinedBatch(t)
  BY <1>1, <1>2, <1>8, NoLiveTx DEF Of, NeedToWrite, Writing, WriteComplete
<1>9. BatchState(t) = "waiting" /\ BatchState(t)' = "tried"
  BY <1>2, <1>3, <1>4, StateOfRow, StateOfNewRow DEF Becomes, Of
<1>10. ASSUME ClearToWrite PROVE \A u \in TaskIds : BatchState(u) # "tried"
  BY <1>1, <1>10 DEF ClearToWrite, BatchState
<1>11. ASSUME Linked, ClearToWrite, OtherStates(t), SameMined,
              \A u \in TaskIds \ {t} : task'[u].retry = task[u].retry
       PROVE  BatchStep
  <2>1. SameTries
    BY <1>3, <1>11 DEF Becomes, SameTries
  <2>2. QED
    BY <1>8, <1>9, <1>10, <1>11, <2>1, BatchTries
<1>12. OneRowStep(t)
  BY <1>3 DEF Becomes
<1>13. QED
  BY <1>1, <1>5, <1>6, <1>7, <1>8, <1>11, <1>12, RowStep

\* The transaction is marked as pending: it is linked to its task for good.
LEMMA UpdMarkPendingStep ==
    ASSUME SmtInv0, TypeOK', UpdMarkPending
    PROVE  Sound
<1> PICK t \in TaskIds : upd.t = t
  BY DEF UpdMarkPending, SmtInv0, StepsOK
<1>1. upd.pc = "mark" /\ upd' = UpdIdle /\ UNCHANGED <<nTask, net>>
  BY DEF UpdMarkPending, UpdStop, UpdUnchanged
<1>2. Of(t, "Delegate", Writing, UnSend) /\ task[t].out # 0
  BY <1>1 DEF SmtInv0, UpdTask
<1>3. \/ task' = [task EXCEPT ![t].smt = WriteComplete, ![t].tx = Pending]
      \/ ~ SendMarked /\ UNCHANGED task
  BY <1>2 DEF UpdMarkPending, At, Of
<1>4. CASE ~ SendMarked /\ UNCHANGED task
  BY <1>1, <1>4, StillStep
<1>5. CASE task' = [task EXCEPT ![t].smt = WriteComplete, ![t].tx = Pending]
  <2>1. Becomes(t, "Delegate", WriteComplete, Pending)
    BY <1>1, <1>2, <1>5, RowUpdates DEF SmtInv0, Of
  <2>2. FromDistribution(t) /\ FromDistribution(t)'
    BY <1>2, <2>1 DEF SmtInv0, RowsOk, RowOk, Of, Becomes, FromDistribution
  <2>3. RowOk(t)'
    BY <1>2, <2>1, <2>2, RowBecomes DEF Of
  <2>4. EndStays(t)
    BY <1>2 DEF EndStays, Of, GivenUp, Writing, RollbackComplete
  <2>5. UpdTask'
    BY <1>1 DEF UpdTask, UpdIdle
  <2>6. ASSUME Linked PROVE \A x \in TxIds : tx[x].by = t => LinkedTx(x)'
    BY <2>1, <2>6 DEF Linked, LinkedTx, Becomes, OneRowStep, net, Live, Of
  <2>7. BatchState(t) = "tried" /\ BatchState(t)' = "tried"
    BY <1>2, <2>1, <2>2, StateOfRow, StateOfNewRow DEF Becomes, Of
  <2>8. ASSUME OtherStates(t), SameMined, \A u \in TaskIds \ {t} : task'[u].retry = task[u].retry
        PROVE  BatchStep
    BY <2>1, <2>7, <2>8, BatchStutters DEF Becomes, SameStates, OtherStates, SameTries
  <2>9. OneRowStep(t)
    BY <2>1 DEF Becomes
  <2>10. QED
    BY <2>3, <2>4, <2>5, <2>6, <2>8, <2>9, RowStep
<1>6. QED
  BY <1>3, <1>4, <1>5

\* OnChain(x) after the step.
NowOnChain(x) == x \in TxIds /\ x <= nTx' /\ tx'[x].status = "committed"

\* What a step that adds transactions, or moves them on, leaves to be shown.
LEMMA TxsStep ==
    ASSUME SmtInv0, TypeOK', nTx <= nTx',
           \A y \in TxIds : y <= nTx =>
               /\ tx'[y].by = tx[y].by /\ tx'[y].ref = tx[y].ref /\ tx'[y].kind = tx[y].kind
               /\ tx[y].status = "committed" => tx'[y].status = "committed"
               /\ Live(y)' /\ tx[y].by # 0 => Live(y) \/ OnChain(tx[y].ref),
           \A y \in TxIds : y > nTx => TxOk(y)',
           \A h \in 1..Height' : NowOnChain(chain'[h]) \/ OnChain(chain'[h])
    PROVE  TxKept /\ TxsOk'
<1>1. nTx \in Nat /\ nTx' \in Nat /\ \A y \in TxIds : y \in Nat
  BY DEF SmtInv0, TypeOK, NodeTypeOK, TxIds
<1>2. TxKept
  BY DEF TxKept
<1>3. ASSUME NEW y, OnChain(y) PROVE NowOnChain(y)
  BY <1>1, <1>3 DEF OnChain, NowOnChain
<1>4. ASSUME NEW y \in TxIds, y <= nTx PROVE TxOk(y)'
  <2>1. ~ (y > nTx')
    BY <1>1, <1>4
  <2>2. TxOk(y)
    BY DEF SmtInv0, TxsOk
  <2>3. tx'[y].by # 0 => tx'[y].kind = "update"
    BY <1>4, <2>2 DEF TxOk
  <2>4. ASSUME Live(y)', tx'[y].by # 0 PROVE OnChain(tx[y].ref)'
    <3>1. OnChain(tx[y].ref)
      BY <1>4, <2>2, <2>4 DEF TxOk
    <3>2. NowOnChain(tx[y].ref) /\ tx'[y].ref = tx[y].ref
      BY <1>3, <1>4, <3>1
    <3>3. QED
      BY <3>2 DEF OnChain, NowOnChain
  <2>5. QED
    BY <2>1, <2>3, <2>4 DEF TxOk, Live
<1>5. \A y \in TxIds : TxOk(y)'
  BY <1>1, <1>4
<1>6. \A h \in 1..Height' : NowOnChain(chain'[h])
  BY <1>3
<1>7. QED
  BY <1>2, <1>5, <1>6 DEF TxsOk, OnChain, NowOnChain

\* A transaction that is built and not sent yet may not get on chain.
LEMMA UpdBuildStep ==
    ASSUME SmtInv0, TypeOK', UpdBuild
    PROVE  Sound
<1> PICK t \in TaskIds : upd.t = t
  BY DEF UpdBuild, SmtInv0, StepsOK
<1> DEFINE x == nTx + 1
           cell == chain[upd.h]
           new == [kind |-> "update", ref |-> cell, by |-> t,
                   leaf |-> ChangedBy(DefaultOf(t), RootAt(upd.h)),
                   upd |-> AccountsOf(DefaultOf(t)), script |-> tx[cell].script,
                   status |-> "built"]
<1>1. /\ tx' = [tx EXCEPT ![x] = new]
      /\ new.kind = "update" /\ new.by = t /\ new.ref = cell /\ new.status = "built"
  BY DEF UpdBuild
<1> HIDE DEF new
<1>2. /\ upd.pc = "build" /\ upd' = [upd EXCEPT !.pc = "send"] /\ nTx' = x
      /\ task' = [task EXCEPT ![t].ref = cell, ![t].out = x]
      /\ UNCHANGED <<nTask, chain>> /\ nTx < MaxTxs
  BY DEF UpdBuild, UpdUnchanged
<1>3. Of(t, "Delegate", Writing, UnSend) /\ upd'.pc = "send" /\ upd'.t = t
  BY <1>2 DEF SmtInv0, UpdTask, TypeOK, MemoryTypeOK
<1>4. /\ nTx \in Nat /\ x \in TxIds /\ x > nTx /\ nTx' = x /\ ~ (x > nTx')
      /\ \A y \in TxIds : y <= nTx => y # x
  BY <1>2, BoundsTyped DEF SmtInv0, TypeOK, NodeTypeOK, TxIds
<1>5. cell \in TxIds /\ cell # 0
  BY <1>2, ChainTyped DEF SmtInv0, StepsOK, TxIds
<1>6. /\ OneRow(t) /\ task'[t].ref = cell /\ task'[t].out = x
      /\ task'[t].type = task[t].type /\ task'[t].smt = task[t].smt
      /\ task'[t].tx = task[t].tx /\ task'[t].retry = task[t].retry
      /\ task'[t].from = task[t].from
  <2>1. task \in [TaskIds -> Row]
    BY DEF SmtInv0, TypeOK, DatabaseTypeOK
  <2> HIDE DEF x, cell
  <2>2. QED
    BY <1>2, <2>1 DEF OneRow, Row
<1>7. (\A y \in TxIds : y # x => tx'[y] = tx[y]) /\ tx'[x] = new
  <2>1. tx \in [TxIds -> Tx]
    BY DEF SmtInv0, TypeOK, NodeTypeOK
  <2>2. QED
    BY <1>1, <1>4, <2>1
<1>8. nTx <= nTx'
  BY <1>4
<1> HIDE DEF x, cell
<1>9. TxKept /\ TxsOk'
  <2>1. \A y \in TxIds : y <= nTx => tx'[y] = tx[y]
    BY <1>4, <1>7
  <2>2. ASSUME NEW y \in TxIds, y > nTx PROVE TxOk(y)'
    <3>1. CASE y = x
      BY <1>1, <1>4, <1>7, <3>1 DEF TxOk, Live
    <3>2. CASE y # x
      <4>1. tx'[y].status = "absent" /\ (tx'[y].by # 0 => tx'[y].kind = "update")
        BY <1>7, <2>2, <3>2 DEF SmtInv0, TxsOk, TxOk
      <4>2. QED
        BY <4>1 DEF TxOk, Live
    <3>3. QED
      BY <3>1, <3>2
  <2>3. \A h \in 1..Height' : OnChain(chain'[h])
    BY <1>2 DEF SmtInv0, TxsOk, Height
  <2>4. \A y \in TxIds : y <= nTx => (Live(y)' => Live(y))
    BY <2>1 DEF Live
  <2>5. QED
    BY <1>8, <2>1, <2>2, <2>3, <2>4, TxsStep
<1>10. FromDistribution(t) /\ t <= nTask /\ nTask \in Nat /\ t \in Nat
  BY <1>3 DEF SmtInv0, RowsOk, RowOk, Of, FromDistribution, NoRow, TypeOK, DatabaseTypeOK, TaskIds
<1>11. RowOk(t)'
  <2>1. /\ task'[t].type = "Delegate" /\ task'[t].smt = Writing /\ FromDistribution(t)'
        /\ ~ (t > nTask')
    BY <1>2, <1>3, <1>6, <1>10 DEF Of, FromDistribution
  <2>2. /\ task'[t].out <= nTx' /\ tx'[task'[t].out].by = t
        /\ tx'[task'[t].out].ref = task'[t].ref /\ task'[t].ref # 0
    BY <1>1, <1>4, <1>5, <1>6, <1>7 DEF TxIds
  <2>3. QED
    BY <2>1, <2>2 DEF RowOk, Writing, WriteComplete, Of
<1>12. EndStays(t)
  BY <1>3 DEF EndStays, Of, GivenUp, Writing, RollbackComplete
<1>13. nTask <= nTask'
  BY <1>2, <1>10
<1>14. /\ RowsOk' /\ EndsStay /\ OtherStates(t)
       /\ \A u \in TaskIds \ {t} : task'[u].retry = task[u].retry
  BY <1>6, <1>9, <1>11, <1>12, <1>13, OtherRows
<1>15. UpdTask'
  <2>1. Of(t, "Delegate", Writing, UnSend)' /\ task'[t].out # 0
    BY <1>3, <1>4, <1>6 DEF Of, TxIds
  <2>2. tx'[task'[t].out].status = "built"
    BY <1>1, <1>6, <1>7
  <2>3. QED
    BY <1>3, <2>1, <2>2 DEF UpdTask, Of
<1>16. ASSUME Linked PROVE Linked'
  <2>1. NoLive(t)
    BY <1>2, <1>3, <1>16, NoLiveTx DEF Of, Writing, WriteComplete
  <2>2. ASSUME NEW y \in TxIds, Live(y)', tx'[y].by # 0 PROVE LinkedTx(y)'
    <3>1. y # x /\ tx'[y] = tx[y]
      BY <1>1, <1>7, <2>2 DEF Live
    <3>2. LinkedTx(y) /\ Live(y)
      BY <1>16, <2>2, <3>1 DEF Linked, Live
    <3>3. tx[y].by # t /\ tx[y].by \in TaskIds
      BY <2>1, <2>2, <3>1, <3>2, BoundsTyped DEF NoLive, SmtInv0, TypeOK, NodeTypeOK, Tx, TaskIds
    <3>4. task'[tx[y].by] = task[tx[y].by]
      BY <1>6, <3>3 DEF OneRow
    <3>5. QED
      BY <1>2, <2>2, <3>1, <3>2, <3>4 DEF LinkedTx, Live, Of, FromDistribution
  <2>3. QED
    BY <2>2 DEF Linked, LinkedTx
<1>17. BatchStep
  <2>1. FromDistribution(t)' /\ Of(t, "Delegate", Writing, UnSend)'
    BY <1>3, <1>6, <1>10 DEF FromDistribution, Of
  <2>2. BatchState(t) = "tried" /\ BatchState(t)' = "tried"
    BY <1>3, <1>10, <2>1, StateOfRow, StateOfNewRow
  <2>3. SameMined
    <3>1. tx[x].status = "absent" /\ tx'[x].status = "built"
      BY <1>1, <1>4, <1>7 DEF SmtInv0, TxsOk, TxOk
    <3>2. \A y \in TxIds : tx'[y].status = "committed" <=> tx[y].status = "committed"
      BY <1>7, <3>1
    <3>3. \A y \in TxIds : tx[y].status = "committed" => tx'[y].by = tx[y].by
      BY <1>7, <3>1
    <3>4. QED
      BY <3>2, <3>3 DEF SameMined, MinedBatch
  <2>4. QED
    BY <1>6, <1>14, <2>2, <2>3, BatchStutters DEF SameStates, OtherStates, SameTries
<1>18. QED
  BY <1>9, <1>14, <1>15, <1>16, <1>17 DEF Sound

\* The transaction is sent: from now on it may get on chain, and the updater is
\* about to mark its task.
LEMMA UpdSendStep ==
    ASSUME SmtInv0, TypeOK', UpdSend
    PROVE  Sound
<1> PICK t \in TaskIds : upd.t = t
  BY DEF UpdSend, SmtInv0, StepsOK
<1> PICK x : x = task[t].out
  OBVIOUS
<1>1. /\ upd.pc = "send" /\ Accepted(x)
      /\ tx' = [tx EXCEPT ![x].status = "pool"]
      /\ \/ upd' = [upd EXCEPT !.pc = "mark"]
         \/ ~ SendMarked /\ upd' = UpdIdle
      /\ UNCHANGED <<task, nTask, nTx, chain>>
  BY Zenon DEF UpdSend, UpdStop, UpdUnchanged
<1>2. Of(t, "Delegate", Writing, UnSend) /\ x # 0 /\ tx[x].status = "built"
  BY <1>1 DEF SmtInv0, UpdTask
<1>3. FromDistribution(t) /\ RowOk(t)
  BY <1>2 DEF SmtInv0, RowsOk, RowOk, Of
<1>4. x \in TxIds /\ x <= nTx /\ tx[x].by = t
  <2>1. x \in 0..MaxTxs
    BY DEF SmtInv0, TypeOK, DatabaseTypeOK, Row
  <2>2. QED
    BY <1>2, <1>3, <2>1, BoundsTyped DEF RowOk, TxIds
<1>5. OnChain(tx[x].ref)
  <2>1. Height \in 1..Height /\ tx[x].ref = chain[Height]
    BY <1>1, ChainTyped DEF Accepted, LiveCell, SmtInv0
  <2>2. QED
    BY <2>1 DEF SmtInv0, TxsOk
<1>6. /\ \A y \in TxIds \ {x} : tx'[y] = tx[y]
      /\ tx'[x].by = tx[x].by /\ tx'[x].ref = tx[x].ref /\ tx'[x].kind = tx[x].kind
      /\ tx'[x].status = "pool"
  <2>1. tx \in [TxIds -> Tx]
    BY DEF SmtInv0, TypeOK, NodeTypeOK
  <2>2. QED
    BY <1>1, <1>4, <2>1 DEF Tx
<1>7. nTx \in Nat /\ nTx' = nTx /\ (\A y \in TxIds : y > nTx => y # x)
  BY <1>1, <1>4 DEF SmtInv0, TypeOK, NodeTypeOK, TxIds
<1>8. TxKept /\ TxsOk'
  <2>1. ASSUME NEW y \in TxIds, y <= nTx
        PROVE  /\ tx'[y].by = tx[y].by /\ tx'[y].ref = tx[y].ref /\ tx'[y].kind = tx[y].kind
               /\ tx[y].status = "committed" => tx'[y].status = "committed"
               /\ Live(y)' /\ tx[y].by # 0 => Live(y) \/ OnChain(tx[y].ref)
    <3>1. CASE y = x
      BY <1>2, <1>5, <1>6, <3>1
    <3>2. CASE y # x
      BY <1>6, <3>2 DEF Live
    <3>3. QED
      BY <3>1, <3>2
  <2>2. ASSUME NEW y \in TxIds, y > nTx PROVE TxOk(y)'
    <3>1. tx'[y].status = "absent" /\ (tx'[y].by # 0 => tx'[y].kind = "update")
      BY <1>6, <1>7, <2>2 DEF SmtInv0, TxsOk, TxOk
    <3>2. QED
      BY <3>1 DEF TxOk, Live
  <2>3. \A h \in 1..Height' : OnChain(chain'[h])
    BY <1>1 DEF SmtInv0, TxsOk, Height
  <2>4. QED
    BY <1>7, <2>1, <2>2, <2>3, TxsStep
<1>9. RowsOk' /\ EndsStay /\ SameStates /\ SameTries
  BY <1>1, <1>8, SameRows
<1>10. CASE upd' = [upd EXCEPT !.pc = "mark"]
  <2>1. upd'.pc = "mark" /\ upd'.t = t
    BY <1>10 DEF SmtInv0, TypeOK, MemoryTypeOK
  <2>2. UpdTask'
    BY <1>1, <1>2, <2>1 DEF UpdTask, Of
  <2>3. ASSUME Linked, NEW y \in TxIds, Live(y)', tx'[y].by # 0 PROVE LinkedTx(y)'
    <3>1. CASE y = x
      BY <1>1, <1>2, <1>4, <1>6, <2>1, <3>1 DEF LinkedTx, Of
    <3>2. CASE y # x
      <4>1. tx'[y] = tx[y] /\ LinkedTx(y) /\ Live(y)
        BY <1>6, <2>3, <3>2 DEF Linked, Live
      <4>2. QED
        BY <1>1, <2>3, <4>1 DEF LinkedTx, Live, Of, FromDistribution
    <3>3. QED
      BY <3>1, <3>2
  <2>4. Linked => Linked'
    BY <2>3 DEF Linked, LinkedTx
  <2>5. SameMined
    BY <1>2, <1>6 DEF SameMined, MinedBatch
  <2>6. QED
    BY <1>8, <1>9, <2>2, <2>4, <2>5, BatchStutters DEF Sound
<1>11. CASE ~ SendMarked /\ upd' = UpdIdle
  BY <1>8, <1>9, <1>11 DEF Sound, UpdTask, UpdIdle
<1>12. QED
  BY <1>1, <1>10, <1>11

LEMMA UpdaterStep ==
    ASSUME SmtInv0, TypeOK', Updater \/ UpdFail
    PROVE  Sound
<1>1. ASSUME UpdFail PROVE Sound
  BY <1>1, StillStep DEF UpdFail, UpdStop, UpdUnchanged
<1>2. QED
  BY <1>1, UpdRollbackWritingStep, UpdCloseStaleStep, UpdDiffScriptStep, UpdMovesStep,
     UpdStartWriteStep, UpdBuildStep, UpdSendStep, UpdMarkPendingStep DEF Updater

-----------------------------------------------------------------------------
(* The checker, the rollback worker and the confirmer *)

\* A task of the checker that is lost has no transaction that may get on chain:
\* the node rejected it, or it spends the output of a transaction that was
\* rejected, which is then not on chain.
LEMMA LostHasNoLiveTx ==
    ASSUME SmtInv0, OneInFlight, Linked, NEW lost \in SUBSET GetNeedDoCheckTxTaskList,
           \A t \in GetNeedDoCheckTxTaskList :
               t \in lost <=> \/ NodeRejected(task[t].out)
                             \/ \E d \in lost : d < t /\ task[t].ref = task[d].out,
           NEW u \in lost
    PROVE  NoLive(u)
<1>1. \A t \in lost : t \in TaskIds /\ task[t].smt = WriteComplete /\ task[t].tx = Pending
  BY DEF GetNeedDoCheckTxTaskList, At
<1>2. \A t \in lost : RowOk(t) /\ task[t].out # 0
  BY <1>1 DEF SmtInv0, RowsOk, RowOk
<1> SUFFICES ASSUME NEW x \in TxIds, Live(x), tx[x].by = u PROVE FALSE
  BY DEF NoLive
<1>3. u # 0 /\ u \in TaskIds
  BY <1>1 DEF TaskIds
<1>4. LinkedTx(x) /\ TxOk(x)
  BY DEF Linked, SmtInv0, TxsOk
<1>5. task[u].out = x /\ task[u].type = "Delegate"
  <2>1. task[u].out = x /\ (task[u].type = "Delegate" \/ FromDistribution(u))
    BY <1>3, <1>4 DEF LinkedTx, Of
  <2>2. QED
    BY <1>1, <1>2, <2>1 DEF RowOk
<1>6. ~ NodeRejected(x)
  BY DEF NodeRejected, Live
<1>7. PICK d \in lost : d < u /\ task[u].ref = task[d].out
  BY <1>5, <1>6
<1>8. task[d].type # "Delegate"
  <2>1. InFlight(u) /\ (task[d].type = "Delegate" => InFlight(d))
    BY <1>1, <1>5 DEF InFlight, At
  <2>2. d \in TaskIds /\ d # u
    <3>1. d \in TaskIds /\ d \in Int /\ u \in Int
      BY <1>1, <1>3, BoundsTyped DEF TaskIds
    <3>2. QED
      BY <1>7, <3>1
  <2>3. QED
    BY <1>3, <2>1, <2>2 DEF OneInFlight
<1>9. task[d].ref = 0
  BY <1>1, <1>2, <1>8 DEF RowOk
<1>10. NodeRejected(task[d].out)
  BY <1>2, <1>9
<1>11. tx[x].ref = task[d].out
  BY <1>2, <1>5, <1>7 DEF RowOk
<1>12. OnChain(tx[x].ref)
  BY <1>3, <1>4 DEF TxOk
<1>13. QED
  BY <1>10, <1>11, <1>12 DEF OnChain, NodeRejected

LEMMA CheckerStep ==
    ASSUME SmtInv0, TypeOK', doCheckTx
    PROVE  Sound
<1>1. PICK lost \in SUBSET GetNeedDoCheckTxTaskList :
        /\ \A t \in GetNeedDoCheckTxTaskList :
             t \in lost <=> \/ NodeRejected(task[t].out)
                           \/ \E d \in lost : d < t /\ task[t].ref = task[d].out
        /\ task' = [t \in TaskIds |->
                      IF t \in lost THEN [task[t] EXCEPT !.smt = NeedToRollback, !.tx = Rejected]
                      ELSE task[t]]
  BY CheckedTasksAreListed
<1>2. UNCHANGED <<nTask, net, upd>>
  BY DEF doCheckTx
<1>3. \A t \in TaskIds \ lost : task'[t] = task[t]
  BY <1>1
<1>4. \A t \in lost : /\ t \in TaskIds
                      /\ task[t].smt = WriteComplete /\ task[t].tx = Pending
                      /\ task'[t].smt = NeedToRollback /\ task'[t].tx = Rejected
                      /\ task'[t].type = task[t].type /\ task'[t].retry = task[t].retry
                      /\ task'[t].ref = task[t].ref /\ task'[t].out = task[t].out
                      /\ task'[t].from = task[t].from
  <2>1. task \in [TaskIds -> Row]
    BY DEF SmtInv0, TypeOK, DatabaseTypeOK
  <2>2. \A t \in lost : t \in TaskIds /\ task[t].smt = WriteComplete /\ task[t].tx = Pending
    BY DEF GetNeedDoCheckTxTaskList, At
  <2>3. QED
    BY <1>1, <2>1, <2>2 DEF Row
<1>5. TxKept /\ SameMined /\ TxsOk'
  BY <1>2, SameNet DEF SmtInv0
<1>6. ASSUME NEW t \in lost PROVE RowOk(t)' /\ EndStays(t)
  <2>1. RowOk(t) /\ t \in TaskIds
    BY <1>4 DEF SmtInv0, RowsOk
  <2>2. t <= nTask /\ ~ (t > nTask')
    BY <1>2, <1>4, <2>1 DEF RowOk, NoRow, WriteComplete, SmtInv0, TypeOK, DatabaseTypeOK, TaskIds
  <2>3. task[t].type # "Closed"
    BY <1>4, <2>1 DEF RowOk, Of, WriteComplete, NeedToWrite
  <2>4. RowOk(t)'
    BY <1>2, <1>4, <2>1, <2>2, <2>3
       DEF RowOk, FromDistribution, NeedToRollback, WriteComplete, net
  <2>5. EndStays(t)
    BY <1>4, <2>3 DEF EndStays, GivenUp, WriteComplete, RollbackComplete
  <2>6. QED
    BY <2>4, <2>5
<1>7. nTask <= nTask'
  BY <1>2 DEF SmtInv0, TypeOK, DatabaseTypeOK
<1>8. RowsOk' /\ EndsStay /\ SameTries
  <2>1. ASSUME NEW t \in TaskIds, t \notin lost
        PROVE  RowOk(t)' /\ EndStays(t) /\ task'[t].retry = task[t].retry
    BY <1>3, <1>5, <1>7, <2>1, RowKept, SameRow DEF SmtInv0, RowsOk
  <2>2. QED
    BY <1>4, <1>6, <2>1 DEF RowsOk, EndsStay, SameTries
<1>9. UpdTask'
  <2>1. \A u \in TaskIds : Unsent(u) => task'[u] = task[u]
    BY <1>3, <1>4 DEF Unsent, Of, NeedToWrite, Writing, WriteComplete
  <2>2. QED
    BY <1>2, <2>1, UpdTaskKept DEF net
<1>10. ASSUME OneInFlight, Linked PROVE Linked'
  <2>1. \A u \in lost : NoLive(u)
    BY <1>1, <1>10, LostHasNoLiveTx
  <2>2. QED
    BY <1>2, <1>3, <1>10, <2>1, LinkedKept DEF SmtInv0, net
<1>11. SameStates
  <2>1. ASSUME NEW t \in lost PROVE BatchState(t)' = BatchState(t)
    <3>1. CASE FromDistribution(t)
      <4>1. task[t].type = "Delegate"
        BY <1>4, <3>1 DEF SmtInv0, RowsOk, RowOk
      <4>2. BatchState(t) = "tried"
        BY <1>4, <3>1, <4>1, StateOfRow DEF Of
      <4>3. FromDistribution(t)' /\ t \in TaskIds
        BY <1>4, <3>1 DEF FromDistribution
      <4>4. BatchState(t)' = "tried"
        BY <1>4, <4>1, <4>3, StateOfNewRow
      <4>5. QED
        BY <4>2, <4>4
    <3>2. CASE ~ FromDistribution(t)
      <4>1. BatchState(t) = "none"
        BY <3>2 DEF FromDistribution, BatchState
      <4>2. task'[t].from # "distribution"
        BY <1>4, <3>2 DEF FromDistribution
      <4>3. BatchState(t)' = "none"
        BY <4>2 DEF BatchState
      <4>4. QED
        BY <4>1, <4>3
    <3>3. QED
      BY <3>1, <3>2
  <2>2. ASSUME NEW t \in TaskIds, t \notin lost PROVE BatchState(t)' = BatchState(t)
    BY <1>3, <2>2, SameRow
  <2>3. QED
    BY <2>1, <2>2 DEF SameStates
<1>12. QED
  BY <1>5, <1>8, <1>9, <1>10, <1>11, BatchStutters DEF Sound

\* A chain task stays linked whatever becomes of its smt and tx status.
LEMMA SettledLinked ==
    ASSUME Linked, NEW t \in TaskIds, NEW s, NEW y, Becomes(t, task[t].type, s, y),
           ~ Of(t, "Delegate", WriteComplete, Pending),
           ~ (Of(t, "Delegate", Writing, UnSend) /\ upd.pc = "mark" /\ upd.t = t)
    PROVE  NoLive(t) \/ \A x \in TxIds : tx[x].by = t => LinkedTx(x)'
<1>1. CASE task[t].type # "Chain"
  BY <1>1, NoLiveTx
<1>2. CASE task[t].type = "Chain"
  BY <1>2 DEF Linked, LinkedTx, Becomes, OneRowStep, net, Live, FromDistribution, Of
<1>3. QED
  BY <1>1, <1>2

\* A batch that is not a delegate task has the same state whatever its smt status.
LEMMA SameOtherState ==
    ASSUME NEW t \in TaskIds, task'[t].type = task[t].type, task'[t].from = task[t].from,
           \/ task[t].type # "Delegate"
           \/ task[t].smt = NeedToWrite /\ task'[t].smt = WriteComplete /\ task'[t].tx # Pending
    PROVE  BatchState(t)' = BatchState(t)
BY DEF BatchState, GivenUp, InFlight, At, NeedToWrite, Writing, WriteComplete, NeedToRollback,
   RollbackComplete

LEMMA RbFinishStep ==
    ASSUME SmtInv0, TypeOK', RbFinish
    PROVE  Sound
<1> PICK t \in TaskIds : rb.t = t
  BY DEF RbFinish, SmtInv0, StepsOK
<1>1. /\ UNCHANGED <<nTask, net, upd>>
      /\ \/ UNCHANGED task
         \/ /\ task[t].smt = NeedToRollback
            /\ \/ /\ MayRetry(t)
                  /\ task' = [task EXCEPT ![t].smt = NeedToWrite, ![t].tx = UnSend,
                                          ![t].retry = @ + 1]
               \/ /\ ~ MayRetry(t)
                  /\ task' = [task EXCEPT ![t].smt = RollbackComplete]
  BY Zenon DEF RbFinish, RbUnchanged
<1>2. CASE UNCHANGED task
  BY <1>1, <1>2, StillStep
<1> SUFFICES ASSUME task[t].smt = NeedToRollback, ~ UNCHANGED task PROVE Sound
  BY <1>1, <1>2
<1>3. RowOk(t) /\ task[t].retry \in 0..MaxRetry /\ task \in [TaskIds -> Row]
  BY DEF SmtInv0, RowsOk, TypeOK, DatabaseTypeOK, Row
<1>4. task[t].type # "Closed" /\ ~ Unsent(t) /\ ~ Of(t, "Delegate", WriteComplete, Pending)
  BY <1>3 DEF RowOk, Of, Unsent, NeedToWrite, Writing, WriteComplete, NeedToRollback
<1>5. ASSUME OneRowStep(t) PROVE UpdTask'
  BY <1>1, <1>4, <1>5, UpdTaskKept DEF OneRowStep, OneRow, net
<1>6. ~ (Of(t, "Delegate", Writing, UnSend) /\ upd.pc = "mark" /\ upd.t = t)
  BY <1>4 DEF Unsent
<1>7. ASSUME FromDistribution(t), task[t].type = "Delegate" PROVE BatchState(t) = "tried"
  BY <1>7, StateOfRow
<1>8. CASE MayRetry(t)
  <2>1. task' = [task EXCEPT ![t].smt = NeedToWrite, ![t].tx = UnSend, ![t].retry = @ + 1]
    BY <1>1, <1>8
  <2>2. /\ OneRow(t) /\ task'[t].smt = NeedToWrite /\ task'[t].tx = UnSend
        /\ task'[t].type = task[t].type /\ task'[t].from = task[t].from
        /\ task'[t].ref = task[t].ref /\ task'[t].out = task[t].out
    BY <1>3, <2>1 DEF OneRow, Row
  <2>3. task'[t].retry = task[t].retry + 1
    <3>1. \A row \in Row : /\ [row EXCEPT !.smt = NeedToWrite].retry = row.retry
                           /\ [row EXCEPT !.smt = NeedToWrite] \in Row
      BY RowValues DEF Row
    <3>2. QED
      BY <1>3, <2>1 DEF Row
  <2>4. task[t].type = "Delegate" /\ task[t].retry < MaxRetry
    BY <1>8 DEF MayRetry
  <2>5. FromDistribution(t) /\ FromDistribution(t)'
    BY <1>3, <2>2, <2>4 DEF RowOk, FromDistribution
  <2>6. RowOk(t)'
    <3>1. ~ (t > nTask')
      BY <1>1, <1>3, <2>4 DEF RowOk, NoRow, SmtInv0, TypeOK, DatabaseTypeOK, TaskIds
    <3>2. QED
      BY <1>1, <1>3, <2>2, <2>4, <2>5, <3>1
         DEF RowOk, FromDistribution, NeedToWrite, WriteComplete, net
  <2>7. EndStays(t)
    BY <2>4 DEF EndStays, GivenUp, NeedToRollback, RollbackComplete
  <2>8. ASSUME Linked PROVE NoLive(t) /\ ~ MinedBatch(t)
    BY <1>4, <1>6, <2>4, <2>8, NoLiveTx
  <2>9. BatchState(t)' = "waiting"
    BY <2>2, <2>4, <2>5, StateOfNewRow DEF Of
  <2>10. ASSUME Linked, OtherStates(t), SameMined,
                \A u \in TaskIds \ {t} : task'[u].retry = task[u].retry
         PROVE  BatchStep
    BY <1>7, <2>3, <2>4, <2>5, <2>8, <2>9, <2>10, BatchIsTakenBack
  <2>11. OneRowStep(t)
    BY <1>1, <2>2 DEF OneRowStep
  <2>12. QED
    BY <1>1, <1>5, <2>6, <2>7, <2>8, <2>10, <2>11, RowStep
<1>9. CASE ~ MayRetry(t)
  <2>1. Becomes(t, task[t].type, RollbackComplete, task[t].tx)
    BY <1>1, <1>9, RowUpdates DEF SmtInv0
  <2>2. RowOk(t)'
    BY <1>3, <1>4, <2>1, RowBecomes
       DEF RowOk, NeedToWrite, NeedToRollback, WriteComplete, RollbackComplete
  <2>3. EndStays(t)
    BY <1>4, <2>1 DEF EndStays, GivenUp, Becomes, NeedToRollback, RollbackComplete
  <2>4. ASSUME Linked PROVE NoLive(t) \/ \A x \in TxIds : tx[x].by = t => LinkedTx(x)'
    BY <1>4, <1>6, <2>1, <2>4, SettledLinked
  <2>5. ASSUME Linked, OtherStates(t), SameMined,
               \A u \in TaskIds \ {t} : task'[u].retry = task[u].retry
        PROVE  BatchStep
    <3>1. SameTries
      BY <2>1, <2>5 DEF Becomes, SameTries
    <3>2. CASE task[t].type = "Delegate"
      <4>1. FromDistribution(t) /\ FromDistribution(t)'
        BY <1>3, <2>1, <3>2 DEF RowOk, Becomes, FromDistribution
      <4>2. BatchState(t)' = "ended"
        BY <2>1, <3>2, <4>1, StateOfNewRow DEF Becomes
      <4>3. ~ MinedBatch(t)
        BY <1>4, <1>6, <2>5, <3>2, NoLiveTx
      <4>4. task[t].retry = MaxRetry
        BY <1>3, <1>9, <3>2, BoundsTyped DEF MayRetry
      <4>5. QED
        BY <1>7, <2>5, <3>1, <3>2, <4>1, <4>2, <4>3, <4>4, BatchGivesUp
    <3>3. CASE task[t].type # "Delegate"
      <4>1. BatchState(t)' = BatchState(t)
        BY <2>1, <3>3, SameOtherState DEF Becomes
      <4>2. QED
        BY <2>5, <3>1, <4>1, BatchStutters DEF OtherStates, SameStates
    <3>4. QED
      BY <3>2, <3>3
  <2>6. OneRowStep(t)
    BY <2>1 DEF Becomes
  <2>7. QED
    BY <1>1, <1>5, <2>2, <2>3, <2>4, <2>5, <2>6, RowStep
<1>10. QED
  BY <1>8, <1>9

LEMMA RollbackerStep ==
    ASSUME SmtInv0, TypeOK', Rollbacker \/ RbFail
    PROVE  Sound
<1>1. CASE RbFinish
  BY <1>1, RbFinishStep
<1>2. CASE ~ RbFinish
  BY <1>2, StillStep DEF Rollbacker, RbRead, RbLock, RbWrite, RbFail, RbUnchanged
<1>3. QED
  BY <1>1, <1>2

LEMMA CfFinishStep ==
    ASSUME SmtInv0, TypeOK', CfFinish
    PROVE  Sound
<1> PICK t \in TaskIds : cf.t = t
  BY DEF CfFinish, SmtInv0, StepsOK
<1>1. /\ UNCHANGED <<nTask, net, upd>>
      /\ \/ UNCHANGED task
         \/ /\ At(t, NeedToWrite, Committed)
            /\ task' = [task EXCEPT ![t].smt = WriteComplete]
  BY Zenon DEF CfFinish, CfUnchanged
<1>2. CASE UNCHANGED task
  BY <1>1, <1>2, StillStep
<1>3. CASE /\ At(t, NeedToWrite, Committed)
           /\ task' = [task EXCEPT ![t].smt = WriteComplete]
  <2>1. Becomes(t, task[t].type, WriteComplete, Committed)
    BY <1>1, <1>3, RowUpdates DEF SmtInv0, At
  <2>2. RowOk(t) /\ OneRowStep(t)
    BY <2>1 DEF SmtInv0, RowsOk, Becomes
  <2>3. task[t].type \notin {"Closed", "Absent"}
    BY <1>3, <2>2 DEF RowOk, Of, At, Committed, UnSend
  <2>4. RowOk(t)'
    BY <2>1, <2>2, <2>3, RowBecomes DEF RowOk, Committed, Pending
  <2>5. EndStays(t)
    BY <1>3, <2>1, <2>3 DEF EndStays, GivenUp, Becomes, At, NeedToWrite, RollbackComplete
  <2>6. ~ Unsent(t) /\ ~ Of(t, "Delegate", WriteComplete, Pending)
    BY <1>3 DEF Unsent, Of, At, NeedToWrite, Writing, WriteComplete, UnSend, Committed
  <2>7. UpdTask'
    BY <1>1, <2>2, <2>6, UpdTaskKept DEF OneRowStep, OneRow, net
  <2>8. ASSUME Linked PROVE NoLive(t) \/ \A x \in TxIds : tx[x].by = t => LinkedTx(x)'
    BY <2>1, <2>6, <2>8, SettledLinked DEF Unsent
  <2>9. ASSUME OtherStates(t), SameMined, \A u \in TaskIds \ {t} : task'[u].retry = task[u].retry
        PROVE  BatchStep
    <3>1. BatchState(t)' = BatchState(t)
      BY <1>3, <2>1, SameOtherState DEF Becomes, At, Committed, Pending
    <3>2. QED
      BY <2>1, <2>9, <3>1, BatchStutters DEF OtherStates, SameStates, SameTries, Becomes
  <2>10. QED
    BY <1>1, <2>2, <2>4, <2>5, <2>7, <2>8, <2>9, RowStep
<1>4. QED
  BY <1>1, <1>2, <1>3

LEMMA ConfirmerStep ==
    ASSUME SmtInv0, TypeOK', Confirmer \/ CfFail
    PROVE  Sound
<1>1. CASE CfFinish
  BY <1>1, CfFinishStep
<1>2. CASE ~ CfFinish
  BY <1>2, StillStep DEF Confirmer, CfRead, CfLock, CfWrite, CfFail, CfUnchanged
<1>3. QED
  BY <1>1, <1>2

-----------------------------------------------------------------------------
(* The parser, the handlers and the distributor *)

\* Rows that are not the distributor's come and go unseen.
LEMMA OutsideRowsStep ==
    ASSUME SmtInv0, TypeOK', UNCHANGED <<net, upd>>, nTask <= nTask',
           \A u \in TaskIds :
               \/ task'[u] = task[u]
               \/ /\ ~ FromDistribution(u) /\ task'[u].from # "distribution"
                  /\ RowOk(u)'
                  /\ task[u].type = "Chain" => task'[u].type \in {"Chain", "Absent"}
    PROVE  Sound
<1>1. TxKept /\ SameMined /\ TxsOk'
  BY SameNet DEF SmtInv0
<1>2. ASSUME NEW u \in TaskIds, ~ FromDistribution(u)
      PROVE  /\ task[u].type \notin {"Delegate", "Closed"} /\ task[u].retry = 0
             /\ Linked => NoLive(u)
  <2>1. RowOk(u) /\ u # 0
    BY DEF SmtInv0, RowsOk, TaskIds
  <2>2. QED
    BY <1>2, <2>1 DEF RowOk, Linked, LinkedTx, NoLive, Of
<1>3. ASSUME NEW u \in TaskIds
      PROVE  /\ RowOk(u)' /\ EndStays(u) /\ BatchState(u)' = BatchState(u)
             /\ task'[u].retry = task[u].retry
             /\ Linked => task'[u] = task[u] \/ NoLive(u)
             /\ Unsent(u) => task'[u] = task[u]
  <2>1. CASE task'[u] = task[u]
    BY <1>1, <2>1, RowKept, SameRow DEF SmtInv0, RowsOk
  <2>2. CASE /\ ~ FromDistribution(u) /\ task'[u].from # "distribution"
             /\ RowOk(u)'
             /\ task[u].type = "Chain" => task'[u].type \in {"Chain", "Absent"}
    <3>1. BatchState(u) = "none"
      BY <2>2 DEF BatchState, FromDistribution
    <3>2. BatchState(u)' = "none"
      BY <2>2 DEF BatchState
    <3>3. task'[u].retry = 0
      BY <2>2 DEF RowOk, FromDistribution
    <3>4. EndStays(u) /\ ~ Unsent(u)
      BY <1>2, <2>2 DEF EndStays, GivenUp, Unsent, Of
    <3>5. QED
      BY <1>2, <2>2, <3>1, <3>2, <3>3, <3>4
  <2>3. QED
    BY <2>1, <2>2
<1>4. UpdTask'
  BY <1>3, UpdTaskKept DEF net
<1>5. ASSUME Linked PROVE Linked'
  BY <1>3, <1>5, LinkedKept DEF SmtInv0, net
<1>6. RowsOk' /\ EndsStay /\ SameStates /\ SameTries
  BY <1>3 DEF RowsOk, EndsStay, SameStates, SameTries
<1>7. QED
  BY <1>1, <1>4, <1>5, <1>6, BatchStutters DEF Sound

\* The row that gets the next id was empty.
LEMMA NextRow ==
    ASSUME SmtInv0
    PROVE  /\ nTask \in Nat
           /\ \A u \in TaskIds : u \in Nat /\ (u > nTask => task[u] = NoRow /\ ~ FromDistribution(u))
BY DEF SmtInv0, TypeOK, DatabaseTypeOK, TaskIds, RowsOk, RowOk, FromDistribution, NoRow

LEMMA ParseOwnUpdateStep ==
    ASSUME SmtInv0, TypeOK', ParseOwnUpdate
    PROVE  Sound
<1> PICK x : x = NextTx
  OBVIOUS
<1>1. PICK t \in GetTaskByRefOutpointAndOutpoint(x) :
        task' = [task EXCEPT ![t].type = "Chain", ![t].smt = NeedToWrite,
                             ![t].tx = Committed, ![t].bn = parsed + 1]
  BY DEF ParseOwnUpdate
<1>2. UNCHANGED <<nTask, net, upd>> /\ parsed < Height
  BY DEF ParseOwnUpdate, ParseUnchanged, MayParse, ToParse
<1>3. t \in TaskIds /\ task[t].smt = WriteComplete /\ task[t].tx = Pending /\ task[t].out = x
  BY DEF GetTaskByRefOutpointAndOutpoint, At
<1>4. Becomes(t, "Chain", NeedToWrite, Committed)
  <2>1. task \in [TaskIds -> Row]
    BY DEF SmtInv0, TypeOK, DatabaseTypeOK
  <2> DEFINE new == [task[t] EXCEPT !.type = "Chain", !.smt = NeedToWrite,
                                    !.tx = Committed, !.bn = parsed + 1]
  <2>2. OneRow(t) /\ task'[t] = new
    BY <1>1, <1>3, <2>1 DEF OneRow
  <2>3. /\ new.type = "Chain" /\ new.smt = NeedToWrite /\ new.tx = Committed
        /\ new.retry = task[t].retry /\ new.ref = task[t].ref /\ new.out = task[t].out
        /\ new.from = task[t].from
    BY <1>3, <2>1 DEF Row
  <2> HIDE DEF new
  <2>4. QED
    BY <1>2, <2>2, <2>3 DEF Becomes, OneRowStep
<1>5. RowOk(t) /\ OneRowStep(t)
  BY <1>3, <1>4 DEF SmtInv0, RowsOk, Becomes
<1>6. OnChain(x)
  <2>1. Height \in Nat /\ parsed \in 1..Height
    BY ChainTyped DEF SmtInv0, TypeOK, DatabaseTypeOK
  <2>3. parsed + 1 \in 1..Height
    BY <1>2, <2>1
  <2>2. QED
    BY <2>3 DEF SmtInv0, TxsOk, NextTx
<1>7. RowOk(t)'
  BY <1>3, <1>4, <1>5, RowBecomes DEF NeedToWrite, WriteComplete
<1>8. EndStays(t)
  BY <1>3, <1>4, <1>5
     DEF EndStays, GivenUp, RowOk, Of, Becomes, NeedToWrite, WriteComplete, RollbackComplete
<1>9. UpdTask'
  <2>1. ~ Unsent(t)
    BY <1>3 DEF Unsent, Of, NeedToWrite, Writing, WriteComplete
  <2>2. QED
    BY <1>2, <1>3, <1>5, <2>1, UpdTaskKept DEF OneRowStep, OneRow, net
<1>10. ASSUME Linked, NEW y \in TxIds, tx[y].by = t PROVE LinkedTx(y)'
  <2>1. Live(y) => task[t].out = y /\ FromDistribution(t)
    BY <1>3, <1>5, <1>10 DEF Linked, LinkedTx, RowOk, Of, TaskIds
  <2>2. QED
    BY <1>3, <1>4, <1>5, <1>6, <1>10, <2>1
       DEF LinkedTx, Becomes, OneRowStep, net, OnChain, Live, FromDistribution
<1>11. ASSUME OtherStates(t), SameMined, \A u \in TaskIds \ {t} : task'[u].retry = task[u].retry
       PROVE  BatchStep
  <2>1. SameTries
    BY <1>4, <1>11 DEF Becomes, SameTries
  <2>2. CASE FromDistribution(t)
    <3>1. task[t].type = "Delegate" /\ tx[x].by = t
      BY <1>3, <1>5, <2>2 DEF RowOk
    <3>2. MinedBatch(t)
      BY <1>6, <3>1 DEF MinedBatch, OnChain
    <3>3. BatchState(t) = "tried"
      BY <1>3, <2>2, <3>1, StateOfRow DEF Of
    <3>4. FromDistribution(t)'
      BY <1>4, <2>2 DEF Becomes, FromDistribution
    <3>5. BatchState(t)' = "done"
      BY <1>3, <1>4, <3>4, StateOfNewRow DEF Becomes
    <3>6. QED
      BY <1>3, <1>11, <2>1, <3>2, <3>3, <3>5, BatchFinishes
  <2>3. CASE ~ FromDistribution(t)
    <3>1. BatchState(t) = "none"
      BY <2>3 DEF BatchState, FromDistribution
    <3>2. task'[t].from # "distribution"
      BY <1>4, <2>3 DEF Becomes, FromDistribution
    <3>3. BatchState(t)' = "none"
      BY <3>2 DEF BatchState
    <3>4. QED
      BY <1>11, <2>1, <3>1, <3>3, BatchStutters DEF OtherStates, SameStates
  <2>4. QED
    BY <2>2, <2>3
<1>12. QED
  BY <1>2, <1>3, <1>5, <1>7, <1>8, <1>9, <1>10, <1>11, RowStep

LEMMA ParseOtherUpdateStep ==
    ASSUME SmtInv0, TypeOK', ParseOtherUpdate
    PROVE  Sound
<1> PICK t : t = nTask + 1
  OBVIOUS
<1>1. /\ UNCHANGED <<net, upd>>
      /\ \/ UNCHANGED <<task, nTask>>
         \/ /\ nTask < MaxTasks /\ nTask' = t
            /\ \E new : /\ new.type = "Chain" /\ new.smt = NeedToWrite /\ new.retry = 0
                        /\ new.from = "parser"
                        /\ task' = [task EXCEPT ![t] = new]
  <2> DEFINE x == NextTx
             new == [NoRow EXCEPT !.type = "Chain", !.tx = Committed, !.own = TRUE,
                                  !.ref = tx[x].ref, !.out = x, !.bn = parsed + 1]
  <2>1. /\ new.type = "Chain" /\ new.smt = NeedToWrite /\ new.retry = 0
        /\ new.from = "parser"
    BY DEF NoRow, NeedToWrite
  <2>2. \/ UNCHANGED <<task, nTask>>
        \/ nTask < MaxTasks /\ nTask' = t /\ task' = [task EXCEPT ![t] = new]
    BY DEF ParseOtherUpdate
  <2>3. UNCHANGED <<net, upd>>
    BY DEF ParseOtherUpdate, ParseUnchanged
  <2> HIDE DEF new
  <2>4. QED
    BY <2>1, <2>2, <2>3
<1>2. CASE UNCHANGED <<task, nTask>>
  BY <1>1, <1>2, StillStep
<1>3. ASSUME nTask < MaxTasks, nTask' = t, NEW new,
             new.type = "Chain", new.smt = NeedToWrite, new.retry = 0, new.from = "parser",
             task' = [task EXCEPT ![t] = new]
      PROVE  Sound
  <2>1. task \in [TaskIds -> Row] /\ t \in TaskIds /\ t > nTask /\ nTask <= nTask' /\ ~ (t > nTask')
    BY <1>3, NextRow, BoundsTyped DEF SmtInv0, TypeOK, DatabaseTypeOK, TaskIds
  <2>2. task'[t] = new /\ \A u \in TaskIds : u # t => task'[u] = task[u]
    BY <1>3, <2>1
  <2>3. ~ FromDistribution(t) /\ task[t] = NoRow
    BY <2>1, NextRow
  <2>4. RowOk(t)'
    BY <1>3, <2>1, <2>2 DEF RowOk, FromDistribution, NeedToWrite, WriteComplete
  <2>5. QED
    BY <1>1, <1>3, <2>1, <2>2, <2>3, <2>4, OutsideRowsStep DEF NoRow
<1>4. QED
  BY <1>1, <1>2, <1>3

LEMMA ParseNoLeafStep ==
    ASSUME SmtInv0, TypeOK', ParseNoLeaf
    PROVE  Sound
<1> PICK t : t = nTask + 1
  OBVIOUS
<1> PICK x : x = NextTx
  OBVIOUS
<1> DEFINE new == [NoRow EXCEPT !.type = "Chain", !.smt = WriteComplete, !.tx = Committed,
                                !.out = x, !.bn = parsed + 1]
<1>1. /\ UNCHANGED <<net, upd>> /\ nTask < MaxTasks /\ nTask' = t /\ parsed < Height
      /\ task' = [u \in TaskIds |-> IF u = t THEN new
                                    ELSE IF task[u].ref = 0 /\ task[u].out = x THEN NoRow
                                    ELSE task[u]]
  BY DEF ParseNoLeaf, ParseUnchanged, MayParse, ToParse
<1>2. /\ new.type = "Chain" /\ new.smt = WriteComplete /\ new.tx = Committed
      /\ new.retry = 0 /\ new.from = "parser"
  BY DEF NoRow
<1> HIDE DEF new
<1>3. t \in TaskIds /\ t > nTask /\ nTask <= nTask' /\ ~ (t > nTask')
  BY <1>1, NextRow, BoundsTyped DEF TaskIds
<1>4. x # 0
  <2>1. Height \in Nat /\ parsed \in 1..Height /\ \A h \in 1..Height : chain[h] \in TxIds
    BY ChainTyped DEF SmtInv0, TypeOK, DatabaseTypeOK
  <2>2. parsed + 1 \in 1..Height
    BY <1>1, <2>1
  <2>3. x \in TxIds
    BY <2>1, <2>2 DEF NextTx
  <2>4. QED
    BY <2>3 DEF TxIds
<1>5. ~ FromDistribution(t) /\ task[t] = NoRow
  BY <1>3, NextRow
<1>6. RowOk(t)' /\ task'[t].from # "distribution" /\ task'[t].type = "Chain"
  <2>1. task'[t] = new
    BY <1>1, <1>3
  <2>2. QED
    BY <1>2, <1>3, <2>1 DEF RowOk, FromDistribution, Committed, Pending
<1>7. ASSUME NEW u \in TaskIds, u # t, task'[u] # task[u]
      PROVE  /\ ~ FromDistribution(u) /\ RowOk(u)'
             /\ task'[u].from # "distribution" /\ task'[u].type = "Absent"
  <2>1. task[u].ref = 0 /\ task[u].out = x /\ task'[u] = NoRow
    BY <1>1, <1>7
  <2>2. ~ FromDistribution(u)
    BY <1>4, <2>1 DEF SmtInv0, RowsOk, RowOk
  <2>3. RowOk(u)' /\ task'[u].from # "distribution" /\ task'[u].type = "Absent"
    BY <2>1 DEF RowOk, FromDistribution, NoRow, WriteComplete
  <2>4. QED
    BY <2>2, <2>3
<1>8. QED
  BY <1>1, <1>3, <1>5, <1>6, <1>7, OutsideRowsStep DEF NoRow

\* Only rows of the handlers have the transaction of a provider's withdrawal.
LEMMA ParseChannelProfitStep ==
    ASSUME SmtInv0, TypeOK', ParseChannelProfit
    PROVE  Sound
<1> PICK x : x = NextTx
  OBVIOUS
<1>1. UNCHANGED <<nTask, net, upd>>
  BY DEF ParseChannelProfit, ParseUnchanged
<1>2. tx[x].kind = "channel"
  BY DEF ParseChannelProfit
<1>3. parsed < Height
  BY DEF ParseChannelProfit, MayParse, ToParse
<1>4. ASSUME NEW u \in TaskIds, task'[u] # task[u]
      PROVE  /\ task[u].type # "Absent" /\ task[u].out = x
             /\ task'[u] = [task[u] EXCEPT !.tx = Committed, !.bn = parsed + 1]
  BY <1>4 DEF ParseChannelProfit
<1>5. x \in TxIds
  <2>1. Height \in Nat /\ parsed \in 1..Height /\ \A h \in 1..Height : chain[h] \in TxIds
    BY ChainTyped DEF SmtInv0, TypeOK, DatabaseTypeOK
  <2>2. parsed + 1 \in 1..Height
    BY <1>3, <2>1
  <2>3. QED
    BY <2>1, <2>2 DEF NextTx
<1>6. TxOk(x) /\ x # 0
  BY <1>5 DEF SmtInv0, TxsOk, TxIds
<1>7. tx[x].by = 0
  BY <1>2, <1>6 DEF TxOk
<1>8. ASSUME NEW u \in TaskIds, task'[u] # task[u]
      PROVE  /\ ~ FromDistribution(u) /\ RowOk(u)'
             /\ task'[u].from # "distribution" /\ task'[u].type = task[u].type
  <2>1. task[u].type # "Absent" /\ task[u].out = x
    BY <1>4, <1>8
  <2>2. /\ task'[u].tx = Committed /\ task'[u].type = task[u].type
        /\ task'[u].smt = task[u].smt /\ task'[u].retry = task[u].retry
        /\ task'[u].from = task[u].from
    <3>1. task[u] \in Row
      BY DEF SmtInv0, TypeOK, DatabaseTypeOK
    <3>2. task'[u] = [task[u] EXCEPT !.tx = Committed, !.bn = parsed + 1]
      BY <1>4, <1>8
    <3>3. QED
      BY <3>1, <3>2 DEF Row
  <2>3. RowOk(u)
    BY DEF SmtInv0, RowsOk
  <2>4. ~ FromDistribution(u)
    <3>1. u # 0
      BY DEF TaskIds
    <3>2. QED
      BY <1>6, <1>7, <2>1, <2>3, <3>1 DEF RowOk
  <2>5. ~ (u > nTask')
    <3>1. ~ (u > nTask)
      BY <2>1, NextRow DEF NoRow
    <3>2. QED
      BY <1>1, <3>1
  <2>6. RowOk(u)'
    BY <2>2, <2>3, <2>4, <2>5 DEF RowOk, FromDistribution, Committed, Pending
  <2>7. QED
    BY <2>2, <2>4, <2>6 DEF FromDistribution
<1>9. nTask <= nTask'
  BY <1>1, NextRow
<1>10. QED
  BY <1>1, <1>8, <1>9, OutsideRowsStep

LEMMA ParserStep ==
    ASSUME SmtInv0, TypeOK', Parser
    PROVE  Sound
<1>1. ASSUME ParserStoreBlock PROVE Sound
  BY <1>1, StillStep DEF ParserStoreBlock
<1>2. QED
  BY <1>1, ParseOwnUpdateStep, ParseOtherUpdateStep, ParseNoLeafStep, ParseChannelProfitStep
     DEF Parser

-----------------------------------------------------------------------------
(* The handlers and the distributor *)

LEMMA SpendCreateTaskStep ==
    ASSUME SmtInv0, TypeOK', SpendCreateTask
    PROVE  Sound
<1>1. UNCHANGED <<net, upd>> /\ hnd # 0
  BY DEF SpendCreateTask, net
<1>2. CASE UNCHANGED <<task, nTask>>
  BY <1>1, <1>2, StillStep
<1>3. CASE ~ UNCHANGED <<task, nTask>>
  <2> PICK t : t = nTask + 1
    OBVIOUS
  <2> DEFINE new == [NoRow EXCEPT
                 !.type = IF tx[hnd].kind = "channel" THEN "Chain" ELSE "Normal",
                 !.smt = WriteComplete, !.tx = Pending,
                 !.own = (tx[hnd].kind = "config"), !.out = hnd,
                 !.from = "handler"]
  <2>1. nTask < MaxTasks /\ nTask' = t /\ task' = [task EXCEPT ![t] = new]
    BY <1>3 DEF SpendCreateTask
  <2>2. /\ new.type \in {"Chain", "Normal"} /\ new.smt = WriteComplete /\ new.tx = Pending
        /\ new.retry = 0 /\ new.from = "handler" /\ new.out = hnd /\ new.ref = 0
    BY DEF NoRow
  <2> HIDE DEF new
  <2>3. t \in TaskIds /\ t > nTask /\ nTask <= nTask' /\ ~ (t > nTask')
    BY <2>1, NextRow, BoundsTyped DEF TaskIds
  <2>4. task'[t] = new /\ OneRow(t)
    BY <2>1, <2>3 DEF OneRow, SmtInv0, TypeOK, DatabaseTypeOK
  <2>5. ~ FromDistribution(t) /\ task[t] = NoRow
    BY <2>3, NextRow
  <2>6. RowOk(t)' /\ task'[t].from # "distribution"
    BY <1>1, <2>2, <2>3, <2>4 DEF RowOk, FromDistribution
  <2>7. QED
    BY <1>1, <2>3, <2>4, <2>5, <2>6, OutsideRowsStep DEF NoRow, OneRow
<1>4. QED
  BY <1>2, <1>3

\* The distributor's rows were empty, so nothing was built for them.
LEMMA DistributionStep ==
    ASSUME SmtInv0, TypeOK', doUpdateDistribution
    PROVE  Sound
<1>1. UNCHANGED <<net, upd>>
  BY DEF doUpdateDistribution, net
<1>2. PICK k \in 1 .. MaxTasks - nTask :
        /\ nTask' = nTask + k
        /\ task' = [t \in TaskIds |->
                      IF t \in nTask + 1 .. nTask + k
                      THEN [NoRow EXCEPT !.type = "Delegate", !.own = TRUE,
                                         !.script = tx[LiveCell].script,
                                         !.from = "distribution"]
                      ELSE task[t]]
  BY DEF doUpdateDistribution
<1> DEFINE row == [NoRow EXCEPT !.type = "Delegate", !.own = TRUE,
                                !.script = tx[LiveCell].script, !.from = "distribution"]
           new == {t \in TaskIds : t \in nTask + 1 .. nTask + k}
<1>3. /\ row.type = "Delegate" /\ row.smt = NeedToWrite /\ row.tx = UnSend /\ row.retry = 0
      /\ row.from = "distribution" /\ row.out = 0
  BY DEF NoRow, NeedToWrite, UnSend
<1>4. \A t \in TaskIds : task'[t] = IF t \in new THEN row ELSE task[t]
  BY <1>2
<1>5. nTask \in Nat /\ MaxTasks \in Nat /\ k \in Nat /\ nTask <= nTask' /\ nTask \in 1..MaxTasks
  BY <1>2, NextRow, BoundsTyped DEF SmtInv0, TypeOK, DatabaseTypeOK
<1>6. \A t \in new : t > nTask /\ ~ (t > nTask') /\ t \in TaskIds
  BY <1>2, <1>5 DEF TaskIds
<1> HIDE DEF row, new
<1>7. TxKept /\ SameMined /\ TxsOk'
  BY <1>1, SameNet DEF SmtInv0
<1>8. ASSUME NEW t \in new
      PROVE  /\ RowOk(t)' /\ EndStays(t) /\ ~ Unsent(t)
             /\ Linked => NoLive(t)
             /\ BatchState(t) = "none" /\ BatchState(t)' = "waiting"
             /\ task'[t].retry = task[t].retry
  <2>1. task[t] = NoRow /\ ~ FromDistribution(t) /\ task'[t] = row /\ t \in TaskIds /\ t # 0
    BY <1>4, <1>6, NextRow DEF TaskIds
  <2>2. RowOk(t)'
    BY <1>3, <1>6, <2>1 DEF RowOk, FromDistribution, NeedToWrite, WriteComplete
  <2>3. EndStays(t) /\ ~ Unsent(t)
    BY <2>1 DEF EndStays, GivenUp, Unsent, Of, NoRow
  <2>4. Linked => NoLive(t)
    BY <2>1 DEF Linked, LinkedTx, NoLive, Of, NoRow, FromDistribution
  <2>5. BatchState(t) = "none"
    BY <2>1 DEF BatchState, FromDistribution
  <2>6. BatchState(t)' = "waiting"
    BY <1>3, <2>1 DEF BatchState, GivenUp, InFlight, At, NeedToWrite, UnSend, Writing,
                      WriteComplete, NeedToRollback, RollbackComplete, Pending
  <2>7. QED
    BY <1>3, <2>1, <2>2, <2>3, <2>4, <2>5, <2>6 DEF NoRow
<1>9. ASSUME NEW t \in TaskIds \ new
      PROVE  /\ RowOk(t)' /\ EndStays(t) /\ BatchState(t)' = BatchState(t)
             /\ task'[t].retry = task[t].retry /\ task'[t] = task[t]
  BY <1>4, <1>5, <1>7, RowKept, SameRow DEF SmtInv0, RowsOk
<1>10. \A t \in TaskIds : t \in new \/ t \in TaskIds \ new
  OBVIOUS
<1>11. RowsOk' /\ EndsStay /\ SameTries
  BY <1>8, <1>9, <1>10 DEF RowsOk, EndsStay, SameTries
<1>12. UpdTask'
  BY <1>1, <1>8, <1>9, <1>10, UpdTaskKept DEF net
<1>13. ASSUME Linked PROVE Linked'
  BY <1>1, <1>8, <1>9, <1>10, <1>13, LinkedKept DEF SmtInv0, net
<1>14. BatchStep
  <2>1. new \in SUBSET TaskIds
    BY <1>6
  <2>2. QED
    BY <1>7, <1>8, <1>9, <1>11, <2>1, BatchesAreQueued
<1>15. QED
  BY <1>7, <1>11, <1>12, <1>13, <1>14 DEF Sound

-----------------------------------------------------------------------------
(* The node, and the steps that touch neither tasks nor transactions *)

\* A step that adds transactions of no task, or moves the others on.
LEMMA NodeStep ==
    ASSUME SmtInv0, TypeOK', UNCHANGED <<task, nTask, upd>>, nTx <= nTx',
           \A y \in TxIds : y <= nTx =>
               /\ tx'[y].by = tx[y].by /\ tx'[y].ref = tx[y].ref /\ tx'[y].kind = tx[y].kind
               /\ tx[y].status \in {"committed", "built"} => tx'[y].status = tx[y].status
               /\ Live(y)' => Live(y),
           \A y \in TxIds : y > nTx => TxOk(y)' /\ (Live(y)' => tx'[y].by = 0),
           \A h \in 1..Height' : NowOnChain(chain'[h]) \/ OnChain(chain'[h]),
           SameStates /\ SameTries /\ Linked => BatchStep
    PROVE  Sound
<1>1. nTx \in Nat /\ \A y \in TxIds : y \in Nat
  BY DEF SmtInv0, TypeOK, NodeTypeOK, TxIds
<1>2. TxKept /\ TxsOk'
  BY TxsStep
<1>3. RowsOk' /\ EndsStay /\ SameStates /\ SameTries
  BY <1>2, SameRows
<1>4. UpdTask'
  <2>1. \A y \in TxIds : tx[y].status = "built" => tx'[y].status = "built"
    BY <1>1 DEF SmtInv0, TxsOk, TxOk
  <2>2. QED
    BY <2>1, UpdTaskKept
<1>5. ASSUME Linked, NEW y \in TxIds, Live(y)', tx'[y].by # 0 PROVE LinkedTx(y)'
  <2>1. y <= nTx
    BY <1>1, <1>5
  <2>2. /\ Live(y) /\ LinkedTx(y) /\ tx'[y].by = tx[y].by
        /\ tx[y].status = "committed" => tx'[y].status = "committed"
    BY <1>5, <2>1 DEF Linked
  <2>3. QED
    BY <1>5, <2>2 DEF LinkedTx, Live, Of, FromDistribution
<1>6. Linked => Linked'
  BY <1>5 DEF Linked, LinkedTx
<1>7. QED
  BY <1>2, <1>3, <1>4, <1>6 DEF Sound

\* Past nTx there is no transaction.
LEMMA NoTxYet ==
    ASSUME SmtInv0, NEW y \in TxIds, y > nTx
    PROVE  tx[y].status = "absent" /\ (tx[y].by # 0 => tx[y].kind = "update") /\ ~ Live(y)
BY DEF SmtInv0, TxsOk, TxOk, Live

LEMMA SpendSendStep ==
    ASSUME SmtInv0, TypeOK', NEW kind \in SpendKinds, NEW script, SpendSend(kind, script)
    PROVE  Sound
<1> PICK x : x = nTx + 1
  OBVIOUS
<1> DEFINE new == [kind |-> kind, ref |-> LiveCell, by |-> 0, leaf |-> RootAt(Height),
                   upd |-> {}, script |-> script, status |-> "pool"]
<1>1. /\ tx' = [tx EXCEPT ![x] = new] /\ nTx' = x /\ nTx < MaxTxs
      /\ UNCHANGED <<task, nTask, upd, chain>>
  BY DEF SpendSend, db
<1>2. new.by = 0 /\ new.status = "pool"
  OBVIOUS
<1> HIDE DEF new
<1>3. /\ nTx \in Nat /\ x \in TxIds /\ x > nTx /\ nTx <= nTx'
      /\ \A y \in TxIds : y \in Nat /\ (y <= nTx => y # x) /\ (y > nTx => y = x \/ y > nTx')
  BY <1>1, BoundsTyped DEF SmtInv0, TypeOK, NodeTypeOK, TxIds
<1>4. tx'[x] = new /\ \A y \in TxIds \ {x} : tx'[y] = tx[y]
  BY <1>1, <1>3 DEF SmtInv0, TypeOK, NodeTypeOK
<1>5. ASSUME NEW y \in TxIds, y > nTx PROVE TxOk(y)' /\ (Live(y)' => tx'[y].by = 0)
  <2>1. CASE y = x
    BY <1>1, <1>2, <1>3, <1>4, <2>1 DEF TxOk
  <2>2. CASE y # x
    BY <1>4, <1>5, <2>2, NoTxYet DEF TxOk, Live
  <2>3. QED
    BY <2>1, <2>2
<1>6. \A h \in 1..Height' : OnChain(chain'[h])
  BY <1>1 DEF SmtInv0, TxsOk, Height
<1>7. SameMined
  <2>1. tx[x].status # "committed" /\ tx'[x].status # "committed"
    BY <1>2, <1>3, <1>4, NoTxYet
  <2>2. QED
    BY <1>4, <2>1 DEF SameMined, MinedBatch
<1>8. \A y \in TxIds : y <= nTx =>
               /\ tx'[y].by = tx[y].by /\ tx'[y].ref = tx[y].ref /\ tx'[y].kind = tx[y].kind
               /\ tx[y].status \in {"committed", "built"} => tx'[y].status = tx[y].status
               /\ Live(y)' => Live(y)
  BY <1>3, <1>4 DEF Live
<1>9. QED
  BY <1>1, <1>3, <1>5, <1>6, <1>7, <1>8, NodeStep, BatchStutters

LEMMA RejectTxStep ==
    ASSUME SmtInv0, TypeOK', NEW x \in TxIds, RejectTx(x)
    PROVE  Sound
<1>1. /\ tx' = [tx EXCEPT ![x].status = "rejected"] /\ tx[x].status = "pool"
      /\ UNCHANGED <<task, nTask, upd, nTx, chain>>
  BY DEF RejectTx, EnvUnchanged, db
<1>2. /\ \A y \in TxIds \ {x} : tx'[y] = tx[y]
      /\ tx'[x].by = tx[x].by /\ tx'[x].ref = tx[x].ref /\ tx'[x].kind = tx[x].kind
      /\ tx'[x].status = "rejected"
  <2>1. tx \in [TxIds -> Tx]
    BY DEF SmtInv0, TypeOK, NodeTypeOK
  <2>2. QED
    BY <1>1, <2>1 DEF Tx
<1>3. ASSUME NEW y \in TxIds, y > nTx PROVE TxOk(y)' /\ (Live(y)' => tx'[y].by = 0)
  <2>1. y # x
    BY <1>1, <1>3, NoTxYet
  <2>2. QED
    BY <1>2, <1>3, <2>1, NoTxYet DEF TxOk, Live
<1>4. \A h \in 1..Height' : OnChain(chain'[h])
  BY <1>1 DEF SmtInv0, TxsOk, Height
<1>5. SameMined
  BY <1>1, <1>2 DEF SameMined, MinedBatch
<1>6. \A y \in TxIds :
               /\ tx'[y].by = tx[y].by /\ tx'[y].ref = tx[y].ref /\ tx'[y].kind = tx[y].kind
               /\ tx[y].status \in {"committed", "built"} => tx'[y].status = tx[y].status
               /\ Live(y)' => Live(y)
  BY <1>1, <1>2 DEF Live
<1>7. nTx <= nTx'
  BY <1>1 DEF SmtInv0, TypeOK, NodeTypeOK, TxIds
<1>8. QED
  BY <1>1, <1>3, <1>4, <1>5, <1>6, <1>7, NodeStep, BatchStutters

\* What the commit of x does to the transactions and the chain.
LEMMA Settles ==
    ASSUME TypeOK, NEW txs \in [TxIds -> Tx], NEW x \in TxIds,
           tx' = SettleTx(x, txs), chain' = Append(chain, x)
    PROVE  /\ \A y \in TxIds : /\ tx'[y].by = txs[y].by /\ tx'[y].ref = txs[y].ref
                               /\ tx'[y].kind = txs[y].kind
           /\ tx'[x].status = "committed"
           /\ \A y \in TxIds \ {x} : \/ tx'[y].status = txs[y].status
                                     \/ txs[y].status = "pool" /\ tx'[y].status = "rejected"
           /\ Height' = Height + 1 /\ chain'[Height + 1] = x
           /\ \A h \in 1..Height : chain'[h] = chain[h]
<1>1. ASSUME NEW y \in TxIds
      PROVE  /\ tx'[y].by = txs[y].by /\ tx'[y].ref = txs[y].ref /\ tx'[y].kind = txs[y].kind
             /\ y = x => tx'[y].status = "committed"
             /\ \/ y = x \/ tx'[y].status = txs[y].status
                \/ txs[y].status = "pool" /\ tx'[y].status = "rejected"
  <2>1. txs[y] \in Tx
    OBVIOUS
  <2>2. tx'[y] \in {txs[y], [txs[y] EXCEPT !.status = "committed"],
                    [txs[y] EXCEPT !.status = "rejected"]}
    BY DEF SettleTx
  <2>3. CASE y = x
    <3>1. tx'[y] = [txs[y] EXCEPT !.status = "committed"]
      BY <2>3 DEF SettleTx
    <3>2. QED
      BY <2>1, <2>3, <3>1 DEF Tx
  <2>4. CASE y # x /\ tx'[y] # txs[y]
    <3>1. txs[y].status = "pool" /\ tx'[y] = [txs[y] EXCEPT !.status = "rejected"]
      BY <2>4 DEF SettleTx
    <3>2. QED
      BY <2>1, <2>4, <3>1 DEF Tx
  <2>5. QED
    BY <2>3, <2>4
<1>2. chain \in Seq(TxIds)
  BY DEF TypeOK, NodeTypeOK
<1>3. QED
  BY <1>1, <1>2 DEF Height

\* A delegate task whose transaction is committed is in flight: it is mined.
LEMMA CommitTxStep ==
    ASSUME SmtInv0, TypeOK', NEW x \in TxIds, CommitTx(x)
    PROVE  Sound
<1>1. /\ tx' = SettleTx(x, tx) /\ chain' = Append(chain, x) /\ tx[x].status = "pool"
      /\ UNCHANGED <<task, nTask, upd, nTx>>
  BY DEF CommitTx, EnvUnchanged, db
<1>2. /\ \A y \in TxIds : /\ tx'[y].by = tx[y].by /\ tx'[y].ref = tx[y].ref
                          /\ tx'[y].kind = tx[y].kind
      /\ tx'[x].status = "committed"
      /\ \A y \in TxIds \ {x} : \/ tx'[y].status = tx[y].status
                                \/ tx[y].status = "pool" /\ tx'[y].status = "rejected"
      /\ Height' = Height + 1 /\ chain'[Height + 1] = x
      /\ \A h \in 1..Height : chain'[h] = chain[h]
  BY <1>1, Settles DEF SmtInv0, TypeOK, NodeTypeOK
<1>3. nTx \in Nat /\ nTx <= nTx' /\ x <= nTx /\ (\A y \in TxIds : y \in Nat) /\ Height \in Nat
  BY <1>1, NoTxYet, ChainTyped DEF SmtInv0, TypeOK, NodeTypeOK, TxIds
<1>4. \A y \in TxIds :
        /\ tx'[y].by = tx[y].by /\ tx'[y].ref = tx[y].ref /\ tx'[y].kind = tx[y].kind
        /\ tx[y].status \in {"committed", "built"} => tx'[y].status = tx[y].status
        /\ Live(y)' => Live(y)
  BY <1>1, <1>2 DEF Live
<1>5. ASSUME NEW y \in TxIds, y > nTx PROVE TxOk(y)' /\ (Live(y)' => tx'[y].by = 0)
  <2>1. y # x
    BY <1>1, <1>5, NoTxYet
  <2>2. tx'[y].status = "absent"
    BY <1>2, <1>5, <2>1, NoTxYet
  <2>3. QED
    BY <1>2, <1>5, <2>2, NoTxYet DEF TxOk, Live
<1>6. ASSUME NEW h \in 1..Height' PROVE NowOnChain(chain'[h]) \/ OnChain(chain'[h])
  <2>1. CASE h = Height + 1
    BY <1>1, <1>2, <1>3, <2>1 DEF NowOnChain
  <2>2. CASE h # Height + 1
    <3>1. h \in 1..Height
      BY <1>2, <1>3, <2>2
    <3>2. QED
      BY <1>2, <3>1 DEF SmtInv0, TxsOk
  <2>3. QED
    BY <2>1, <2>2
<1>7. ASSUME SameStates, SameTries, Linked PROVE BatchStep
  <2>1. ASSUME NEW u \in TaskIds, u # tx[x].by PROVE MinedBatch(u)' = MinedBatch(u)
    BY <1>1, <1>2, <2>1 DEF MinedBatch
  <2>2. CASE tx[x].by = 0
    <3>1. SameMined
      BY <2>1, <2>2 DEF SameMined, TaskIds
    <3>2. QED
      BY <1>7, <3>1, BatchStutters
  <2>3. CASE tx[x].by # 0
    <3> PICK t : t = tx[x].by
      OBVIOUS
    <3>1. t \in TaskIds
      BY <2>3, BoundsTyped DEF SmtInv0, TypeOK, NodeTypeOK, Tx, TaskIds
    <3>2. /\ Live(x) /\ LinkedTx(x)
          /\ Of(t, "Delegate", WriteComplete, Pending) \/ Of(t, "Delegate", Writing, UnSend)
      BY <1>1, <1>7, <2>3 DEF Linked, LinkedTx, Live
    <3>3. FromDistribution(t)
      BY <3>1, <3>2 DEF SmtInv0, RowsOk, RowOk, Of
    <3>4. BatchState(t) = "tried"
      BY <3>1, <3>2, <3>3 DEF BatchState, GivenUp, InFlight, At, Of, FromDistribution,
                              WriteComplete, Writing, RollbackComplete
    <3>5. ~ MinedBatch(t)
      <4>1. ASSUME NEW y \in TxIds, tx[y].by = t, tx[y].status = "committed" PROVE FALSE
        <5>1. LinkedTx(y) /\ Live(y)
          BY <1>7, <4>1 DEF Linked, Live
        <5>2. task[t].out = y /\ task[t].out = x
          BY <2>3, <3>2, <4>1, <5>1 DEF LinkedTx
        <5>3. QED
          BY <1>1, <4>1, <5>2
      <4>2. QED
        BY <4>1 DEF MinedBatch
    <3>6. MinedBatch(t)'
      BY <1>2 DEF MinedBatch
    <3>7. \A u \in TaskIds \ {t} : MinedBatch(u)' = MinedBatch(u)
      BY <2>1
    <3>8. QED
      BY <1>7, <3>1, <3>4, <3>5, <3>6, <3>7, BatchIsMined
  <2>4. QED
    BY <2>2, <2>3
<1>8. QED
  BY <1>1, <1>3, <1>4, <1>5, <1>6, <1>7, NodeStep

LEMMA ForeignCommitStep ==
    ASSUME SmtInv0, TypeOK', NEW a \in Accounts, ForeignCommit(a)
    PROVE  Sound
<1> PICK x : x = nTx + 1
  OBVIOUS
<1> DEFINE v == RootAt(Height)[a] + 1
           new == [kind |-> "update", ref |-> LiveCell, by |-> 0,
                   leaf |-> [RootAt(Height) EXCEPT ![a] = v], upd |-> {a},
                   script |-> tx[LiveCell].script, status |-> "pool"]
<1> PICK txs : txs = [tx EXCEPT ![x] = new]
  OBVIOUS
<1>1. /\ tx' = SettleTx(x, txs) /\ nTx' = x /\ chain' = Append(chain, x)
      /\ nTx < MaxTxs /\ v \in Versions /\ UNCHANGED <<task, nTask, upd>>
  BY DEF ForeignCommit, EnvUnchanged, db
<1>2. new \in Tx
  <2>1. LiveCell \in 0..MaxTxs /\ tx[LiveCell].script \in Scripts
    BY ChainTyped, BoundsTyped DEF TxIds, Tx, LiveCell, SmtInv0
  <2>2. [RootAt(Height) EXCEPT ![a] = v] \in [Accounts -> Versions]
    BY <1>1, ChainTyped DEF SmtInv0
  <2> HIDE DEF v
  <2>3. QED
    BY <2>1, <2>2, StepValues DEF Tx, SpendKinds
<1>3. new.by = 0 /\ new.kind = "update"
  OBVIOUS
<1> HIDE DEF new
<1>4. /\ nTx \in Nat /\ x \in TxIds /\ x > nTx /\ nTx <= nTx'
      /\ \A y \in TxIds : y \in Nat /\ (y <= nTx => y # x) /\ (y > nTx => y = x \/ y > nTx')
  BY <1>1, BoundsTyped DEF SmtInv0, TypeOK, NodeTypeOK, TxIds
<1>5. txs \in [TxIds -> Tx] /\ txs[x] = new /\ \A y \in TxIds \ {x} : txs[y] = tx[y]
  BY <1>2, <1>4 DEF SmtInv0, TypeOK, NodeTypeOK
<1>6. /\ \A y \in TxIds : /\ tx'[y].by = txs[y].by /\ tx'[y].ref = txs[y].ref
                          /\ tx'[y].kind = txs[y].kind
      /\ tx'[x].status = "committed"
      /\ \A y \in TxIds \ {x} : \/ tx'[y].status = txs[y].status
                                \/ txs[y].status = "pool" /\ tx'[y].status = "rejected"
      /\ Height' = Height + 1 /\ chain'[Height + 1] = x
      /\ \A h \in 1..Height : chain'[h] = chain[h]
  <2>1. TypeOK /\ txs \in [TxIds -> Tx] /\ x \in TxIds
    BY <1>4, <1>5 DEF SmtInv0
  <2>2. tx' = SettleTx(x, txs) /\ chain' = Append(chain, x)
    BY <1>1
  <2>3. QED
    BY ONLY <2>1, <2>2, Settles
<1>7. ASSUME NEW y \in TxIds, y <= nTx
      PROVE  /\ tx'[y].by = tx[y].by /\ tx'[y].ref = tx[y].ref /\ tx'[y].kind = tx[y].kind
             /\ tx[y].status \in {"committed", "built"} => tx'[y].status = tx[y].status
             /\ Live(y)' => Live(y)
  BY <1>4, <1>5, <1>6, <1>7 DEF Live
<1>8. ASSUME NEW y \in TxIds, y > nTx PROVE TxOk(y)' /\ (Live(y)' => tx'[y].by = 0)
  <2>1. CASE y = x
    <3>1. tx'[y].by = 0
      BY <1>3, <1>4, <1>5, <1>6, <2>1
    <3>2. ~ (y > nTx')
      BY <1>1, <1>4, <2>1
    <3>3. QED
      BY <3>1, <3>2 DEF TxOk
  <2>2. CASE y # x
    <3>1. txs[y] = tx[y] /\ tx[y].status = "absent"
      BY <1>5, <1>8, <2>2, NoTxYet
    <3>2. tx'[y].status = "absent" /\ (tx'[y].by # 0 => tx'[y].kind = "update")
      BY <1>6, <1>8, <2>2, <3>1, NoTxYet
    <3>3. QED
      BY <3>2 DEF TxOk, Live
  <2>3. QED
    BY <2>1, <2>2
<1>9. ASSUME NEW h \in 1..Height' PROVE NowOnChain(chain'[h]) \/ OnChain(chain'[h])
  <2>1. Height \in Nat
    BY ChainTyped DEF SmtInv0
  <2>2. CASE h = Height + 1
    <3>1. chain'[h] = x /\ tx'[x].status = "committed"
      BY <1>6, <2>2
    <3>2. x \in TxIds /\ x <= nTx'
      BY <1>1, <1>4
    <3>3. QED
      BY <3>1, <3>2 DEF NowOnChain
  <2>3. CASE h # Height + 1
    <3>1. h \in 1..Height
      BY <1>6, <2>1, <2>3
    <3>2. QED
      BY <1>6, <3>1 DEF SmtInv0, TxsOk
  <2>4. QED
    BY <2>2, <2>3
<1>10. SameMined
  <2>1. tx'[x].by = 0 /\ tx[x].status # "committed"
    BY <1>3, <1>4, <1>5, <1>6, NoTxYet
  <2>2. \A y \in TxIds \ {x} : /\ tx'[y].by = tx[y].by
                               /\ tx'[y].status = "committed" <=> tx[y].status = "committed"
    BY <1>5, <1>6
  <2>3. \A u \in TaskIds : u # 0
    BY DEF TaskIds
  <2>4. QED
    BY <2>1, <2>2, <2>3 DEF SameMined, MinedBatch
<1>11. QED
  BY <1>1, <1>4, <1>7, <1>8, <1>9, <1>10, NodeStep, BatchStutters

LEMMA EnvironmentStep ==
    ASSUME SmtInv0, TypeOK', Environment
    PROVE  Sound
<1>1. ASSUME SyncInfo PROVE Sound
  BY <1>1, StillStep DEF SyncInfo, EnvUnchanged, db
<1>2. ASSUME Crash PROVE Sound
  BY <1>2, StillStep DEF Crash, db
<1>3. ASSUME LockExpire PROVE Sound
  BY <1>3, StillStep DEF LockExpire, db
<1>4. QED
  BY <1>1, <1>2, <1>3, CommitTxStep, RejectTxStep, ForeignCommitStep DEF Environment

LEMMA HandlersStep ==
    ASSUME SmtInv0, TypeOK', Handlers
    PROVE  Sound
<1>1. ASSUME NEW a \in Accounts, Request(a) PROVE Sound
  BY <1>1, StillStep DEF Request
<1>2. Kinds \subseteq SpendKinds
  BY SmtTaskAssumption DEF SmtTaskAssumption
<1>3. QED
  BY <1>1, <1>2, SpendSendStep, SpendCreateTaskStep DEF Handlers

LEMMA NextStep ==
    ASSUME SmtInv0, TypeOK', [Next]_vars
    PROVE  Sound
<1>1. ASSUME UNCHANGED vars PROVE Sound
  BY <1>1, StillStep DEF vars, net
<1>2. QED
  BY <1>1, HandlersStep, DistributionStep, UpdaterStep, CheckerStep, RollbackerStep,
     ConfirmerStep, ParserStep, EnvironmentStep DEF Next

-----------------------------------------------------------------------------
(* The theorems *)

LEMMA InitSound == Init => SmtInv /\ Batch!BatchInit
<1> SUFFICES ASSUME Init PROVE SmtInv /\ Batch!BatchInit
  OBVIOUS
<1> DEFINE genesis == [NoRow EXCEPT !.type = "Chain", !.smt = WriteComplete,
                                    !.tx = Committed, !.out = 1, !.bn = 1]
           first == [NoTx EXCEPT !.kind = "config", !.status = "committed"]
<1>1. TypeOK /\ StepsOK
  BY InitTyped
<1>2. /\ \A t \in TaskIds : task[t] = IF t = 1 THEN genesis ELSE NoRow
      /\ \A x \in TxIds : tx[x] = IF x = 1 THEN first ELSE NoTx
      /\ nTask = 1 /\ nTx = 1 /\ chain = <<1>> /\ upd = UpdIdle
  BY DEF Init
<1>3. /\ genesis.type = "Chain" /\ genesis.smt = WriteComplete /\ genesis.tx = Committed
      /\ genesis.retry = 0 /\ genesis.from = "parser"
      /\ first.by = 0 /\ first.status = "committed"
  BY DEF NoRow, NoTx
<1> HIDE DEF genesis, first
<1>4. TxsOk
  <2>1. 1 \in TxIds /\ Height = 1
    BY <1>2, BoundsTyped DEF TxIds, Height
  <2>2. \A h \in 1..Height : OnChain(chain[h])
    BY <1>2, <1>3, <2>1 DEF OnChain
  <2>3. \A x \in TxIds : TxOk(x)
    BY <1>2, <1>3 DEF TxOk, NoTx, TxIds
  <2>4. QED
    BY <2>2, <2>3 DEF TxsOk
<1>5. ASSUME NEW t \in TaskIds
      PROVE  RowOk(t) /\ ~ InFlight(t) /\ BatchState(t) = "none" /\ task[t].retry = 0
  <2>1. CASE t = 1
    BY <1>2, <1>3, <2>1 DEF RowOk, FromDistribution, InFlight, BatchState, Committed, Pending
  <2>2. CASE t # 1
    BY <1>2, <2>2 DEF RowOk, FromDistribution, InFlight, BatchState, NoRow, WriteComplete
  <2>3. QED
    BY <2>1, <2>2
<1>6. UpdTask
  BY <1>2 DEF UpdTask, UpdIdle
<1>7. \A x \in TxIds : tx[x].by = 0
  BY <1>2, <1>3 DEF NoTx
<1>8. Linked
  BY <1>7 DEF Linked, LinkedTx
<1>9. OneInFlight /\ ClearToWrite
  BY <1>5 DEF OneInFlight, ClearToWrite
<1>10. [t \in TaskIds |-> MinedBatch(t)] = [t \in TaskIds |-> FALSE]
  <2>1. \A t \in TaskIds : MinedBatch(t) = FALSE
    BY <1>7 DEF MinedBatch, TaskIds
  <2>2. QED
    BY <2>1
<1>11. Batch!BatchInit
  <2>1. /\ [t \in TaskIds |-> BatchState(t)] = [t \in TaskIds |-> "none"]
        /\ [t \in TaskIds |-> task[t].retry] = [t \in TaskIds |-> 0]
    BY <1>5
  <2>2. QED
    BY <1>10, <2>1 DEF Batch!BatchInit
<1>12. QED
  BY <1>1, <1>4, <1>5, <1>6, <1>8, <1>9, <1>11 DEF SmtInv, SmtInv0, RowsOk

LEMMA NextSound ==
    ASSUME SmtInv0, [Next]_vars
    PROVE  /\ SmtInv0' /\ EndsStay
           /\ SendMarked /\ SmtInv => SmtInv' /\ BatchStep
<1>1. TypeOK' /\ StepsOK'
  BY NextTyped DEF SmtInv0
<1>2. Sound
  BY <1>1, NextStep
<1>3. SmtInv0' /\ EndsStay
  BY <1>1, <1>2 DEF Sound, SmtInv0
<1>4. ASSUME SendMarked, SmtInv PROVE SmtInv' /\ BatchStep
  <2>1. OneInFlight' /\ ClearToWrite'
    BY <1>4, NextOneInFlight DEF SmtInv, SmtInv0
  <2>2. QED
    BY <1>2, <1>3, <1>4, <2>1 DEF Sound, SmtInv
<1>5. QED
  BY <1>3, <1>4

\* How a task ended is final, whatever crashes and whatever answer of the node
\* is lost: no statement that selects a row by task id alone, of whichever
\* goroutine, hits a task that was closed or given up or that the parser found on
\* chain (dao/t_task_info.go:126, 133, 183).
THEOREM EndsAreFinal == Spec => EndIsFinal
<1>1. Init => SmtInv0
  BY InitSound DEF SmtInv
<1>2. SmtInv0 /\ [Next]_vars => SmtInv0'
  BY NextSound
<1>3. SmtInv0 /\ [Next]_vars
        => [\A t \in TaskIds :
              /\ task[t].type = "Chain" => task'[t].type \in {"Chain", "Absent"}
              /\ task[t].type = "Closed" => task'[t] = task[t]
              /\ GivenUp(t) => task'[t] = task[t]]_vars
  BY NextSound DEF EndsStay, EndStays
<1>4. QED
  BY <1>1, <1>2, <1>3, PTL DEF Spec, EndIsFinal

LEMMA InvariantOfMarked == SendMarked /\ Spec => []SmtInv
<1> SUFFICES ASSUME SendMarked PROVE Spec => []SmtInv
  OBVIOUS
<1>1. Init => SmtInv
  BY InitSound
<1>2. SmtInv /\ [Next]_vars => SmtInv'
  BY NextSound DEF SmtInv
<1>3. QED
  BY <1>1, <1>2, PTL DEF Spec

\* While what was sent is recorded, no task whose records are closed and whose
\* orders are refunded has a transaction that is on chain or may get there
\* (rollback.go:105, update_sub_account.go:113).
THEOREM GivenUpIsOff == SendMarked /\ Spec => []GivenUpNotOnChain
<1>1. SmtInv => GivenUpNotOnChain
  <2> SUFFICES ASSUME SmtInv, NEW t \in TaskIds, GivenUp(t), NEW x \in TxIds, tx[x].by = t
               PROVE  tx[x].status \notin {"pool", "committed"}
    BY DEF GivenUpNotOnChain
  <2>1. NoLive(t)
    BY NoLiveTx DEF SmtInv, GivenUp, Of, RollbackComplete, WriteComplete, Writing
  <2>2. QED
    BY <2>1 DEF NoLive, Live
<1>2. QED
  BY <1>1, InvariantOfMarked, PTL

\* While what was sent is recorded, every step of the five goroutines, the node
\* and the parser is a step of one batch or of none: the pipeline implements
\* SmtBatch, for every number of tasks, accounts and crashes.
THEOREM SmtTaskIsBatches == SendMarked /\ Spec => Implements
<1> SUFFICES ASSUME SendMarked PROVE Spec => Implements
  OBVIOUS
<1>1. Init => Batch!BatchInit
  BY InitSound
<1>2. SmtInv /\ [Next]_vars => [Batch!BatchNext]_Batch!batchVars
  BY NextSound DEF SmtInv, BatchStep
<1>3. Spec => []SmtInv
  BY InvariantOfMarked
<1>4. QED
  BY <1>1, <1>2, <1>3, PTL DEF Spec, Implements, Batch!BatchSpec
=============================================================================
