------------------------------ MODULE SmtBatch ------------------------------
(***************************************************************************)
(* What the SMT task pipeline promises of the batches of changes it works  *)
(* on, seen from outside: a batch waits, is tried, and ends up done or     *)
(* ended, never both; one batch of the parent is tried at a time; a try    *)
(* that fails is taken back at most MaxRetry times; and a batch whose      *)
(* transaction got on chain is done and nothing else, so no change is made *)
(* twice and none is refunded that was made.  Module SmtTask implements it *)
(* (SmtTask!Implements).                                                   *)
(***************************************************************************)
EXTENDS Naturals

CONSTANTS Batches, MaxRetry

VARIABLES
    state,   \* of each batch
    tries,   \* tries of it that were taken back
    mined    \* a transaction of it is on chain

batchVars == <<state, tries, mined>>

BatchInit ==
    /\ state = [b \in Batches |-> "none"]
    /\ tries = [b \in Batches |-> 0]
    /\ mined = [b \in Batches |-> FALSE]

Move(b, from, to) == state[b] = from /\ state' = [state EXCEPT ![b] = to]

\* The waiting records are cut into batches.
Queue(new) ==
    /\ \A b \in new : state[b] = "none"
    /\ state' = [b \in Batches |-> IF b \in new THEN "waiting" ELSE state[b]]
    /\ UNCHANGED <<tries, mined>>

Try(b) ==
    /\ \A c \in Batches : state[c] # "tried"
    /\ ~ mined[b]
    /\ Move(b, "waiting", "tried")
    /\ UNCHANGED <<tries, mined>>

Mine(b) ==
    /\ state[b] = "tried"
    /\ ~ mined[b]
    /\ mined' = [mined EXCEPT ![b] = TRUE]
    /\ UNCHANGED <<state, tries>>

\* The parser finds the transaction.
Finish(b) ==
    /\ mined[b]
    /\ Move(b, "tried", "done")
    /\ UNCHANGED <<tries, mined>>

TakeBack(b) ==
    /\ ~ mined[b]
    /\ tries[b] < MaxRetry
    /\ Move(b, "tried", "waiting")
    /\ tries' = [tries EXCEPT ![b] = @ + 1]
    /\ UNCHANGED mined

GiveUp(b) ==
    /\ ~ mined[b]
    /\ tries[b] = MaxRetry
    /\ Move(b, "tried", "ended")
    /\ UNCHANGED <<tries, mined>>

\* Nothing is left to change, or the custom script is another one.
Drop(b) ==
    /\ ~ mined[b]
    /\ Move(b, "waiting", "ended")
    /\ UNCHANGED <<tries, mined>>

BatchNext ==
    \/ \E new \in SUBSET Batches : Queue(new)
    \/ \E b \in Batches :
         Try(b) \/ Mine(b) \/ Finish(b) \/ TakeBack(b) \/ GiveUp(b) \/ Drop(b)

BatchSpec == BatchInit /\ [][BatchNext]_batchVars
=============================================================================
