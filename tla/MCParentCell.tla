---------------------------- MODULE MCParentCell ----------------------------
(* ParentCell on small instances for TLC. *)
EXTENDS ParentCell

\* Bounds of the run: withdrawals are made once there has been an income; two at a
\* time only where nothing has gone wrong and no request waits for a signature; and
\* when something goes wrong, they are made beside updates only.  HandleBlock, the
\* action that is fair, changes none of this.
Busy == {c \in 1..MaxCalls : calls[c].pc # "idle"}
Undisturbed == \A t \in 1..Len(txs) : txs[t].kind \in {"enable", "update"} \cup Withdrawals
Bounded == Busy # {} =>
    /\ \E t \in Mined(main) : txs[t].kind = "update"
    /\ Cardinality(Busy) > 1 => faults = 0 /\ signing = {}
    /\ faults > 0 => Undisturbed
BoundedSpec == Init /\ [][Next /\ Bounded']_vars /\ Fairness
=============================================================================
