----------------------------- MODULE MCPayOrder -----------------------------
(* PayOrder on small instances for TLC. *)
EXTENDS PayOrder, TLC

CONSTANTS a1, d1, d2, h1, h2, c1

Symmetry == Permutations({d1, d2}) \cup Permutations({h1, h2})

(* The liveness run starts from states that Spec reaches, but for the ids of records
   that had ended before: order 1 is paid with the confirmed payment h1, the account is
   at version v, and another order may be placed. *)
Paid(action, r, v) ==
    /\ order = [o \in OrderIds |->
            IF o = 1 THEN [NoOrder EXCEPT !.action = action, !.pay = "Paid"] ELSE NoOrder]
    /\ nOrder = 1
    /\ pay = [h \in Hashes |->
            IF h = h1 THEN [NoPayment EXCEPT !.order = 1, !.status = "Confirmed"]
            ELSE NoPayment]
    /\ rec = [i \in RecIds |-> IF i = 1 THEN r ELSE NoRecord]
    /\ nRec = 1
    /\ used = {}
    /\ couponSet = [o \in OrderIds |-> NoSet]
    /\ synced = [a \in Accounts |-> v]
    /\ chain = [a \in Accounts |-> v]
    /\ uni = [h \in Hashes |->
            [order |-> IF h = h1 THEN 1 ELSE 0,
             state |-> IF h = h1 THEN "confirmed" ELSE "none", refund |-> "no"]]
    /\ locked = {}
    /\ make = [d \in Addrs |-> MakeIdle]
    /\ conf = [w \in Confirmers |-> ConfIdle]
    /\ chk = ChkIdle
    /\ rfd = RfdIdle
    /\ spent = [others |-> MaxOthers, crash |-> 0]

\* A mint that is on chain and that the order check has not seen yet.
PaidMint ==
    Paid("Mint", [NoRecord EXCEPT !.ver = 1, !.action = "Mint", !.type = "Chain",
                                  !.order = 1, !.onChain = TRUE], 1)

\* A renewal whose record was refused because an edit for the same version waited,
\* which is on chain now: the order check can never decide the order.
PaidRenewal ==
    Paid("Renew", [NoRecord EXCEPT !.ver = 2, !.action = "Edit", !.type = "Chain",
                                   !.onChain = TRUE], 2)

LiveSpec == (PaidMint \/ PaidRenewal) /\ [][Next]_vars /\ Fairness
=============================================================================
