------------------------------- MODULE PayOrder -------------------------------
(***************************************************************************)
(* Mint and renewal orders, their payments and their refunds               *)
(* (http_server/handle/auto_order_*.go, unipay_notice.go, unipay/,         *)
(* dao/t_order_info.go, dao/t_payment_info.go).                            *)
(*                                                                         *)
(* A client orders the mint or the renewal of a sub-account, perhaps with  *)
(* a coupon code, pays the payment service unipay and reports the hash of  *)
(* the payment.  Unipay's notices, which may be lost, late or repeated,    *)
(* and a poll of unipay confirm payments; the first confirmed payment of   *)
(* an order queues an smt record.  A ticker settles paid orders from what  *)
(* became of the record, and another one asks unipay to refund the         *)
(* payments of the orders that failed.                                     *)
(*                                                                         *)
(* The owner of the parent account orders sets of coupon codes the same    *)
(* way, may replace such an order by a new one, and gets the codes at the  *)
(* first confirmed payment (http_server/handle/coupon_order_create.go).    *)
(*                                                                         *)
(* Versions are those of SmtTask: an account is at version 0 until it is   *)
(* minted, and a record asks for one version, its nonce plus one.  What    *)
(* the SMT pipeline does to a record is the part of SmtTask an order can   *)
(* see: it goes on chain or is closed.                                     *)
(***************************************************************************)
EXTENDS Integers, FiniteSets, FiniteSetsExt

CONSTANTS
    Accounts,    \* sub-accounts
    Addrs,       \* addresses that order
    Hashes,      \* payments
    Coupons,     \* coupon codes
    ActionTypes, \* kinds of orders that are placed
    NoHash, NoCoupon,
    Expired,     \* accounts that are past their grace period once they are minted
    OldOrders,   \* TRUE: orders and payments may outgrow the windows of the queries
    RefundSwitch, \* config refund_switch: unipay is asked to refund what is marked
    CheckLimit,  \* orders a round of the order check looks at (100 in the code)
    \* bounds of the model
    MaxOrders, MaxOthers, MaxVer, MaxCrash

ASSUME PayOrderAssumption ==
    /\ IsFiniteSet(Accounts) /\ IsFiniteSet(Hashes)
    /\ NoHash \notin Hashes
    /\ {NoCoupon, "parent"} \cap Coupons = {}
    /\ Accounts # {} /\ Addrs # {} /\ IsFiniteSet(Addrs)
    /\ Expired \subseteq Accounts
    /\ ActionTypes \subseteq {"Mint", "Renew", "CouponCreate"}
    /\ OldOrders \in BOOLEAN
    /\ RefundSwitch \in BOOLEAN
    /\ {CheckLimit, MaxOrders, MaxVer} \subseteq Nat \ {0}
    /\ {MaxOthers, MaxCrash} \subseteq Nat

OrderIds == 1..MaxOrders
MaxRecs == MaxOrders + MaxOthers
RecIds == 1..MaxRecs
Versions == 0..MaxVer          \* that an account reaches
Asked == 0 .. MaxVer + 1       \* that a record may ask for

\* tables.ActionType, and the sub-action of a record
Actions == {"Mint", "Renew", "CouponCreate"}

\* "old": past the three days of GetEfficientOrderTimestamp.  "raced" is history, and
\* no column: the order was paid between the read and the save of the handler that
\* replaced it.
Order == [action : Actions \cup {"Absent"}, acc : Accounts, addr : Addrs,
          coupon : Coupons \cup {NoCoupon}, pay : {"Unpaid", "Paid"},
          status : {"Default", "Success", "Fail", "Closed"}, old : BOOLEAN,
          raced : BOOLEAN]

\* tables.PayHashStatus and tables.RefundStatus.  "old": past the window of
\* GetPaymentInfoTimestamp, or of GetPaymentInfoTimestampBefore24h while pending.
Payment == [order : 0..MaxOrders,
            status : {"Absent", "Pending", "Confirmed", "Rejected", "Dispute"},
            refund : {"Default", "UnRefund", "Refunding", "Refunded"}, old : BOOLEAN]
NoPayment == [order |-> 0, status |-> "Absent", refund |-> "Default", old |-> FALSE]

\* "onChain" is what the table cannot tell yet: the change is in a block.  "open" is
\* what it tells by task_id: the record was closed as stale, and the rest of its
\* task goes on.
Record == [acc : Accounts, ver : Asked, action : Actions \cup {"Edit", "Absent"},
           type : {"Default", "Closed", "Chain"}, order : 0..MaxOrders, onChain : BOOLEAN,
           open : BOOLEAN]

\* What unipay knows of a payment.
UniPayment == [order : 0..MaxOrders, state : {"none", "made", "confirmed", "disputed"},
               refund : {"no", "asked", "done"}]

\* t_coupon_set_info, and how often the codes of the set were made, up to twice.
CouponSet == [status : {"Absent", "Created", "Paid", "Success"}, codes : 0..2]

Confirmers == {"notice", "poll"}

\* The keys of the Redis locks: a coupon code, or the parent account for the
\* creation of a coupon set.
LockKeys == Coupons \cup {"parent"}

VARIABLES
    \* MySQL
    order,    \* t_order_info, by the id of the row
    nOrder,   \* rows of t_order_info
    pay,      \* t_payment_info, by pay_hash
    rec,      \* t_smt_record_info, by id; a deleted row is "Absent" again
    nRec,     \* ids of t_smt_record_info given out
    used,     \* codes of t_coupon_info that are Used
    couponSet, \* t_coupon_set_info, by the id of its order
    synced,   \* t_account_info: account -> version, written by the external syncer
    \* the chain, unipay, Redis
    chain,    \* account -> version
    uni,      \* payments unipay has
    locked,   \* keys whose lock is taken
    \* memory of the service
    make,     \* doAutoOrderCreate or doCouponOrderCreate, by address: pc and the order it makes
    conf,     \* DoPaymentConfirm, by caller: the payment and the version for its record
    chk,      \* doOrderCheck: orders still in its list, the one at hand, its record
    rfd,      \* doRefund: pc and the payments in its list
    spent     \* how much of each bound of the model is used

vars == <<order, nOrder, pay, rec, nRec, used, couponSet, synced, chain, uni, locked,
          make, conf, chk, rfd, spent>>
coupons == <<used, couponSet>>
memory == <<make, conf, chk, rfd>>
env == <<synced, chain, spent>>

SomeAcc == CHOOSE a \in Accounts : TRUE
SomeAddr == CHOOSE d \in Addrs : TRUE
NoOrder == [action |-> "Absent", acc |-> SomeAcc, addr |-> SomeAddr, coupon |-> NoCoupon,
            pay |-> "Unpaid", status |-> "Default", old |-> FALSE, raced |-> FALSE]
NoRecord == [acc |-> SomeAcc, ver |-> 0, action |-> "Absent", type |-> "Default",
             order |-> 0, onChain |-> FALSE, open |-> FALSE]
NoSet == [status |-> "Absent", codes |-> 0]
\* "old" is the order to replace, or 0, and "seen" its pay_status when it was read.
MakeIdle == [pc |-> "idle", action |-> "Mint", acc |-> SomeAcc, coupon |-> NoCoupon,
             old |-> 0, seen |-> "Unpaid"]
ConfIdle == [h |-> NoHash, ver |-> 0]
ChkIdle == [list |-> {}, o |-> 0, seen |-> "none"]
RfdIdle == [pc |-> "idle", list |-> {}]

-----------------------------------------------------------------------------
(* Queries *)

Exists(o) == order[o].action # "Absent"

\* Rows of t_smt_record_info that satisfy the unique key of a new one refuse it.
\* Its record_bn is 0 until the record is on chain.
KeyTaken(a, v) == \E r \in RecIds : /\ rec[r].action # "Absent"
                                    /\ rec[r].acc = a
                                    /\ rec[r].ver = v
                                    /\ rec[r].type = "Default"

GetSmtRecordByOrderId(o) == {r \in RecIds : rec[r].action # "Absent" /\ rec[r].order = o}

\* The latest record of an account and sub-action, and the latest paid order of
\* the last three days, if there is one.
LatestRecord(a, action) ==
    LET rs == {r \in RecIds : rec[r].action = action /\ rec[r].acc = a}
    IN  {r \in rs : \A s \in rs : s <= r}
InProgress(a, action, addrs) ==
    LET os == {o \in OrderIds : /\ order[o].action = action
                                /\ order[o].acc = a
                                /\ order[o].addr \in addrs
                                /\ order[o].pay = "Paid"
                                /\ ~ order[o].old}
    IN  {o \in os : \A p \in os : p <= o}

\* Paid orders that are not settled yet, the oldest ones first and a limited number
\* of them.  Ids follow the timestamps.
Unsettled == {o \in OrderIds : /\ Exists(o)
                               /\ ~ order[o].old
                               /\ order[o].pay = "Paid"
                               /\ order[o].status = "Default"}
Oldest(os, n) == {o \in os : Cardinality({p \in os : p < o}) < n}
GetNeedCheckOrderList_mut == \* the limit is taken before the condition on the status
    Unsettled \cap Oldest({o \in OrderIds : order[o].pay = "Paid"}, CheckLimit)
GetNeedCheckOrderList == Oldest(Unsettled, CheckLimit)

GetUnRefundList == {h \in Hashes : /\ pay[h].status = "Confirmed"
                                   /\ pay[h].refund = "UnRefund"
                                   /\ ~ pay[h].old}

-----------------------------------------------------------------------------
Init ==
    /\ order = [o \in OrderIds |-> NoOrder]
    /\ nOrder = 0
    /\ pay = [h \in Hashes |-> NoPayment]
    /\ rec = [r \in RecIds |-> NoRecord]
    /\ nRec = 0
    /\ used = {}
    /\ couponSet = [o \in OrderIds |-> NoSet]
    /\ synced = [a \in Accounts |-> 0]
    /\ chain = [a \in Accounts |-> 0]
    /\ uni = [h \in Hashes |-> [order |-> 0, state |-> "none", refund |-> "no"]]
    /\ locked = {}
    /\ make = [d \in Addrs |-> MakeIdle]
    /\ conf = [w \in Confirmers |-> ConfIdle]
    /\ chk = ChkIdle
    /\ rfd = RfdIdle
    /\ spent = [others |-> 0, crash |-> 0]

-----------------------------------------------------------------------------
(* doAutoOrderCreate and doAutoOrderHash *)

\* An account that is minted cannot be minted, and a pending record or paid order
\* for the same action refuses another one.  A renewal of an account that is not
\* minted, or is expired, passes before that is looked at: the caller does not
\* refuse AccStatusUnMinted and AccStatusExpired.
checkSubAccount(action, a, d) ==
    LET last == LatestRecord(a, action)
        self == InProgress(a, action, {d})
        any == InProgress(a, action, Addrs)
    IN  \/ action = "Renew" /\ (synced[a] = 0 \/ a \in Expired)
        \/ /\ action = "Mint" => synced[a] = 0
           /\ \A r \in last : rec[r].type # "Default"
           /\ IF self # {}
              THEN \A o \in self : /\ \E r \in last : rec[r].order = o
                                   /\ order[o].status # "Default"
              ELSE \A o \in any : order[o].status # "Default"

\* The model has MaxOrders orders to place.
MayPlace == nOrder + Cardinality({e \in Addrs : make[e].pc # "idle"}) < MaxOrders

OrderCheck(d, action, a, c) ==
    /\ make[d].pc = "idle"
    /\ MayPlace
    /\ checkSubAccount(action, a, d)
    /\ make' = [make EXCEPT ![d] =
           [MakeIdle EXCEPT !.pc = IF c = NoCoupon THEN "create" ELSE "lock",
                            !.action = action, !.acc = a, !.coupon = c]]
    /\ UNCHANGED <<order, nOrder, pay, rec, nRec, coupons, env, uni, locked, conf, chk, rfd>>

\* The coupon's lock, and its code is not used yet.
OrderLock(d) ==
    LET c == make[d].coupon
    IN  /\ make[d].pc = "lock"
        /\ c \notin locked
        /\ IF c \notin used
           THEN /\ make' = [make EXCEPT ![d].pc = "create"]
                /\ locked' = locked \cup {c}
           ELSE /\ make' = [make EXCEPT ![d] = MakeIdle]
                /\ UNCHANGED locked
        /\ UNCHANGED <<order, nOrder, pay, rec, nRec, coupons, env, uni, conf, chk, rfd>>

\* Save of a coupon that is no longer Normal matches no row, turns into an insert
\* and fails on the primary key: the whole transaction is undone.
SaveCoupon_mut(c) == TRUE  \* no condition on the status
SaveCoupon(c) == c \notin used

\* The payment of a Stripe intent is stored with its order; the client has not
\* paid it yet.
StorePayment(o) ==
    \/ UNCHANGED <<pay, uni>>
    \/ \E h \in Hashes :
         /\ uni[h].order = 0
         /\ pay' = [pay EXCEPT ![h] = [NoPayment EXCEPT !.order = o, !.status = "Pending"]]
         /\ uni' = [uni EXCEPT ![h].order = o]

\* The order exists at unipay and is stored.
OrderCreate(d) ==
    LET m == make[d]
        o == nOrder + 1
    IN  /\ m.pc = "create"
        /\ SaveCoupon(m.coupon)
        /\ order' = [order EXCEPT ![o] =
                [NoOrder EXCEPT !.action = m.action, !.acc = m.acc, !.addr = d,
                                !.coupon = m.coupon]]
        /\ nOrder' = o
        /\ StorePayment(o)
        /\ used' = used \cup ({m.coupon} \ {NoCoupon})
        /\ locked' = locked \ {m.coupon}
        /\ make' = [make EXCEPT ![d] = MakeIdle]
        /\ UNCHANGED <<rec, nRec, couponSet, env, conf, chk, rfd>>

\* doCouponOrderCreate: the parent's lock, and an order to replace must not be settled
\* or closed, whatever it is for.
CouponOrderCheck(d, old) ==
    /\ make[d].pc = "idle"
    /\ MayPlace
    /\ "parent" \notin locked
    /\ old # 0 => Exists(old) /\ order[old].status = "Default"
    /\ locked' = locked \cup {"parent"}
    /\ make' = [make EXCEPT ![d] = [MakeIdle EXCEPT !.pc = "read", !.old = old,
                                                    !.action = "CouponCreate"]]
    /\ UNCHANGED <<order, nOrder, pay, rec, nRec, coupons, env, uni, conf, chk, rfd>>

\* It is read once more, before unipay is asked for the new order.
CouponOrderRead(d) ==
    /\ make[d].pc = "read"
    /\ make' = [make EXCEPT ![d].pc = "save",
                            ![d].seen = IF make[d].old = 0 THEN @
                                        ELSE order[make[d].old].pay]
    /\ UNCHANGED <<order, nOrder, pay, rec, nRec, coupons, env, uni, locked,
                   conf, chk, rfd>>

\* The row that Save writes over the replaced order: what was read, but Closed.  The
\* order may have been paid since.
ReplacedOrder_mut(m) == \* only the id and the new status are filled in
    [order[m.old] EXCEPT !.pay = "Unpaid", !.status = "Closed",
                         !.raced = @ \/ order[m.old].pay # m.seen]
ReplacedOrder(m) ==
    [order[m.old] EXCEPT !.pay = m.seen, !.status = "Closed",
                         !.raced = @ \/ order[m.old].pay # m.seen]

\* CreateOrderInfo: the order, its coupon set, and the replaced order.
CouponOrderCreate(d) ==
    LET m == make[d]
        o == nOrder + 1
    IN  /\ m.pc = "save"
        /\ order' = [p \in OrderIds |->
                IF p = o THEN [NoOrder EXCEPT !.action = m.action, !.addr = d]
                ELSE IF p = m.old THEN ReplacedOrder(m)
                ELSE order[p]]
        /\ nOrder' = o
        /\ StorePayment(o)
        /\ couponSet' = [couponSet EXCEPT ![o].status = "Created"]
        /\ locked' = locked \ {"parent"}
        /\ make' = [make EXCEPT ![d] = MakeIdle]
        /\ UNCHANGED <<rec, nRec, used, env, conf, chk, rfd>>

\* A lock that is busy, or an error of unipay or the database.  UnLock deletes
\* the key, whoever has set it since.
LockOf(m) == IF m.pc = "create" THEN {m.coupon}
             ELSE IF m.pc \in {"read", "save"} THEN {"parent"} ELSE {}
OrderFail(d) ==
    /\ make[d].pc # "idle"
    /\ locked' = locked \ LockOf(make[d])
    /\ make' = [make EXCEPT ![d] = MakeIdle]
    /\ UNCHANGED <<order, nOrder, pay, rec, nRec, coupons, env, uni, conf, chk, rfd>>

\* doAutoOrderHash: INSERT IGNORE, in whatever state the order is.  A coupon set
\* is Paid as soon as a payment is reported.
doAutoOrderHash(h) ==
    LET o == uni[h].order
    IN  /\ uni[h].state # "none"
        /\ pay[h].status = "Absent" \/ couponSet[o].status = "Created"
        /\ pay' = IF pay[h].status # "Absent" THEN pay
                  ELSE [pay EXCEPT ![h] = [NoPayment EXCEPT !.order = o,
                                                            !.status = "Pending"]]
        /\ couponSet' = IF couponSet[o].status # "Created" THEN couponSet
                        ELSE [couponSet EXCEPT ![o].status = "Paid"]
        /\ UNCHANGED <<order, nOrder, rec, nRec, used, env, uni, locked, memory>>

-----------------------------------------------------------------------------
(* DoPaymentConfirm, called by notices and by the poll of unipay *)

MayConfirm_mut1(w, h) == \* the poll does not look at the status unipay returns
    \/ w = "notice" /\ uni[h].state \in {"confirmed", "disputed"}
    \/ /\ w = "poll"
       /\ uni[h].state # "none"
       /\ \E g \in Hashes : /\ pay[g].status = "Pending"
                            /\ pay[g].order = uni[h].order
                            /\ ~ pay[g].old
MayConfirm_mut2(w, h) == \* the poll's list has the payments that are too old
    \/ w = "notice" /\ uni[h].state \in {"confirmed", "disputed"}
    \/ /\ w = "poll"
       /\ uni[h].state = "confirmed"
       /\ \E g \in Hashes : /\ pay[g].status = "Pending"
                            /\ pay[g].order = uni[h].order
                            /\ pay[g].old
\* The poll asks unipay for all payments of the orders with a pending payment.
MayConfirm(w, h) ==
    \/ w = "notice" /\ uni[h].state \in {"confirmed", "disputed"}
    \/ /\ w = "poll"
       /\ uni[h].state = "confirmed"
       /\ \E g \in Hashes : /\ pay[g].status = "Pending"
                            /\ pay[g].order = uni[h].order
                            /\ ~ pay[g].old

\* Nonce 0, or that of the account plus one.
RecordVersion_mut(o) == IF o.action = "Renew" THEN synced[o.acc] + 2 ELSE 1
RecordVersion(o) == IF o.action = "Renew" THEN synced[o.acc] + 1 ELSE 1

\* A renewal asks for the version after the one t_account_info has now, and
\* fails if the account is not there.
ConfirmRead(w, h) ==
    LET o == order[uni[h].order]
    IN  /\ conf[w] = ConfIdle
        /\ MayConfirm(w, h)
        /\ o.action = "Renew" => synced[o.acc] # 0
        /\ conf' = [conf EXCEPT ![w] = [h |-> h, ver |-> RecordVersion(o)]]
        /\ UNCHANGED <<order, nOrder, pay, rec, nRec, coupons, env, uni, locked,
                       make, chk, rfd>>

\* The record of a paid order, inserted with IGNORE.
CreateRecord(o, v) ==
    IF KeyTaken(order[o].acc, v) THEN UNCHANGED <<rec, nRec>>
    ELSE /\ nRec < MaxRecs
         /\ nRec' = nRec + 1
         /\ rec' = [rec EXCEPT ![nRec + 1] =
                [NoRecord EXCEPT !.acc = order[o].acc, !.ver = v,
                                 !.action = order[o].action, !.order = o]]

RecordOfPaidOrder_mut(o, v) ==  \* rowsAffected is not looked at
    IF order[o].action # "CouponCreate" THEN CreateRecord(o, v) ELSE UNCHANGED <<rec, nRec>>
RecordOfPaidOrder(o, v) ==
    IF order[o].action # "CouponCreate" /\ order[o].pay = "Unpaid"
    THEN CreateRecord(o, v) ELSE UNCHANGED <<rec, nRec>>

\* The codes of a paid coupon set, made with it in one transaction.
MakeCodes(o) == [couponSet EXCEPT ![o].status = "Success",
                                  ![o].codes = IF @ = 2 THEN 2 ELSE @ + 1]
SetOfPaidOrder_mut(o) ==  \* rowsAffected is not looked at
    IF order[o].action = "CouponCreate" THEN MakeCodes(o) ELSE couponSet
SetOfPaidOrder(o) ==
    IF order[o].action = "CouponCreate" /\ order[o].pay = "Unpaid"
    THEN MakeCodes(o) ELSE couponSet

\* An order for a coupon set is a success at once, also one that was replaced.
PaidOrder(o) ==
    IF o.pay = "Paid" THEN o
    ELSE IF o.action = "CouponCreate" THEN [o EXCEPT !.pay = "Paid", !.status = "Success"]
    ELSE [o EXCEPT !.pay = "Paid"]

\* UpdateOrderPayStatusOkWithSmtRecord, UpdateOrderPayStatusOkWithCoupon.  A second
\* payment of an order only raises an alert.
ConfirmWrite(w) ==
    LET h == conf[w].h
        o == uni[h].order
    IN  /\ conf[w] # ConfIdle
        /\ RecordOfPaidOrder(o, conf[w].ver)
        /\ couponSet' = SetOfPaidOrder(o)
        /\ order' = [order EXCEPT ![o] = PaidOrder(@)]
        /\ pay' = [g \in Hashes |->
                IF g = h THEN [pay[g] EXCEPT !.order = o, !.status = "Confirmed",
                                             !.old = FALSE]
                ELSE IF pay[g].order = o /\ pay[g].status = "Pending"
                THEN [pay[g] EXCEPT !.status = "Rejected"]
                ELSE pay[g]]
        /\ conf' = [conf EXCEPT ![w] = ConfIdle]
        /\ UNCHANGED <<nOrder, used, env, uni, locked, make, chk, rfd>>

ConfirmFail(w) ==
    /\ conf[w] # ConfIdle
    /\ conf' = [conf EXCEPT ![w] = ConfIdle]
    /\ UNCHANGED <<order, nOrder, pay, rec, nRec, coupons, env, uni, locked, make, chk, rfd>>

-----------------------------------------------------------------------------
(* doOrderCheck *)

ChkUnchanged == <<nOrder, rec, nRec, coupons, env, uni, locked, make, conf, rfd>>

OrderCheckList ==
    /\ chk.list = {}
    /\ GetNeedCheckOrderList # {}
    /\ chk' = [ChkIdle EXCEPT !.list = GetNeedCheckOrderList]
    /\ UNCHANGED <<order, pay, ChkUnchanged>>

\* UpdateOrderStatusForCheckMint and -Renew: only an order still Default changes,
\* but the payments of a failed order are marked whether it did or not.
UpdateOrderStatus(o, new) ==
    /\ order' = IF order[o].status = "Default"
                THEN [order EXCEPT ![o].status = new] ELSE order
    /\ pay' = [h \in Hashes |->
            IF /\ new = "Fail"
               /\ pay[h].order = o
               /\ pay[h].status = "Confirmed"
               /\ pay[h].refund = "Default"
            THEN [pay[h] EXCEPT !.refund = "UnRefund"]
            ELSE pay[h]]

CheckDone(o) == chk' = [ChkIdle EXCEPT !.list = chk.list \ {o}]

\* For a mint the record is read first and the account after it.
OrderCheckRecord(o) ==
    /\ o \in chk.list
    /\ chk.o = 0
    /\ order[o].action = "Mint"
    /\ LET rs == GetSmtRecordByOrderId(o)
       IN  chk' = [chk EXCEPT !.o = o,
                              !.seen = IF rs = {} THEN "none" ELSE rec[Max(rs)].type]
    /\ UNCHANGED <<order, pay, ChkUnchanged>>

\* A record that still waits counts as a success once the account is there: the
\* parser is behind the syncer.
MintOutcome_mut(seen) == IF seen = "Chain" THEN "Success" ELSE "Fail"
MintOutcome(seen) == IF seen \in {"none", "Closed"} THEN "Fail" ELSE "Success"

OrderCheckMint ==
    LET o == chk.o
    IN  /\ o # 0
        /\ IF synced[order[o].acc] = 0 THEN UNCHANGED <<order, pay>>
           ELSE UpdateOrderStatus(o, MintOutcome(chk.seen))
        /\ CheckDone(o)
        /\ UNCHANGED ChkUnchanged

RenewIsOpen_mut(rs) == rs = {}  \* a waiting record is taken for a success
RenewIsOpen(rs) == rs = {} \/ rec[Max(rs)].type = "Default"

\* A renewal without a record is left as it is.
OrderCheckRenew(o) ==
    LET rs == GetSmtRecordByOrderId(o)
    IN  /\ o \in chk.list
        /\ chk.o = 0
        /\ order[o].action = "Renew"
        /\ IF synced[order[o].acc] = 0 \/ RenewIsOpen(rs) THEN UNCHANGED <<order, pay>>
           ELSE UpdateOrderStatus(o, IF rec[Max(rs)].type = "Closed" THEN "Fail"
                                     ELSE "Success")
        /\ CheckDone(o)
        /\ UNCHANGED ChkUnchanged

\* A database error ends the round.
OrderCheckFail ==
    /\ chk.list # {}
    /\ chk' = ChkIdle
    /\ UNCHANGED <<order, pay, ChkUnchanged>>

-----------------------------------------------------------------------------
(* doRefund, and what unipay tells of refunds and disputes *)

RfdUnchanged == <<order, nOrder, rec, nRec, coupons, env, locked, make, conf, chk>>

RefundList_mut == \* the payments are marked before unipay is asked
    /\ RefundSwitch
    /\ rfd.pc = "idle"
    /\ GetUnRefundList # {}
    /\ rfd' = [pc |-> "send", list |-> GetUnRefundList]
    /\ pay' = [h \in Hashes |-> IF h \in GetUnRefundList
                               THEN [pay[h] EXCEPT !.refund = "Refunding"] ELSE pay[h]]
    /\ UNCHANGED <<uni, RfdUnchanged>>
RefundList ==
    /\ RefundSwitch
    /\ rfd.pc = "idle"
    /\ GetUnRefundList # {}
    /\ rfd' = [pc |-> "send", list |-> GetUnRefundList]
    /\ UNCHANGED <<pay, uni, RfdUnchanged>>

\* Unipay takes the whole list.
RefundOrder ==
    /\ rfd.pc = "send"
    /\ uni' = [h \in Hashes |-> IF h \in rfd.list /\ uni[h].refund = "no"
                               THEN [uni[h] EXCEPT !.refund = "asked"] ELSE uni[h]]
    /\ \/ rfd' = [rfd EXCEPT !.pc = "mark"]
       \/ rfd' = RfdIdle           \* its answer is lost
    /\ UNCHANGED <<pay, RfdUnchanged>>

UpdateRefundStatusToRefundIng ==
    /\ rfd.pc = "mark"
    /\ pay' = [h \in Hashes |->
            IF h \in rfd.list /\ pay[h].status = "Confirmed" /\ pay[h].refund = "UnRefund"
            THEN [pay[h] EXCEPT !.refund = "Refunding"] ELSE pay[h]]
    /\ rfd' = RfdIdle
    /\ UNCHANGED <<uni, RfdUnchanged>>

RefundFail ==
    /\ rfd.pc # "idle"
    /\ rfd' = RfdIdle
    /\ UNCHANGED <<pay, uni, RfdUnchanged>>

\* By a notice, which does not care about the window, or by the poll.
UpdateRefundStatusToRefunded(h) ==
    /\ uni[h].refund = "done"
    /\ pay[h].status = "Confirmed"
    /\ pay[h].refund = "Refunding"
    /\ pay' = [pay EXCEPT ![h].refund = "Refunded"]
    /\ UNCHANGED <<order, nOrder, rec, nRec, coupons, env, uni, locked, memory>>
NoticeRefunded(h) == UpdateRefundStatusToRefunded(h)
PollRefunded(h) == ~ pay[h].old /\ UpdateRefundStatusToRefunded(h)

UpdatePayHashStatusToFailByDispute(h) ==
    LET o == uni[h].order
    IN  /\ uni[h].state = "disputed"
        /\ order' = IF order[o].pay = "Paid" THEN [order EXCEPT ![o].status = "Fail"]
                    ELSE order
        /\ pay' = IF pay[h].status = "Confirmed"
                  THEN [pay EXCEPT ![h].status = "Dispute"] ELSE pay
        /\ UNCHANGED <<nOrder, rec, nRec, coupons, env, uni, locked, memory>>

-----------------------------------------------------------------------------
(* Clients, unipay, the SMT pipeline *)

UniUnchanged == <<order, nOrder, pay, rec, nRec, coupons, env, locked, memory>>

\* A client pays for an order, be it the first time or not.
MakePayment(h) ==
    /\ uni[h].state = "none"
    /\ \E o \in 1..nOrder : /\ uni[h].order \in {0, o}
                           /\ uni' = [uni EXCEPT ![h].order = o, ![h].state = "made"]
    /\ UNCHANGED UniUnchanged

UniSettle(h) ==
    /\ \/ uni[h].state = "made" /\ uni' = [uni EXCEPT ![h].state = "confirmed"]
       \/ uni[h].state = "confirmed" /\ uni' = [uni EXCEPT ![h].state = "disputed"]
    /\ UNCHANGED UniUnchanged

UniRefund(h) ==
    /\ uni[h].refund = "asked"
    /\ uni' = [uni EXCEPT ![h].refund = "done"]
    /\ UNCHANGED UniUnchanged

PipeUnchanged == <<order, nOrder, pay, coupons, spent, uni, locked, memory>>

\* Another handler queues a mint or an edit.
OtherRecord(a) ==
    LET v == synced[a] + 1
    IN  /\ v \in Versions
        /\ spent.others < MaxOthers
        /\ nRec < MaxRecs
        /\ ~ KeyTaken(a, v)
        /\ spent' = [spent EXCEPT !.others = @ + 1]
        /\ nRec' = nRec + 1
        /\ rec' = [rec EXCEPT ![nRec + 1] =
                [NoRecord EXCEPT !.acc = a, !.ver = v,
                                 !.action = IF v = 1 THEN "Mint" ELSE "Edit"]]
        /\ UNCHANGED <<order, nOrder, pay, coupons, synced, chain, uni, locked, memory>>

\* The updater's transaction with the record is in a block ...
RecordCommits(r) ==
    LET a == rec[r].acc
    IN  /\ rec[r].action # "Absent"
        /\ rec[r].type = "Default"
        /\ ~ rec[r].onChain
        /\ rec[r].ver = chain[a] + 1
        /\ chain[a] < MaxVer
        /\ chain' = [chain EXCEPT ![a] = @ + 1]
        /\ rec' = [rec EXCEPT ![r].onChain = TRUE]
        /\ UNCHANGED <<nRec, synced, PipeUnchanged>>

\* ... which the parser finds sooner or later than the syncer.  UpdateToChainTask
\* selects by task alone: a record of the task that was closed as stale becomes a
\* chain record too.
RecordToChain(r) ==
    /\ \/ rec[r].type = "Default" /\ rec[r].onChain
       \/ rec[r].type = "Closed" /\ rec[r].open
    /\ rec' = [rec EXCEPT ![r].type = "Chain"]
    /\ UNCHANGED <<nRec, synced, chain, PipeUnchanged>>

SyncAccount(a) ==
    /\ synced[a] < chain[a]
    /\ synced' = [synced EXCEPT ![a] = @ + 1]
    /\ UNCHANGED <<rec, nRec, chain, PipeUnchanged>>

\* The record is stale, and the others of its task may go on; or its task was given
\* up.  A closed record with the same key, which may be that of another order, is
\* deleted.
RecordToClosed(r, open) ==
    /\ rec[r].action # "Absent"
    /\ rec[r].type = "Default"
    /\ ~ rec[r].onChain
    /\ open => synced[rec[r].acc] >= rec[r].ver
    /\ rec' = [s \in RecIds |->
            IF s = r THEN [rec[s] EXCEPT !.type = "Closed", !.open = open]
            ELSE IF /\ rec[s].type = "Closed"
                    /\ rec[s].acc = rec[r].acc
                    /\ rec[s].ver = rec[r].ver
            THEN NoRecord
            ELSE rec[s]]
    /\ UNCHANGED <<nRec, synced, chain, PipeUnchanged>>

\* An order and its payments outgrow the windows.
GrowOld(o) ==
    /\ OldOrders
    /\ Exists(o)
    /\ order' = [order EXCEPT ![o].old = TRUE]
    /\ pay' = [h \in Hashes |-> IF pay[h].order = o THEN [pay[h] EXCEPT !.old = TRUE]
                               ELSE pay[h]]
    /\ UNCHANGED <<nOrder, rec, nRec, coupons, env, uni, locked, memory>>

\* A lock expires after lockTime, also under a handler that is slower than that.
LockExpire(k) ==
    /\ k \in locked
    /\ locked' = locked \ {k}
    /\ UNCHANGED <<order, nOrder, pay, rec, nRec, coupons, env, uni, memory>>

Crash ==
    /\ spent.crash < MaxCrash
    /\ spent' = [spent EXCEPT !.crash = @ + 1]
    /\ make' = [d \in Addrs |-> MakeIdle]
    /\ conf' = [w \in Confirmers |-> ConfIdle]
    /\ chk' = ChkIdle
    /\ rfd' = RfdIdle
    /\ UNCHANGED <<order, nOrder, pay, rec, nRec, coupons, synced, chain, uni, locked>>

-----------------------------------------------------------------------------
Orders == \E d \in Addrs :
    \/ \E action \in ActionTypes \ {"CouponCreate"}, a \in Accounts,
          c \in Coupons \cup {NoCoupon} : OrderCheck(d, action, a, c)
    \/ OrderLock(d) \/ OrderCreate(d) \/ OrderFail(d)
    \/ "CouponCreate" \in ActionTypes /\ \E old \in 0..MaxOrders : CouponOrderCheck(d, old)
    \/ CouponOrderRead(d) \/ CouponOrderCreate(d)
Confirm == \E w \in Confirmers : \/ \E h \in Hashes : ConfirmRead(w, h)
                                \/ ConfirmWrite(w) \/ ConfirmFail(w)
Check == \/ OrderCheckList \/ OrderCheckMint
         \/ \E o \in OrderIds : OrderCheckRecord(o) \/ OrderCheckRenew(o)
Refund == RefundList \/ RefundOrder \/ UpdateRefundStatusToRefundIng
Notices == \E h \in Hashes : NoticeRefunded(h) \/ PollRefunded(h)
                           \/ UpdatePayHashStatusToFailByDispute(h)
Clients == \E h \in Hashes : MakePayment(h) \/ doAutoOrderHash(h)
Unipay == \E h \in Hashes : UniSettle(h) \/ UniRefund(h)
Pipeline == \/ \E a \in Accounts : OtherRecord(a) \/ SyncAccount(a)
            \/ \E r \in RecIds : RecordCommits(r) \/ RecordToChain(r)
                              \/ \E open \in BOOLEAN : RecordToClosed(r, open)
Environment == \/ \E o \in OrderIds : GrowOld(o)
               \/ \E k \in LockKeys : LockExpire(k)
               \/ Crash

Next == \/ Orders \/ Confirm \/ Check \/ OrderCheckFail \/ Refund \/ RefundFail
        \/ Notices \/ Clients \/ Unipay \/ Pipeline \/ Environment

Spec == Init /\ [][Next]_vars

\* The tickers go on ticking, and errors of the database and of unipay do not last
\* for ever.  Unipay refunds what it is asked to, the syncer and the parser follow
\* the chain.  Nothing is assumed of clients and of notices.
Fairness ==
    /\ \A h \in Hashes : /\ SF_vars(ConfirmRead("poll", h))
                         /\ WF_vars(UniRefund(h))
                         /\ WF_vars(PollRefunded(h))
    /\ SF_vars(ConfirmWrite("poll"))
    /\ WF_vars(Check \/ OrderCheckFail)
    /\ \A o \in OrderIds : SF_vars(OrderCheckRecord(o)) /\ SF_vars(OrderCheckRenew(o))
    /\ SF_vars(OrderCheckMint)
    /\ WF_vars(Refund \/ RefundFail)
    /\ SF_vars(RefundOrder /\ rfd'.pc = "mark")
    /\ SF_vars(UpdateRefundStatusToRefundIng)

FairSpec == Spec /\ Fairness

-----------------------------------------------------------------------------
(* Invariants *)

\* Every variable holds values of the kind the code stores in it.
TypeOK ==
    /\ order \in [OrderIds -> Order]
    /\ nOrder \in 0..MaxOrders
    /\ pay \in [Hashes -> Payment]
    /\ rec \in [RecIds -> Record]
    /\ nRec \in 0..MaxRecs
    /\ used \subseteq Coupons
    /\ couponSet \in [OrderIds -> CouponSet]
    /\ synced \in [Accounts -> Versions]
    /\ chain \in [Accounts -> Versions]
    /\ uni \in [Hashes -> UniPayment]
    /\ locked \subseteq LockKeys
    /\ make \in [Addrs -> [pc : {"idle", "lock", "create", "read", "save"},
                           action : Actions, acc : Accounts,
                           coupon : Coupons \cup {NoCoupon},
                           old : 0..MaxOrders, seen : {"Unpaid", "Paid"}]]
    /\ conf \in [Confirmers -> [h : Hashes \cup {NoHash}, ver : Asked]]
    /\ chk \in [list : SUBSET OrderIds, o : 0..MaxOrders,
                seen : {"none", "Default", "Closed", "Chain"}]
    /\ rfd \in [pc : {"idle", "send", "mark"}, list : SUBSET Hashes]
    /\ spent \in [others : 0..MaxOthers, crash : 0..MaxCrash]

\* The record queued for an order.
RecordsOfOrder(o) == GetSmtRecordByOrderId(o)

\* However many payments an order gets, and however often a notice and the poll
\* confirm them, it queues at most one record, and none before it is paid, unless
\* it was overwritten as unpaid while it was paid (dao/t_order_info.go:42).
ServedOnce ==
    \A o \in OrderIds : ~ order[o].raced =>
        /\ Cardinality(RecordsOfOrder(o)) <= 1
        /\ RecordsOfOrder(o) # {} => order[o].pay = "Paid"

\* A client whose payment is being refunded has not got, and will not get, what
\* the order was for: its order failed, and its record, if there still is one,
\* neither waits nor made its change on chain, also if it was turned into a chain
\* record with the rest of its task (unipay/order_check.go:34,
\* dao/t_order_info.go:328, dao/t_task_info.go:194).
RefundedNotServed ==
    \A h \in Hashes : pay[h].refund # "Default" =>
        LET o == pay[h].order
        IN  /\ order[o].status = "Fail"
            /\ \A r \in RecordsOfOrder(o) : rec[r].type # "Default" /\ ~ rec[r].onChain

\* An order is a success only if the account exists, and a renewal only if its own
\* record is a chain record whose change is on chain, or was closed as stale in a
\* task that got on chain with its other records, the account then being past the
\* version the record asked for: the profit of the parent's owner is computed from
\* these orders (unipay/order_check.go:34, dao/t_order_info.go:228,
\* dao/t_task_info.go:194).
SuccessIsOnChain ==
    \A o \in OrderIds : order[o].status = "Success" /\ order[o].action # "CouponCreate" =>
        /\ chain[order[o].acc] # 0
        /\ order[o].action = "Renew" =>
             \E r \in RecordsOfOrder(o) :
                 /\ rec[r].type = "Chain"
                 /\ rec[r].onChain \/ rec[r].open
                 /\ chain[rec[r].acc] >= rec[r].ver

\* A coupon code pays for one order, although its lock may expire under a slow
\* handler, whose UnLock then deletes the lock of another one
\* (auto_order_create.go:148, dao/t_order_info.go:208).
CouponUsedOnce ==
    \A o, p \in OrderIds :
        /\ Exists(o) /\ Exists(p)
        /\ order[o].coupon # NoCoupon
        /\ order[o].coupon = order[p].coupon
        => o = p

\* However many payments an order for a coupon set gets, and although it may be
\* replaced before, between or after them, the codes of its set are made once, with
\* its first confirmed payment, and the set stays a success; only of an order that
\* was overwritten while it was paid can they be made again
\* (dao/t_order_info.go:94, http_server/handle/coupon_order_create.go:143).
CodesMadeOnce ==
    \A o \in OrderIds : order[o].action = "CouponCreate" =>
        /\ couponSet[o].status = "Success" <=> couponSet[o].codes # 0
        /\ order[o].pay = "Paid" => couponSet[o].codes # 0
        /\ ~ order[o].raced => couponSet[o].codes = IF order[o].pay = "Paid" THEN 1 ELSE 0

\* The order of a confirmed payment is paid, and stays it when it is replaced
\* afterwards: the payment bought something or can be found for a refund.  The one
\* way to lose it is to pay between the read and the save of a replacement, and then
\* the order is closed
\* (http_server/handle/coupon_order_create.go:138, dao/t_order_info.go:46).
ConfirmedIsPaid ==
    \A h \in Hashes : pay[h].status \in {"Confirmed", "Dispute"} =>
        LET o == order[pay[h].order]
        IN  o.pay = "Paid" \/ (o.raced /\ o.status = "Closed")

\* A paid order has a payment that unipay confirmed and that was not rejected
\* because of another one (dao/t_order_info.go:73).
PaidIsBacked ==
    \A o \in OrderIds : order[o].pay = "Paid" =>
        \E h \in Hashes : /\ pay[h].order = o
                          /\ pay[h].status \in {"Confirmed", "Dispute"}
                          /\ uni[h].state \in {"confirmed", "disputed"}

-----------------------------------------------------------------------------
(* Liveness, for orders and payments that stay within the windows *)

\* A reported payment that unipay confirmed is confirmed here or rejected in favour
\* of another one, although every notice is lost (unipay/confirm_status.go:45).
ReportedIsConfirmed ==
    \A h \in Hashes :
        /\ pay[h].status = "Pending"
        /\ uni[h].state = "confirmed"
        /\ \/ order[uni[h].order].action = "Mint"
           \/ synced[order[uni[h].order].acc] # 0
        ~> pay[h].status # "Pending" \/ uni[h].state = "disputed"

\* A paid order is settled once what it waits for is known: a mint when the
\* account is there, whoever minted it, a renewal when its record is on chain or
\* closed; unless as many older orders as a round looks at cannot be decided, which
\* starve it (unipay/order_check.go:34, dao/t_order_info.go:324).
Decidable(o) ==
    /\ order[o].pay = "Paid"
    /\ synced[order[o].acc] # 0
    /\ order[o].action = "Renew" =>
         \E r \in RecordsOfOrder(o) : rec[r].type # "Default"
Starved(o) ==
    Cardinality({p \in Unsettled : p < o /\ ~ Decidable(p)}) >= CheckLimit
PaidSettles ==
    \A o \in OrderIds :
        Decidable(o) ~> order[o].status # "Default" \/ ~ Decidable(o) \/ Starved(o)

\* A payment marked for refund is refunded, although unipay's answers and notices
\* get lost, unless it is disputed first (unipay/refund.go:35,
\* unipay/confirm_status.go:113).
RefundCompletes ==
    \A h \in Hashes :
        pay[h].refund = "UnRefund" ~> \/ pay[h].refund = "Refunded"
                                     \/ uni[h].state = "disputed"
=============================================================================
