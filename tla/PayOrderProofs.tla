---------------------------- MODULE PayOrderProofs ----------------------------
(* Proofs about PayOrder, for every number of accounts, buyers, payments,    *)
(* coupon codes, orders and crashes.                                         *)
EXTENDS PayOrder, FiniteSetTheorems, WellFoundedInduction, TLAPS

-----------------------------------------------------------------------------
(* Constants *)

LEMMA BoundsTyped ==
    /\ MaxOrders \in Nat \ {0} /\ MaxVer \in Nat \ {0} /\ MaxOthers \in Nat /\ MaxCrash \in Nat
    /\ MaxRecs \in Nat \ {0}
    /\ OrderIds \subseteq 1..MaxOrders /\ OrderIds \subseteq Nat \ {0}
    /\ OrderIds \subseteq 0..MaxOrders /\ 0 \in 0..MaxOrders
    /\ RecIds = 1..MaxRecs /\ RecIds \subseteq Nat \ {0}
    /\ Versions \subseteq Asked /\ 0 \in Versions /\ 0 \in Asked /\ 1 \in Asked
    /\ \A v \in Versions : v + 1 \in Asked
    /\ IsFiniteSet(Addrs) /\ NoHash \notin Hashes
    /\ NoCoupon \notin Coupons /\ "parent" \notin Coupons
BY PayOrderAssumption DEF PayOrderAssumption, OrderIds, RecIds, MaxRecs, Versions, Asked

LEMMA NothingTyped ==
    /\ NoOrder \in Order /\ NoPayment \in Payment /\ NoRecord \in Record /\ NoSet \in CouponSet
    /\ SomeAcc \in Accounts /\ SomeAddr \in Addrs
<1>1. SomeAcc \in Accounts /\ SomeAddr \in Addrs
  BY PayOrderAssumption DEF PayOrderAssumption, SomeAcc, SomeAddr
<1>2. NoOrder \in Order
  BY <1>1 DEF NoOrder, Order, Actions
<1>3. NoPayment \in Payment
  BY BoundsTyped DEF NoPayment, Payment
<1>4. NoRecord \in Record
  BY <1>1, BoundsTyped DEF NoRecord, Record, Actions
<1>5. NoSet \in CouponSet
  BY DEF NoSet, CouponSet
<1> QED
  BY <1>1, <1>2, <1>3, <1>4, <1>5

\* A set of record ids that is not empty has a largest one.
LEMMA LatestExists ==
    ASSUME NEW rs \in SUBSET RecIds, rs # {}
    PROVE  Max(rs) \in rs
<1> DEFINE down == {MaxRecs - r : r \in rs}
<1>1. down \subseteq Nat /\ down # {}
  <2>1. \A r \in rs : r \in Nat /\ r <= MaxRecs /\ MaxRecs - r \in Nat
    BY BoundsTyped
  <2>2. PICK r \in rs : TRUE
    OBVIOUS
  <2>3. MaxRecs - r \in down
    BY <2>2
  <2>4. down \subseteq Nat
    BY <2>1
  <2> HIDE DEF down
  <2> QED
    BY <2>3, <2>4
<1>2. PICK x \in down : \A y \in down : ~ (<<y, x>> \in OpToRel(<, Nat))
  BY <1>1, NatLessThanWellFounded, WFMin
<1>3. \A y \in down : ~ (y < x)
  BY <1>1, <1>2 DEF OpToRel
<1>4. PICK r \in rs : x = MaxRecs - r
  OBVIOUS
<1>5. ASSUME NEW s \in rs PROVE r >= s
  <2>1. MaxRecs - s \in down
    OBVIOUS
  <2>2. ~ (MaxRecs - s < x)
    BY <1>3, <2>1
  <2> QED
    BY <1>4, <2>2, BoundsTyped
<1> QED
  BY <1>5 DEF Max

-----------------------------------------------------------------------------
(* What the tables and the memory of the service know of one another *)

Busy == {d \in Addrs : make[d].pc # "idle"}

\* There is a row for every order that is being made, a replaced order exists, and
\* only the lock of a coupon is waited for.
PlacesLeft ==
    /\ nOrder + Cardinality(Busy) <= MaxOrders
    /\ \A d \in Addrs : /\ make[d].old <= nOrder
                        /\ make[d].pc = "lock" => make[d].coupon \in Coupons

\* Ids that are not given out have no order, no coupon set and no record.
UnusedIds ==
    /\ \A o \in OrderIds : o > nOrder =>
         /\ order[o].action = "Absent" /\ order[o].pay = "Unpaid"
         /\ order[o].coupon = NoCoupon /\ ~ order[o].raced
         /\ couponSet[o] = NoSet
    /\ \A r \in RecIds : r > nRec => rec[r] = NoRecord

\* Unipay and t_payment_info agree on the order of a payment.
PaymentsAgree ==
    \A h \in Hashes :
        /\ uni[h].order <= nOrder
        /\ uni[h].state # "none" => uni[h].order # 0
        /\ pay[h].status # "Absent" => uni[h].order # 0 /\ pay[h].order = uni[h].order

\* Only what unipay confirmed is being confirmed.
ConfirmedByUnipay ==
    \A w \in Confirmers : conf[w] # ConfIdle =>
        /\ conf[w].h \in Hashes
        /\ uni[conf[w].h].state \in {"confirmed", "disputed"}

Base == TypeOK /\ PlacesLeft /\ UnusedIds /\ PaymentsAgree /\ ConfirmedByUnipay

LEMMA IdleTyped ==
    /\ ConfIdle \in [h : Hashes \cup {NoHash}, ver : Asked]
    /\ ChkIdle \in [list : SUBSET OrderIds, o : 0..MaxOrders,
                    seen : {"none", "Default", "Closed", "Chain"}]
    /\ RfdIdle \in [pc : {"idle", "send", "mark"}, list : SUBSET Hashes]
BY BoundsTyped DEF ConfIdle, ChkIdle, RfdIdle

Making == [pc : {"idle", "lock", "create", "read", "save"},
           action : Actions, acc : Accounts, coupon : Coupons \cup {NoCoupon},
           old : 0..MaxOrders, seen : {"Unpaid", "Paid"}]

LEMMA MakeIdleTyped == MakeIdle \in Making /\ MakeIdle.old = 0 /\ MakeIdle.pc = "idle"
BY BoundsTyped, NothingTyped DEF MakeIdle, Making, Actions

LEMMA BaseInit == Init => Base
<1> SUFFICES ASSUME Init PROVE Base
  OBVIOUS
<1>1. TypeOK
  <2>1. make \in [Addrs -> Making]
    BY MakeIdleTyped DEF Init
  <2>2. uni \in [Hashes -> UniPayment]
    BY BoundsTyped DEF Init, UniPayment
  <2>3. spent \in [others : 0..MaxOthers, crash : 0..MaxCrash]
    BY BoundsTyped DEF Init
  <2> QED
    BY <2>1, <2>2, <2>3, IdleTyped, NothingTyped, BoundsTyped
    DEF Init, TypeOK, Making
<1>2. PlacesLeft
  <2>1. Busy = {}
    BY MakeIdleTyped DEF Init, Busy
  <2>2. \A d \in Addrs : make[d].old = 0 /\ make[d].pc # "lock"
    BY MakeIdleTyped DEF Init
  <2> QED
    BY <2>1, <2>2, FS_EmptySet, BoundsTyped DEF Init, PlacesLeft
<1>3. UnusedIds
  BY DEF Init, UnusedIds, NoOrder
<1>4. PaymentsAgree /\ ConfirmedByUnipay
  BY DEF Init, PaymentsAgree, ConfirmedByUnipay, NoPayment
<1> QED
  BY <1>1, <1>2, <1>3, <1>4 DEF Base

LEMMA MakersTyped ==
    ASSUME Base, NEW d \in Addrs
    PROVE  /\ make \in [Addrs -> Making] /\ make[d] \in Making
           /\ make[d].old <= nOrder
           /\ make[d].pc = "lock" => make[d].coupon \in Coupons
<1>1. make \in [Addrs -> Making]
  BY DEF Base, TypeOK, Making
<1>2. \A e \in Addrs : /\ make[e].old <= nOrder
                       /\ make[e].pc = "lock" => make[e].coupon \in Coupons
  BY DEF Base, PlacesLeft
<1>3. make[d] \in Making
  BY <1>1
<1> QED
  BY <1>1, <1>2, <1>3

\* Who starts, and who ends, the making of an order.
LEMMA OneMoreBusy ==
    ASSUME Base, NEW d \in Addrs, NEW m \in Making, m.pc # "idle", m.old <= nOrder,
           m.pc = "lock" => m.coupon \in Coupons,
           make' = [make EXCEPT ![d] = m], nOrder' = nOrder,
           make[d].pc # "idle" \/ nOrder + Cardinality(Busy) < MaxOrders
    PROVE  make' \in [Addrs -> Making] /\ PlacesLeft'
<1>1. make \in [Addrs -> Making] /\ nOrder \in Nat
  BY BoundsTyped DEF Base, TypeOK, Making
<1>2. /\ Busy' = Busy \cup {d}
      /\ \A e \in Addrs : /\ make'[e].old <= nOrder'
                          /\ make'[e].pc = "lock" => make'[e].coupon \in Coupons
  BY <1>1 DEF Busy, Base, PlacesLeft
<1>3. IsFiniteSet(Busy) /\ Cardinality(Busy) \in Nat
  <2>1. Busy \in SUBSET Addrs
    BY DEF Busy
  <2> QED
    BY <2>1, BoundsTyped, FS_Subset, FS_CardinalityType
<1>4. make[d].pc # "idle" <=> d \in Busy
  BY DEF Busy
<1>5. Cardinality(Busy') = IF d \in Busy THEN Cardinality(Busy) ELSE Cardinality(Busy) + 1
  BY <1>2, <1>3, FS_AddElement
<1> QED
  BY <1>1, <1>2, <1>3, <1>4, <1>5, BoundsTyped DEF PlacesLeft, Base

LEMMA OneLessBusy ==
    ASSUME Base, NEW d \in Addrs, make[d].pc # "idle",
           make' = [make EXCEPT ![d] = MakeIdle], nOrder' \in {nOrder, nOrder + 1}
    PROVE  /\ make' \in [Addrs -> Making] /\ PlacesLeft'
           /\ nOrder' \in 0..MaxOrders /\ nOrder < MaxOrders
<1>1. make \in [Addrs -> Making] /\ nOrder \in Nat
  BY BoundsTyped DEF Base, TypeOK, Making
<1>2. Busy' = Busy \ {d}
  BY <1>1, MakeIdleTyped DEF Busy
<1>3. \A e \in Addrs : /\ make'[e].old <= nOrder'
                       /\ make'[e].pc = "lock" => make'[e].coupon \in Coupons
  <2>1. nOrder' \in Nat /\ nOrder' >= nOrder
    BY <1>1
  <2>2. ASSUME NEW e \in Addrs
        PROVE  make'[e].old <= nOrder' /\ (make'[e].pc = "lock" => make'[e].coupon \in Coupons)
    <3>1. CASE e = d
      BY <1>1, <2>1, <3>1, MakeIdleTyped
    <3>2. CASE e # d
      <4>1. make'[e] = make[e] /\ make[e].old \in Int
        BY <1>1, <3>2 DEF Making
      <4> QED
        BY <1>1, <2>1, <4>1, MakersTyped
    <3> QED
      BY <3>1, <3>2
  <2> QED
    BY <2>2
<1>4. IsFiniteSet(Busy) /\ Cardinality(Busy) \in Nat
  <2>1. Busy \in SUBSET Addrs
    BY DEF Busy
  <2> QED
    BY <2>1, BoundsTyped, FS_Subset, FS_CardinalityType
<1>5. d \in Busy
  BY DEF Busy
<1>6. IsFiniteSet(Busy \ {d}) /\ Cardinality(Busy \ {d}) = Cardinality(Busy) - 1
  BY <1>4, <1>5, FS_RemoveElement
<1>7. Cardinality(Busy \ {d}) \in Nat
  BY <1>6, FS_CardinalityType
<1>8. nOrder + Cardinality(Busy) <= MaxOrders
  BY DEF Base, PlacesLeft
<1>9. nOrder < MaxOrders
  BY <1>1, <1>4, <1>6, <1>7, <1>8, BoundsTyped
<1>10. nOrder' + Cardinality(Busy') <= MaxOrders
  BY <1>1, <1>2, <1>4, <1>6, <1>8, BoundsTyped
<1> QED
  BY <1>1, <1>3, <1>9, <1>10, MakeIdleTyped, BoundsTyped DEF PlacesLeft

-----------------------------------------------------------------------------
(* Base holds after every step: the making of orders *)

\* What the steps that touch only the locks and the memory of the handlers keep.
LEMMA TablesKept ==
    ASSUME Base, PlacesLeft', make' \in [Addrs -> Making], locked' \subseteq LockKeys,
           UNCHANGED <<order, nOrder, pay, rec, nRec, coupons, env, uni, conf, chk, rfd>>
    PROVE  Base'
<1>1. TypeOK'
  BY DEF Base, TypeOK, Making, coupons, env
<1>2. UnusedIds' /\ PaymentsAgree' /\ ConfirmedByUnipay'
  BY DEF Base, UnusedIds, PaymentsAgree, ConfirmedByUnipay, coupons
<1> QED
  BY <1>1, <1>2 DEF Base

LEMMA OrderCheckBase ==
    ASSUME Base, NEW d \in Addrs, NEW action \in ActionTypes \ {"CouponCreate"},
           NEW a \in Accounts, NEW c \in Coupons \cup {NoCoupon}, OrderCheck(d, action, a, c)
    PROVE  Base'
<1> DEFINE m == [MakeIdle EXCEPT !.pc = IF c = NoCoupon THEN "create" ELSE "lock",
                                 !.action = action, !.acc = a, !.coupon = c]
<1>1. action \in Actions
  BY PayOrderAssumption DEF PayOrderAssumption, Actions
<1>2. /\ m \in Making /\ m.pc # "idle" /\ m.old = 0
      /\ m.pc = "lock" => m.coupon \in Coupons
  BY <1>1, MakeIdleTyped DEF Making
<1>3. m.old <= nOrder
  <2>1. nOrder \in Nat
    BY BoundsTyped DEF Base, TypeOK
  <2> QED
    BY <1>2, <2>1
<1>4. /\ make' = [make EXCEPT ![d] = m] /\ nOrder' = nOrder
      /\ nOrder + Cardinality(Busy) < MaxOrders
  BY DEF OrderCheck, MayPlace, Busy
<1> HIDE DEF m
<1>5. make' \in [Addrs -> Making] /\ PlacesLeft'
  BY <1>2, <1>3, <1>4, OneMoreBusy
<1> QED
  BY <1>5, TablesKept DEF OrderCheck, Base, TypeOK

LEMMA OrderLockBase ==
    ASSUME Base, NEW d \in Addrs, OrderLock(d)
    PROVE  Base'
<1> DEFINE m == [make[d] EXCEPT !.pc = "create"]
<1>1. make \in [Addrs -> Making] /\ locked \subseteq LockKeys
  BY DEF Base, TypeOK, Making
<1>2. m \in Making /\ m.pc \notin {"idle", "lock"} /\ m.old <= nOrder
  <2>1. m \in Making /\ m.pc = "create" /\ m.old = make[d].old
    BY <1>1 DEF Making
  <2> QED
    BY <2>1, MakersTyped
<1>3. make[d].pc = "lock" /\ nOrder' = nOrder
  BY DEF OrderLock
<1>4. CASE make[d].coupon \notin used
  <2>1. make' = [make EXCEPT ![d] = m] /\ locked' = locked \cup {make[d].coupon}
    <3>1. /\ make' = [make EXCEPT ![d].pc = "create"]
          /\ locked' = locked \cup {make[d].coupon}
      BY <1>4 DEF OrderLock
    <3> QED
      BY <1>1, <3>1
  <2>2. make[d].coupon \in Coupons
    BY <1>3, MakersTyped
  <2> HIDE DEF m
  <2>3. make' \in [Addrs -> Making] /\ PlacesLeft'
    BY <1>2, <1>3, <2>1, OneMoreBusy
  <2> QED
    BY <1>1, <2>1, <2>2, <2>3, TablesKept DEF OrderLock, LockKeys
<1>5. CASE make[d].coupon \in used
  <2>1. make' = [make EXCEPT ![d] = MakeIdle] /\ locked' = locked
    BY <1>5 DEF OrderLock
  <2>2. make' \in [Addrs -> Making] /\ PlacesLeft'
    BY <1>3, <2>1, OneLessBusy
  <2> QED
    BY <1>1, <2>1, <2>2, TablesKept DEF OrderLock
<1> QED
  BY <1>4, <1>5

LEMMA OrderFailBase ==
    ASSUME Base, NEW d \in Addrs, OrderFail(d)
    PROVE  Base'
<1>1. make' \in [Addrs -> Making] /\ PlacesLeft'
  BY OneLessBusy DEF OrderFail
<1>2. locked' \subseteq LockKeys
  BY DEF OrderFail, Base, TypeOK
<1> QED
  BY <1>1, <1>2, TablesKept DEF OrderFail

LEMMA CouponOrderCheckBase ==
    ASSUME Base, NEW d \in Addrs, NEW old \in 0..MaxOrders, CouponOrderCheck(d, old)
    PROVE  Base'
<1> DEFINE m == [MakeIdle EXCEPT !.pc = "read", !.old = old, !.action = "CouponCreate"]
<1>1. m \in Making /\ m.pc \notin {"idle", "lock"} /\ m.old = old
  BY MakeIdleTyped DEF Making, Actions
<1>2. old <= nOrder
  <2>1. nOrder \in Nat /\ old \in Nat
    BY BoundsTyped DEF Base, TypeOK
  <2>2. CASE old # 0
    <3>1. old \in OrderIds /\ order[old].action # "Absent"
      BY <2>2, BoundsTyped DEF CouponOrderCheck, Exists, OrderIds
    <3> QED
      BY <2>1, <3>1 DEF Base, UnusedIds
  <2> QED
    BY <2>1, <2>2
<1>3. /\ make' = [make EXCEPT ![d] = m] /\ nOrder' = nOrder
      /\ nOrder + Cardinality(Busy) < MaxOrders
  BY DEF CouponOrderCheck, MayPlace, Busy
<1> HIDE DEF m
<1>4. make' \in [Addrs -> Making] /\ PlacesLeft'
  BY <1>1, <1>2, <1>3, OneMoreBusy
<1>5. locked' \subseteq LockKeys
  BY DEF CouponOrderCheck, Base, TypeOK, LockKeys
<1> QED
  BY <1>4, <1>5, TablesKept DEF CouponOrderCheck

LEMMA CouponOrderReadBase ==
    ASSUME Base, NEW d \in Addrs, CouponOrderRead(d)
    PROVE  Base'
<1> DEFINE see == IF make[d].old = 0 THEN make[d].seen ELSE order[make[d].old].pay
           m == [make[d] EXCEPT !.pc = "save", !.seen = see]
<1>1. make \in [Addrs -> Making] /\ order \in [OrderIds -> Order] /\ locked \subseteq LockKeys
  BY DEF Base, TypeOK, Making
<1>2. see \in {"Unpaid", "Paid"}
  <2>1. make[d].seen \in {"Unpaid", "Paid"} /\ make[d].old \in 0..MaxOrders
    BY <1>1 DEF Making
  <2>2. make[d].old # 0 => make[d].old \in OrderIds
    BY <2>1, BoundsTyped DEF OrderIds
  <2> QED
    BY <1>1, <2>1, <2>2 DEF Order
<1>3. m \in Making /\ m.pc \notin {"idle", "lock"} /\ m.old <= nOrder
  <2>1. m \in Making /\ m.pc = "save" /\ m.old = make[d].old
    BY <1>1, <1>2 DEF Making
  <2> QED
    BY <2>1, MakersTyped
<1>4. make' = [make EXCEPT ![d] = m] /\ nOrder' = nOrder /\ make[d].pc # "idle"
  BY <1>1 DEF CouponOrderRead
<1> HIDE DEF m
<1>5. make' \in [Addrs -> Making] /\ PlacesLeft'
  BY <1>3, <1>4, OneMoreBusy
<1> QED
  BY <1>1, <1>5, TablesKept DEF CouponOrderRead

\* An order that is stored, with or without a payment.
LEMMA StorePaymentTyped ==
    ASSUME Base, nOrder < MaxOrders, StorePayment(nOrder + 1), nOrder' = nOrder + 1
    PROVE  /\ nOrder + 1 \in OrderIds
           /\ pay' \in [Hashes -> Payment] /\ uni' \in [Hashes -> UniPayment]
           /\ PaymentsAgree'
           /\ \A h \in Hashes : uni'[h].state = uni[h].state
           /\ \A h \in Hashes : pay[h].status # "Absent" => pay'[h] = pay[h]
           /\ \A h \in Hashes : pay'[h].status \notin {"Absent", "Pending"} => pay'[h] = pay[h]
<1> DEFINE o == nOrder + 1
<1>1. o \in OrderIds /\ o \in 0..MaxOrders /\ nOrder \in Nat
  BY BoundsTyped DEF Base, TypeOK, OrderIds
<1>2. pay \in [Hashes -> Payment] /\ uni \in [Hashes -> UniPayment] /\ PaymentsAgree
  BY DEF Base, TypeOK
<1>3. \A h \in Hashes : uni[h].order \in Int
  BY <1>2, BoundsTyped DEF UniPayment
<1>4. CASE UNCHANGED <<pay, uni>>
  BY <1>1, <1>2, <1>3, <1>4 DEF PaymentsAgree
<1>5. ASSUME NEW h \in Hashes, uni[h].order = 0,
             pay' = [pay EXCEPT ![h] = [NoPayment EXCEPT !.order = o, !.status = "Pending"]],
             uni' = [uni EXCEPT ![h].order = o]
      PROVE  /\ pay' \in [Hashes -> Payment] /\ uni' \in [Hashes -> UniPayment]
             /\ PaymentsAgree'
             /\ \A g \in Hashes : uni'[g].state = uni[g].state
             /\ \A g \in Hashes : pay[g].status # "Absent" => pay'[g] = pay[g]
             /\ \A g \in Hashes : pay'[g].status \notin {"Absent", "Pending"} =>
                  pay'[g] = pay[g]
  <2> DEFINE p == [NoPayment EXCEPT !.order = o, !.status = "Pending"]
             u == [uni[h] EXCEPT !.order = o]
  <2>1. p \in Payment /\ p.order = o /\ p.status = "Pending"
    BY <1>1, NothingTyped DEF Payment, NoPayment
  <2>2. u \in UniPayment /\ u.order = o /\ u.state = uni[h].state
    BY <1>1, <1>2 DEF UniPayment
  <2>3. /\ pay' = [pay EXCEPT ![h] = p]
        /\ uni' = [uni EXCEPT ![h] = u]
    BY <1>2, <1>5
  <2>4. pay[h].status = "Absent"
    BY <1>2, <1>5 DEF PaymentsAgree
  <2> HIDE DEF p, u
  <2>5. \A g \in Hashes : /\ pay'[g] = IF g = h THEN p ELSE pay[g]
                          /\ uni'[g] = IF g = h THEN u ELSE uni[g]
    BY <1>2, <2>3
  <2>6. PaymentsAgree'
    <3> SUFFICES ASSUME NEW g \in Hashes
                 PROVE  /\ uni'[g].order <= nOrder'
                        /\ uni'[g].state # "none" => uni'[g].order # 0
                        /\ pay'[g].status # "Absent" =>
                             uni'[g].order # 0 /\ pay'[g].order = uni'[g].order
      BY DEF PaymentsAgree
    <3>1. CASE g = h
      BY <1>1, <2>1, <2>2, <2>5, <3>1
    <3>2. CASE g # h
      BY <1>1, <1>2, <1>3, <2>5, <3>2 DEF PaymentsAgree
    <3> QED
      BY <3>1, <3>2
  <2> QED
    BY <1>2, <2>1, <2>2, <2>3, <2>4, <2>5, <2>6
<1> QED
  BY <1>1, <1>4, <1>5 DEF StorePayment

LEMMA OrderCreateBase ==
    ASSUME Base, NEW d \in Addrs, OrderCreate(d)
    PROVE  Base'
<1> DEFINE m == make[d]
           o == nOrder + 1
           new == [NoOrder EXCEPT !.action = m.action, !.acc = m.acc, !.addr = d,
                                  !.coupon = m.coupon]
<1>1. m \in Making /\ m.pc = "create" /\ order \in [OrderIds -> Order]
  BY MakersTyped DEF OrderCreate, Base, TypeOK
<1>2. nOrder' = o /\ make' = [make EXCEPT ![d] = MakeIdle]
  BY DEF OrderCreate
<1>3. make' \in [Addrs -> Making] /\ PlacesLeft' /\ nOrder' \in 0..MaxOrders /\ nOrder < MaxOrders
  BY <1>1, <1>2, OneLessBusy
<1>4. /\ o \in OrderIds
      /\ pay' \in [Hashes -> Payment] /\ uni' \in [Hashes -> UniPayment]
      /\ PaymentsAgree' /\ \A h \in Hashes : uni'[h].state = uni[h].state
  BY <1>2, <1>3, StorePaymentTyped DEF OrderCreate
<1>5. order' = [order EXCEPT ![o] = new]
  BY DEF OrderCreate
<1>6. new \in Order
  BY <1>1, NothingTyped DEF Order, Making, NoOrder
<1>7. used' \subseteq Coupons /\ locked' \subseteq LockKeys
  <2>1. used' = used \cup ({m.coupon} \ {NoCoupon}) /\ locked' = locked \ {m.coupon}
    BY DEF OrderCreate
  <2>2. m.coupon \in Coupons \cup {NoCoupon} /\ used \subseteq Coupons /\ locked \subseteq LockKeys
    BY <1>1 DEF Making, Base, TypeOK
  <2> QED
    BY <2>1, <2>2
<1>8. UNCHANGED <<rec, nRec, couponSet, env, conf, chk, rfd>>
  BY DEF OrderCreate
<1> HIDE DEF new, m
<1>9. order' \in [OrderIds -> Order]
  BY <1>1, <1>5, <1>6
<1>10. TypeOK'
  BY <1>3, <1>4, <1>7, <1>8, <1>9 DEF Base, TypeOK, Making, env
<1>11. UnusedIds'
  <2>1. \A p \in OrderIds : p > nOrder' => p > nOrder /\ order'[p] = order[p]
    BY <1>1, <1>2, <1>5, BoundsTyped DEF Base, TypeOK
  <2> QED
    BY <1>8, <2>1 DEF Base, UnusedIds
<1>12. ConfirmedByUnipay'
  BY <1>4, <1>8 DEF Base, ConfirmedByUnipay
<1> QED
  BY <1>3, <1>4, <1>10, <1>11, <1>12 DEF Base

LEMMA CouponOrderCreateBase ==
    ASSUME Base, NEW d \in Addrs, CouponOrderCreate(d)
    PROVE  Base'
<1> DEFINE m == make[d]
           o == nOrder + 1
           new == [NoOrder EXCEPT !.action = m.action, !.addr = d]
           set == [couponSet[o] EXCEPT !.status = "Created"]
<1>1. m \in Making /\ m.pc = "save" /\ m.old <= nOrder /\ order \in [OrderIds -> Order]
  BY MakersTyped DEF CouponOrderCreate, Base, TypeOK
<1>2. nOrder' = o /\ make' = [make EXCEPT ![d] = MakeIdle]
  BY DEF CouponOrderCreate
<1>3. make' \in [Addrs -> Making] /\ PlacesLeft' /\ nOrder' \in 0..MaxOrders /\ nOrder < MaxOrders
  BY <1>1, <1>2, OneLessBusy
<1>4. /\ o \in OrderIds
      /\ pay' \in [Hashes -> Payment] /\ uni' \in [Hashes -> UniPayment]
      /\ PaymentsAgree' /\ \A h \in Hashes : uni'[h].state = uni[h].state
  BY <1>2, <1>3, StorePaymentTyped DEF CouponOrderCreate
<1>5. \A p \in OrderIds : order'[p] = IF p = o THEN new
                                     ELSE IF p = m.old THEN ReplacedOrder(m) ELSE order[p]
  BY DEF CouponOrderCreate
<1>6. new \in Order
  BY <1>1, NothingTyped DEF Order, Making, NoOrder
<1>7. m.old \in OrderIds => ReplacedOrder(m) \in Order
  <2>1. m.seen \in {"Unpaid", "Paid"}
    BY <1>1 DEF Making
  <2>2. \A p \in Order, s \in {"Unpaid", "Paid"}, b \in BOOLEAN :
          [p EXCEPT !.pay = s, !.status = "Closed", !.raced = b] \in Order
    BY DEF Order
  <2> HIDE DEF m
  <2>3. ASSUME m.old \in OrderIds PROVE ReplacedOrder(m) \in Order
    <3>1. order[m.old] \in Order
      BY <1>1, <2>3
    <3>2. PICK b \in BOOLEAN : b = (order[m.old].raced \/ order[m.old].pay # m.seen)
      OBVIOUS
    <3>3. ReplacedOrder(m) =
            [order[m.old] EXCEPT !.pay = m.seen, !.status = "Closed", !.raced = b]
      BY <3>2 DEF ReplacedOrder
    <3>4. [order[m.old] EXCEPT !.pay = m.seen, !.status = "Closed", !.raced = b] \in Order
      BY <2>1, <2>2, <3>1
    <3> QED
      BY <3>3, <3>4
  <2> QED
    BY <2>3
<1>8. /\ couponSet' = [couponSet EXCEPT ![o].status = "Created"]
      /\ locked' = locked \ {"parent"}
      /\ UNCHANGED <<rec, nRec, used, env, conf, chk, rfd>>
  BY DEF CouponOrderCreate
<1>9. couponSet' \in [OrderIds -> CouponSet] /\ \A p \in OrderIds : p # o => couponSet'[p] = couponSet[p]
  <2>1. couponSet \in [OrderIds -> CouponSet]
    BY DEF Base, TypeOK
  <2>2. set \in CouponSet
    BY <1>4, <2>1 DEF CouponSet
  <2>3. couponSet' = [couponSet EXCEPT ![o] = set]
    BY <1>4, <1>8, <2>1
  <2> HIDE DEF set
  <2> QED
    BY <2>1, <2>2, <2>3
<1>10. order' \in [OrderIds -> Order]
  <2>1. order' = [p \in OrderIds |-> order'[p]]
    BY DEF CouponOrderCreate
  <2> HIDE DEF new, m
  <2>2. \A p \in OrderIds : order'[p] \in Order
    BY <1>1, <1>5, <1>6, <1>7
  <2> QED
    BY <2>1, <2>2
<1> HIDE DEF new, m
<1>11. TypeOK'
  BY <1>3, <1>4, <1>8, <1>9, <1>10 DEF Base, TypeOK, Making, env
<1>12. UnusedIds'
  <2>1. m.old \in Int /\ nOrder \in Nat
    BY <1>1, BoundsTyped DEF Making, Base, TypeOK
  <2>2. \A p \in OrderIds : p > nOrder' =>
          p > nOrder /\ order'[p] = order[p] /\ couponSet'[p] = couponSet[p]
    BY <1>1, <1>2, <1>5, <1>9, <2>1, BoundsTyped
  <2> QED
    BY <1>8, <2>2 DEF Base, UnusedIds
<1>13. ConfirmedByUnipay'
  BY <1>4, <1>8 DEF Base, ConfirmedByUnipay
<1> QED
  BY <1>3, <1>4, <1>11, <1>12, <1>13 DEF Base

-----------------------------------------------------------------------------
(* Base holds after every step: hashes and confirmations *)

LEMMA HashBase ==
    ASSUME Base, NEW h \in Hashes, doAutoOrderHash(h)
    PROVE  Base'
<1> DEFINE o == uni[h].order
           p == [NoPayment EXCEPT !.order = o, !.status = "Pending"]
           set == [couponSet[o] EXCEPT !.status = "Paid"]
<1>1. /\ pay \in [Hashes -> Payment] /\ uni \in [Hashes -> UniPayment]
      /\ couponSet \in [OrderIds -> CouponSet] /\ nOrder \in Nat
  BY BoundsTyped DEF Base, TypeOK
<1>2. o # 0 /\ o <= nOrder /\ o \in OrderIds /\ o \in 0..MaxOrders
  <2>1. o # 0 /\ o <= nOrder
    BY DEF doAutoOrderHash, Base, PaymentsAgree
  <2>2. o \in 0..MaxOrders
    BY <1>1 DEF UniPayment
  <2> QED
    BY <2>1, <2>2, BoundsTyped DEF OrderIds
<1>3. /\ pay' = pay \/ pay' = [pay EXCEPT ![h] = p]
      /\ couponSet' = couponSet \/ couponSet' = [couponSet EXCEPT ![o] = set]
      /\ UNCHANGED <<order, nOrder, rec, nRec, used, env, uni, locked, memory>>
  <2>1. [couponSet EXCEPT ![o].status = "Paid"] = [couponSet EXCEPT ![o] = set]
    BY <1>1, <1>2
  <2> QED
    BY <2>1 DEF doAutoOrderHash
<1>4. p \in Payment /\ p.order = o
  BY <1>2, NothingTyped DEF Payment, NoPayment
<1>5. set \in CouponSet
  BY <1>1, <1>2 DEF CouponSet
<1> HIDE DEF p, set
<1>6. TypeOK'
  BY <1>1, <1>3, <1>4, <1>5 DEF Base, TypeOK, env, memory
<1>7. UnusedIds'
  <2>1. \A q \in OrderIds : q > nOrder => couponSet'[q] = couponSet[q]
    BY <1>1, <1>2, <1>3, BoundsTyped
  <2> QED
    BY <1>3, <2>1 DEF Base, UnusedIds
<1>8. PaymentsAgree'
  BY <1>1, <1>2, <1>3, <1>4 DEF Base, PaymentsAgree
<1>9. ConfirmedByUnipay' /\ PlacesLeft'
  BY <1>3 DEF Base, ConfirmedByUnipay, PlacesLeft, Busy, memory
<1> QED
  BY <1>6, <1>7, <1>8, <1>9 DEF Base

LEMMA ConfirmReadBase ==
    ASSUME Base, NEW w \in Confirmers, NEW h \in Hashes, ConfirmRead(w, h)
    PROVE  Base'
<1> DEFINE o == order[uni[h].order]
           c == [h |-> h, ver |-> RecordVersion(o)]
<1>1. uni[h].state \in {"confirmed", "disputed"}
  BY DEF ConfirmRead, MayConfirm
<1>2. uni[h].order \in OrderIds
  <2>1. uni[h].order # 0 /\ uni[h].order \in 0..MaxOrders
    BY <1>1 DEF Base, PaymentsAgree, TypeOK, UniPayment
  <2> QED
    BY <2>1, BoundsTyped DEF OrderIds
<1>3. o.acc \in Accounts
  BY <1>2 DEF Base, TypeOK, Order
<1>4. RecordVersion(o) \in Asked
  <2>1. synced[o.acc] \in Versions
    BY <1>3 DEF Base, TypeOK
  <2> HIDE DEF o
  <2> QED
    BY <2>1, BoundsTyped DEF RecordVersion
<1>5. /\ conf' = [conf EXCEPT ![w] = c]
      /\ UNCHANGED <<order, nOrder, pay, rec, nRec, coupons, env, uni, locked, make, chk, rfd>>
  BY DEF ConfirmRead
<1>6. c \in [h : Hashes \cup {NoHash}, ver : Asked] /\ c.h = h
  BY <1>4
<1> HIDE DEF c
<1>7. TypeOK'
  BY <1>5, <1>6 DEF Base, TypeOK, env, coupons
<1>8. UnusedIds' /\ PaymentsAgree' /\ PlacesLeft'
  BY <1>5 DEF Base, UnusedIds, PaymentsAgree, PlacesLeft, Busy, coupons
<1>9. ConfirmedByUnipay'
  <2>1. conf \in [Confirmers -> [h : Hashes \cup {NoHash}, ver : Asked]]
    BY DEF Base, TypeOK
  <2> QED
    BY <1>1, <1>5, <1>6, <2>1 DEF Base, ConfirmedByUnipay
<1> QED
  BY <1>7, <1>8, <1>9 DEF Base

\* A new record gets the next id.
LEMMA CreateRecordTyped ==
    ASSUME TypeOK, NEW o \in OrderIds, NEW v \in Asked, CreateRecord(o, v)
    PROVE  /\ rec' \in [RecIds -> Record] /\ nRec' \in 0..MaxRecs
           /\ \/ UNCHANGED <<rec, nRec>>
              \/ /\ nRec' = nRec + 1 /\ nRec + 1 \in RecIds
                 /\ \A r \in RecIds : r # nRec + 1 => rec'[r] = rec[r]
                 /\ rec'[nRec + 1].order = o /\ rec'[nRec + 1].action = order[o].action
                 /\ rec'[nRec + 1].type = "Default"
                 /\ ~ rec'[nRec + 1].onChain /\ ~ rec'[nRec + 1].open
<1>1. rec \in [RecIds -> Record] /\ nRec \in 0..MaxRecs /\ order[o] \in Order
  BY DEF TypeOK
<1>2. CASE UNCHANGED <<rec, nRec>>
  BY <1>1, <1>2
<1>3. CASE ~ UNCHANGED <<rec, nRec>>
  <2> DEFINE new == [NoRecord EXCEPT !.acc = order[o].acc, !.ver = v,
                                     !.action = order[o].action, !.order = o]
  <2>1. /\ nRec < MaxRecs /\ nRec' = nRec + 1
        /\ rec' = [rec EXCEPT ![nRec + 1] = new]
    BY <1>3 DEF CreateRecord
  <2>2. nRec + 1 \in RecIds /\ nRec' \in 0..MaxRecs
    BY <1>1, <2>1, BoundsTyped
  <2>3. /\ new \in Record /\ new.order = o /\ new.action = order[o].action
        /\ new.type = "Default" /\ ~ new.onChain /\ ~ new.open
    BY <1>1, NothingTyped, BoundsTyped DEF Record, Order, NoRecord
  <2> HIDE DEF new
  <2> QED
    BY <1>1, <2>1, <2>2, <2>3
<1> QED
  BY <1>2, <1>3

LEMMA ConfirmWriteBase ==
    ASSUME Base, NEW w \in Confirmers, ConfirmWrite(w)
    PROVE  Base'
<1> DEFINE h == conf[w].h
           o == uni[h].order
<1>1. h \in Hashes /\ uni[h].state \in {"confirmed", "disputed"}
  BY DEF ConfirmWrite, Base, ConfirmedByUnipay
<1>2. o \in OrderIds /\ o <= nOrder
  <2>1. o # 0 /\ o \in 0..MaxOrders /\ o <= nOrder
    BY <1>1 DEF Base, PaymentsAgree, TypeOK, UniPayment
  <2> QED
    BY <2>1, BoundsTyped DEF OrderIds
<1>3. /\ order \in [OrderIds -> Order] /\ couponSet \in [OrderIds -> CouponSet]
      /\ pay \in [Hashes -> Payment] /\ conf[w].ver \in Asked
      /\ conf \in [Confirmers -> [h : Hashes \cup {NoHash}, ver : Asked]]
      /\ nOrder \in Nat /\ nRec \in Nat
  BY BoundsTyped DEF Base, TypeOK
<1>4. /\ RecordOfPaidOrder(o, conf[w].ver)
      /\ couponSet' = SetOfPaidOrder(o)
      /\ order' = [order EXCEPT ![o] = PaidOrder(order[o])]
      /\ conf' = [conf EXCEPT ![w] = ConfIdle]
      /\ UNCHANGED <<nOrder, used, env, uni, locked, make, chk, rfd>>
  BY <1>2, <1>3 DEF ConfirmWrite
<1>5. \A g \in Hashes : pay'[g] =
        IF g = h THEN [pay[g] EXCEPT !.order = o, !.status = "Confirmed", !.old = FALSE]
        ELSE IF pay[g].order = o /\ pay[g].status = "Pending"
        THEN [pay[g] EXCEPT !.status = "Rejected"]
        ELSE pay[g]
  BY DEF ConfirmWrite
<1> HIDE DEF h
<1>6. pay' \in [Hashes -> Payment]
  <2>1. pay' = [g \in Hashes |-> pay'[g]]
    BY DEF ConfirmWrite
  <2>2. \A g \in Hashes : pay'[g] \in Payment
    <3>1. \A p \in Payment :
            /\ [p EXCEPT !.order = o, !.status = "Confirmed", !.old = FALSE] \in Payment
            /\ [p EXCEPT !.status = "Rejected"] \in Payment
      BY <1>2, BoundsTyped DEF Payment
    <3> SUFFICES ASSUME NEW g \in Hashes PROVE pay'[g] \in Payment
      OBVIOUS
    <3>2. pay[g] \in Payment
      BY <1>3
    <3> HIDE DEF o
    <3>3. \/ pay'[g] = [pay[g] EXCEPT !.order = o, !.status = "Confirmed", !.old = FALSE]
          \/ pay'[g] = [pay[g] EXCEPT !.status = "Rejected"]
          \/ pay'[g] = pay[g]
      BY <1>5
    <3> QED
      BY <3>1, <3>2, <3>3
  <2> QED
    BY <2>1, <2>2
<1>7. order' \in [OrderIds -> Order]
  <2>1. \A p \in Order : /\ [p EXCEPT !.pay = "Paid", !.status = "Success"] \in Order
                         /\ [p EXCEPT !.pay = "Paid"] \in Order
    BY DEF Order
  <2>2. PaidOrder(order[o]) \in Order
    BY <1>2, <1>3, <2>1 DEF PaidOrder
  <2> QED
    BY <1>3, <1>4, <2>2
<1>8. /\ couponSet' \in [OrderIds -> CouponSet]
      /\ \A p \in OrderIds : p # o => couponSet'[p] = couponSet[p]
  <2> DEFINE set == [couponSet[o] EXCEPT !.status = "Success",
                                         !.codes = IF @ = 2 THEN 2 ELSE @ + 1]
  <2>1. set \in CouponSet
    <3>1. couponSet[o] \in CouponSet
      BY <1>2, <1>3
    <3>2. couponSet[o].codes \in 0..2
      BY <3>1 DEF CouponSet
    <3>3. (IF couponSet[o].codes = 2 THEN 2 ELSE couponSet[o].codes + 1) \in 0..2
      BY <3>2
    <3> QED
      BY <3>1, <3>3 DEF CouponSet
  <2>2. MakeCodes(o) = [couponSet EXCEPT ![o] = set]
    BY <1>2, <1>3 DEF MakeCodes
  <2> HIDE DEF set
  <2> QED
    BY <1>2, <1>3, <1>4, <2>1, <2>2 DEF SetOfPaidOrder
<1>9. /\ rec' \in [RecIds -> Record] /\ nRec' \in 0..MaxRecs
      /\ \A r \in RecIds : r > nRec' => r > nRec /\ rec'[r] = rec[r]
  <2>1. CASE UNCHANGED <<rec, nRec>>
    BY <2>1 DEF Base, TypeOK
  <2>2. CASE CreateRecord(o, conf[w].ver)
    <3> HIDE DEF o
    <3>1. TypeOK
      BY DEF Base
    <3>2. /\ rec' \in [RecIds -> Record] /\ nRec' \in 0..MaxRecs
          /\ \/ UNCHANGED <<rec, nRec>>
             \/ /\ nRec' = nRec + 1
                /\ \A r \in RecIds : r # nRec + 1 => rec'[r] = rec[r]
      BY <1>2, <1>3, <2>2, <3>1, CreateRecordTyped
    <3> QED
      BY <1>3, <3>2, BoundsTyped
  <2> QED
    BY <1>4, <2>1, <2>2 DEF RecordOfPaidOrder
<1>10. TypeOK'
  BY <1>3, <1>4, <1>6, <1>7, <1>8, <1>9, IdleTyped DEF Base, TypeOK, env
<1>11. UnusedIds'
  <2>1. \A p \in OrderIds : p > nOrder' =>
          p > nOrder /\ order'[p] = order[p] /\ couponSet'[p] = couponSet[p]
    BY <1>2, <1>3, <1>4, <1>8, BoundsTyped
  <2> QED
    BY <1>9, <2>1 DEF Base, UnusedIds
<1>12. PaymentsAgree'
  <2> SUFFICES ASSUME NEW g \in Hashes
               PROVE  pay'[g].status # "Absent" =>
                        uni[g].order # 0 /\ pay'[g].order = uni[g].order
    BY <1>4 DEF Base, PaymentsAgree
  <2>1. CASE g = h
    BY <1>2, <1>3, <1>5, <2>1, BoundsTyped DEF Payment
  <2>2. CASE g # h
    BY <1>3, <1>5, <2>2 DEF Payment, Base, PaymentsAgree
  <2> QED
    BY <2>1, <2>2
<1>13. ConfirmedByUnipay' /\ PlacesLeft'
  BY <1>3, <1>4 DEF Base, ConfirmedByUnipay, PlacesLeft, Busy
<1> QED
  BY <1>10, <1>11, <1>12, <1>13 DEF Base

LEMMA ConfirmFailBase ==
    ASSUME Base, NEW w \in Confirmers, ConfirmFail(w)
    PROVE  Base'
<1>1. /\ conf' = [conf EXCEPT ![w] = ConfIdle]
      /\ UNCHANGED <<order, nOrder, pay, rec, nRec, coupons, env, uni, locked, make, chk, rfd>>
  BY DEF ConfirmFail
<1>2. conf \in [Confirmers -> [h : Hashes \cup {NoHash}, ver : Asked]]
  BY DEF Base, TypeOK
<1>3. TypeOK'
  BY <1>1, <1>2, IdleTyped DEF Base, TypeOK, env, coupons
<1>4. UnusedIds' /\ PaymentsAgree' /\ PlacesLeft' /\ ConfirmedByUnipay'
  BY <1>1, <1>2
  DEF Base, UnusedIds, PaymentsAgree, PlacesLeft, Busy, ConfirmedByUnipay, coupons
<1> QED
  BY <1>3, <1>4 DEF Base

-----------------------------------------------------------------------------
(* Base holds after every step: the order check and refunds *)

\* What the steps keep that leave the orders' rows and unipay's payments to others:
\* nobody but a confirmation pays an order, and no row gets another order.
LEMMA SettleKept ==
    ASSUME Base, order' \in [OrderIds -> Order], pay' \in [Hashes -> Payment],
           \A o \in OrderIds : /\ order'[o].action = order[o].action
                               /\ order'[o].pay = order[o].pay
                               /\ order'[o].coupon = order[o].coupon
                               /\ order'[o].raced = order[o].raced,
           \A h \in Hashes : /\ pay'[h].order = pay[h].order
                             /\ pay'[h].status = "Absent" <=> pay[h].status = "Absent",
           UNCHANGED <<nOrder, rec, nRec, coupons, env, uni, locked, make, conf>>
    PROVE  /\ UnusedIds' /\ PaymentsAgree' /\ PlacesLeft' /\ ConfirmedByUnipay'
           /\ (chk' \in [list : SUBSET OrderIds, o : 0..MaxOrders,
                         seen : {"none", "Default", "Closed", "Chain"}]
               /\ rfd' \in [pc : {"idle", "send", "mark"}, list : SUBSET Hashes]
               => Base')
<1>1. UnusedIds'
  BY DEF Base, UnusedIds, coupons
<1>2. PaymentsAgree'
  BY DEF Base, PaymentsAgree
<1>3. PlacesLeft' /\ ConfirmedByUnipay'
  BY DEF Base, PlacesLeft, Busy, ConfirmedByUnipay
<1>4. ASSUME chk' \in [list : SUBSET OrderIds, o : 0..MaxOrders,
                       seen : {"none", "Default", "Closed", "Chain"}],
             rfd' \in [pc : {"idle", "send", "mark"}, list : SUBSET Hashes]
      PROVE  TypeOK'
  BY <1>4 DEF Base, TypeOK, coupons, env
<1> QED
  BY <1>1, <1>2, <1>3, <1>4 DEF Base

Checking == [list : SUBSET OrderIds, o : 0..MaxOrders,
             seen : {"none", "Default", "Closed", "Chain"}]

LEMMA UpdateOrderStatusKeeps ==
    ASSUME Base, NEW o \in OrderIds, NEW new \in {"Success", "Fail"}, UpdateOrderStatus(o, new)
    PROVE  /\ order' \in [OrderIds -> Order] /\ pay' \in [Hashes -> Payment]
           /\ \A p \in OrderIds : /\ order'[p].action = order[p].action
                                  /\ order'[p].pay = order[p].pay
                                  /\ order'[p].coupon = order[p].coupon
                                  /\ order'[p].raced = order[p].raced
                                  /\ order[p].status = "Closed" => order'[p].status = "Closed"
           /\ \A h \in Hashes : pay'[h].order = pay[h].order /\ pay'[h].status = pay[h].status
<1>1. order \in [OrderIds -> Order] /\ pay \in [Hashes -> Payment]
  BY DEF Base, TypeOK
<1>2. /\ order' \in [OrderIds -> Order]
      /\ \A p \in OrderIds : /\ order'[p].action = order[p].action
                             /\ order'[p].pay = order[p].pay
                             /\ order'[p].coupon = order[p].coupon
                             /\ order'[p].raced = order[p].raced
                             /\ order[p].status = "Closed" => order'[p].status = "Closed"
  <2>1. \/ order' = order
        \/ order[o].status = "Default" /\ order' = [order EXCEPT ![o].status = new]
    BY DEF UpdateOrderStatus
  <2>2. \A p \in Order : [p EXCEPT !.status = new] \in Order
    BY DEF Order
  <2>3. [order EXCEPT ![o].status = new] \in [OrderIds -> Order]
    BY <1>1, <2>2
  <2>4. ASSUME NEW p \in OrderIds
        PROVE  /\ order'[p].action = order[p].action
               /\ order'[p].pay = order[p].pay
               /\ order'[p].coupon = order[p].coupon
               /\ order'[p].raced = order[p].raced
               /\ order[p].status = "Closed" => order'[p].status = "Closed"
    <3>1. \/ order'[p] = order[p]
          \/ order[p].status = "Default" /\ order'[p] = [order[p] EXCEPT !.status = new]
      BY <1>1, <2>1
    <3>2. order[p] \in Order
      BY <1>1
    <3> QED
      BY <3>1, <3>2 DEF Order
  <2> QED
    BY <1>1, <2>1, <2>3, <2>4
<1>3. \A h \in Hashes : pay'[h] = pay[h] \/ pay'[h] = [pay[h] EXCEPT !.refund = "UnRefund"]
  BY DEF UpdateOrderStatus
<1>4. \A p \in Payment : /\ [p EXCEPT !.refund = "UnRefund"] \in Payment
                         /\ [p EXCEPT !.refund = "UnRefund"].order = p.order
                         /\ [p EXCEPT !.refund = "UnRefund"].status = p.status
  BY DEF Payment
<1>5. pay' = [h \in Hashes |-> pay'[h]]
  BY DEF UpdateOrderStatus
<1>6. ASSUME NEW h \in Hashes
      PROVE  pay'[h] \in Payment /\ pay'[h].order = pay[h].order /\ pay'[h].status = pay[h].status
  <2>1. pay[h] \in Payment
    BY <1>1
  <2> QED
    BY <1>3, <1>4, <2>1
<1> QED
  BY <1>2, <1>5, <1>6

LEMMA CheckBase ==
    ASSUME Base, Check \/ OrderCheckFail
    PROVE  Base'
<1>1. /\ order \in [OrderIds -> Order] /\ pay \in [Hashes -> Payment]
      /\ rec \in [RecIds -> Record] /\ chk \in Checking
      /\ rfd \in [pc : {"idle", "send", "mark"}, list : SUBSET Hashes]
  BY DEF Base, TypeOK, Checking
<1>2. ChkIdle \in Checking /\ \A l \in SUBSET OrderIds : [ChkIdle EXCEPT !.list = l] \in Checking
  BY IdleTyped DEF Checking, ChkIdle
<1> DEFINE Same == /\ UNCHANGED ChkUnchanged /\ chk' \in Checking
                   /\ \/ UNCHANGED <<order, pay>>
                      \/ \E o \in OrderIds, new \in {"Success", "Fail"} :
                           UpdateOrderStatus(o, new)
<1>3. ASSUME Same PROVE Base'
  <2>1. /\ order' \in [OrderIds -> Order] /\ pay' \in [Hashes -> Payment]
        /\ \A o \in OrderIds : /\ order'[o].action = order[o].action
                               /\ order'[o].pay = order[o].pay
                               /\ order'[o].coupon = order[o].coupon
                               /\ order'[o].raced = order[o].raced
        /\ \A h \in Hashes : pay'[h].order = pay[h].order /\ pay'[h].status = pay[h].status
    BY <1>1, <1>3, UpdateOrderStatusKeeps
  <2>2. UNCHANGED <<nOrder, rec, nRec, coupons, env, uni, locked, make, conf>> /\ rfd' = rfd
    BY <1>3 DEF ChkUnchanged
  <2> QED
    BY <1>1, <1>3, <2>1, <2>2, SettleKept DEF Checking
<1>4. CASE OrderCheckList
  <2>1. GetNeedCheckOrderList \subseteq OrderIds
    BY DEF GetNeedCheckOrderList, Oldest, Unsettled
  <2> QED
    BY <1>2, <1>3, <1>4, <2>1 DEF OrderCheckList
<1>5. ASSUME NEW o \in OrderIds, OrderCheckRecord(o) PROVE Base'
  <2> DEFINE rs == GetSmtRecordByOrderId(o)
             seen == IF rs = {} THEN "none" ELSE rec[Max(rs)].type
  <2>1. seen \in {"none", "Default", "Closed", "Chain"}
    <3>1. CASE rs = {}
      BY <3>1
    <3>2. CASE rs # {}
      <4>1. Max(rs) \in RecIds
        BY <3>2, LatestExists DEF GetSmtRecordByOrderId
      <4> QED
        BY <1>1, <3>2, <4>1 DEF Record
    <3> QED
      BY <3>1, <3>2
  <2>2. chk' = [chk EXCEPT !.o = o, !.seen = seen]
    BY <1>5 DEF OrderCheckRecord
  <2> HIDE DEF seen
  <2>3. chk' \in Checking
    BY <1>1, <2>1, <2>2, BoundsTyped DEF Checking
  <2> QED
    BY <1>3, <1>5, <2>3 DEF OrderCheckRecord
<1>6. CASE OrderCheckMint
  <2>1. chk.o \in OrderIds
    BY <1>1, <1>6, BoundsTyped DEF OrderCheckMint, Checking, OrderIds
  <2>2. \/ UNCHANGED <<order, pay>>
        \/ \E new \in {"Success", "Fail"} : UpdateOrderStatus(chk.o, new)
    <3>1. MintOutcome(chk.seen) \in {"Success", "Fail"}
      BY DEF MintOutcome
    <3> QED
      BY <1>6, <3>1 DEF OrderCheckMint
  <2>3. chk' = [ChkIdle EXCEPT !.list = chk.list \ {chk.o}] /\ UNCHANGED ChkUnchanged
    BY <1>6 DEF OrderCheckMint, CheckDone
  <2>4. chk' \in Checking
    BY <1>1, <1>2, <2>3 DEF Checking
  <2> QED
    BY <1>3, <2>1, <2>2, <2>3, <2>4
<1>7. ASSUME NEW o \in OrderIds, OrderCheckRenew(o) PROVE Base'
  <2>1. \/ UNCHANGED <<order, pay>>
        \/ \E new \in {"Success", "Fail"} : UpdateOrderStatus(o, new)
    BY <1>7 DEF OrderCheckRenew
  <2>2. chk' = [ChkIdle EXCEPT !.list = chk.list \ {o}] /\ UNCHANGED ChkUnchanged
    BY <1>7 DEF OrderCheckRenew, CheckDone
  <2>3. chk' \in Checking
    BY <1>1, <1>2, <2>2 DEF Checking
  <2> QED
    BY <1>3, <2>1, <2>2, <2>3
<1>8. CASE OrderCheckFail
  BY <1>2, <1>3, <1>8 DEF OrderCheckFail
<1> QED
  BY <1>4, <1>5, <1>6, <1>7, <1>8 DEF Check

\* A refund status is written to payments that stay what they are.
LEMMA RefundStatusKept ==
    ASSUME Base, NEW s \in {"Refunding", "Refunded"},
           pay' = [h \in Hashes |-> pay'[h]],
           \A h \in Hashes : pay'[h] = pay[h] \/ pay'[h] = [pay[h] EXCEPT !.refund = s]
    PROVE  /\ pay' \in [Hashes -> Payment]
           /\ \A h \in Hashes : pay'[h].order = pay[h].order /\ pay'[h].status = pay[h].status
<1>1. \A p \in Payment : /\ [p EXCEPT !.refund = s] \in Payment
                         /\ [p EXCEPT !.refund = s].order = p.order
                         /\ [p EXCEPT !.refund = s].status = p.status
  BY DEF Payment
<1>2. ASSUME NEW h \in Hashes
      PROVE  pay'[h] \in Payment /\ pay'[h].order = pay[h].order /\ pay'[h].status = pay[h].status
  <2>1. pay[h] \in Payment
    BY DEF Base, TypeOK
  <2> QED
    BY <1>1, <2>1
<1> QED
  BY <1>2

LEMMA RefundBase ==
    ASSUME Base, Refund \/ RefundFail
    PROVE  Base'
<1>1. /\ order \in [OrderIds -> Order] /\ pay \in [Hashes -> Payment]
      /\ uni \in [Hashes -> UniPayment] /\ chk \in Checking
      /\ rfd \in [pc : {"idle", "send", "mark"}, list : SUBSET Hashes]
  BY DEF Base, TypeOK, Checking
<1>2. ASSUME UNCHANGED <<pay, uni>>, UNCHANGED RfdUnchanged,
             rfd' \in [pc : {"idle", "send", "mark"}, list : SUBSET Hashes]
      PROVE  Base'
  BY <1>1, <1>2, SettleKept DEF RfdUnchanged, Checking
<1>3. CASE RefundList
  <2>1. GetUnRefundList \subseteq Hashes
    BY DEF GetUnRefundList
  <2> QED
    BY <1>2, <1>3, <2>1 DEF RefundList
<1>4. CASE RefundOrder
  <2>1. \A h \in Hashes : uni'[h] = uni[h] \/ uni'[h] = [uni[h] EXCEPT !.refund = "asked"]
    BY <1>4 DEF RefundOrder
  <2>2. \A u \in UniPayment : /\ [u EXCEPT !.refund = "asked"] \in UniPayment
                              /\ [u EXCEPT !.refund = "asked"].order = u.order
                              /\ [u EXCEPT !.refund = "asked"].state = u.state
    BY DEF UniPayment
  <2>3. ASSUME NEW h \in Hashes
        PROVE  uni'[h] \in UniPayment /\ uni'[h].order = uni[h].order /\ uni'[h].state = uni[h].state
    <3>1. uni[h] \in UniPayment
      BY <1>1
    <3> QED
      BY <2>1, <2>2, <3>1
  <2>4. uni' = [h \in Hashes |-> uni'[h]]
    BY <1>4 DEF RefundOrder
  <2>5. uni' \in [Hashes -> UniPayment]
    BY <2>3, <2>4
  <2>6. /\ rfd' \in [pc : {"idle", "send", "mark"}, list : SUBSET Hashes]
        /\ pay' = pay /\ UNCHANGED RfdUnchanged
    <3>1. [rfd EXCEPT !.pc = "mark"] \in [pc : {"idle", "send", "mark"}, list : SUBSET Hashes]
      BY <1>1
    <3> QED
      BY <1>4, <3>1, IdleTyped DEF RefundOrder
  <2>7. TypeOK'
    BY <2>5, <2>6 DEF Base, TypeOK, RfdUnchanged, coupons, env
  <2>8. UnusedIds' /\ PlacesLeft'
    BY <2>6 DEF Base, UnusedIds, PlacesLeft, Busy, RfdUnchanged, coupons
  <2>9. PaymentsAgree' /\ ConfirmedByUnipay'
    BY <2>3, <2>6 DEF Base, PaymentsAgree, ConfirmedByUnipay, RfdUnchanged
  <2> QED
    BY <2>7, <2>8, <2>9 DEF Base
<1>5. CASE UpdateRefundStatusToRefundIng
  <2>1. pay' = [h \in Hashes |-> pay'[h]] /\ \A h \in Hashes :
          pay'[h] = pay[h] \/ pay'[h] = [pay[h] EXCEPT !.refund = "Refunding"]
    BY <1>5 DEF UpdateRefundStatusToRefundIng
  <2>2. /\ pay' \in [Hashes -> Payment]
        /\ \A h \in Hashes : pay'[h].order = pay[h].order /\ pay'[h].status = pay[h].status
    BY <2>1, RefundStatusKept
  <2>3. /\ rfd' = RfdIdle
        /\ UNCHANGED <<order, nOrder, rec, nRec, coupons, env, uni, locked, make, conf, chk>>
    BY <1>5 DEF UpdateRefundStatusToRefundIng, RfdUnchanged
  <2> QED
    BY <1>1, <2>2, <2>3, IdleTyped, SettleKept DEF Checking
<1>6. CASE RefundFail
  BY <1>2, <1>6, IdleTyped DEF RefundFail
<1> QED
  BY <1>3, <1>4, <1>5, <1>6 DEF Refund

LEMMA NoticesBase ==
    ASSUME Base, Notices
    PROVE  Base'
<1>1. /\ order \in [OrderIds -> Order] /\ pay \in [Hashes -> Payment] /\ chk \in Checking
      /\ rfd \in [pc : {"idle", "send", "mark"}, list : SUBSET Hashes]
  BY DEF Base, TypeOK, Checking
<1>2. ASSUME NEW h \in Hashes, UpdateRefundStatusToRefunded(h) PROVE Base'
  <2>1. pay' = [g \in Hashes |-> pay'[g]] /\ \A g \in Hashes :
          pay'[g] = pay[g] \/ pay'[g] = [pay[g] EXCEPT !.refund = "Refunded"]
    BY <1>1, <1>2 DEF UpdateRefundStatusToRefunded
  <2>2. /\ pay' \in [Hashes -> Payment]
        /\ \A g \in Hashes : pay'[g].order = pay[g].order /\ pay'[g].status = pay[g].status
    BY <2>1, RefundStatusKept
  <2>3. UNCHANGED <<order, nOrder, rec, nRec, coupons, env, uni, locked, make, conf, chk, rfd>>
    BY <1>2 DEF UpdateRefundStatusToRefunded, memory
  <2> QED
    BY <1>1, <2>2, <2>3, SettleKept DEF Checking
<1>3. ASSUME NEW h \in Hashes, UpdatePayHashStatusToFailByDispute(h) PROVE Base'
  <2> DEFINE o == uni[h].order
  <2>1. order' = order \/ order' = [order EXCEPT ![o].status = "Fail"]
    BY <1>3 DEF UpdatePayHashStatusToFailByDispute
  <2>2. \A p \in Order : [p EXCEPT !.status = "Fail"] \in Order
    BY DEF Order
  <2>3. /\ order' \in [OrderIds -> Order]
        /\ \A p \in OrderIds : /\ order'[p].action = order[p].action
                               /\ order'[p].pay = order[p].pay
                               /\ order'[p].coupon = order[p].coupon
                               /\ order'[p].raced = order[p].raced
    <3>1. [order EXCEPT ![o].status = "Fail"] \in [OrderIds -> Order]
      BY <1>1, <2>2
    <3>2. ASSUME NEW p \in OrderIds
          PROVE  /\ order'[p].action = order[p].action
                 /\ order'[p].pay = order[p].pay
                 /\ order'[p].coupon = order[p].coupon
                 /\ order'[p].raced = order[p].raced
      <4>1. order'[p] = order[p] \/ order'[p] = [order[p] EXCEPT !.status = "Fail"]
        BY <1>1, <2>1
      <4>2. order[p] \in Order
        BY <1>1
      <4> QED
        BY <4>1, <4>2 DEF Order
    <3> QED
      BY <1>1, <2>1, <3>1, <3>2
  <2>4. pay' = pay \/ (pay' = [pay EXCEPT ![h].status = "Dispute"] /\ pay[h].status = "Confirmed")
    BY <1>3 DEF UpdatePayHashStatusToFailByDispute
  <2>5. /\ pay' \in [Hashes -> Payment]
        /\ \A g \in Hashes : /\ pay'[g].order = pay[g].order
                             /\ pay'[g].status = "Absent" <=> pay[g].status = "Absent"
    <3>1. [pay[h] EXCEPT !.status = "Dispute"] \in Payment
      BY <1>1 DEF Payment
    <3>2. [pay EXCEPT ![h].status = "Dispute"] \in [Hashes -> Payment]
      BY <1>1, <3>1
    <3>3. ASSUME NEW g \in Hashes
          PROVE  /\ pay'[g].order = pay[g].order
                 /\ pay'[g].status = "Absent" <=> pay[g].status = "Absent"
      <4>1. \/ pay'[g] = pay[g]
            \/ /\ pay'[g] = [pay[g] EXCEPT !.status = "Dispute"]
               /\ pay[g].status = "Confirmed"
        BY <1>1, <2>4
      <4>2. pay[g] \in Payment
        BY <1>1
      <4> QED
        BY <4>1, <4>2 DEF Payment
    <3> QED
      BY <1>1, <2>4, <3>2, <3>3
  <2>6. UNCHANGED <<nOrder, rec, nRec, coupons, env, uni, locked, make, conf, chk, rfd>>
    BY <1>3 DEF UpdatePayHashStatusToFailByDispute, memory
  <2> QED
    BY <1>1, <2>3, <2>5, <2>6, SettleKept DEF Checking
<1> QED
  BY <1>2, <1>3 DEF Notices, NoticeRefunded, PollRefunded

-----------------------------------------------------------------------------
(* Base holds after every step: clients, unipay, the pipeline, the environment *)

LEMMA UniStateKept ==
    ASSUME Base, NEW h \in Hashes, NEW u \in UniPayment, uni' = [uni EXCEPT ![h] = u],
           u.order \in 0..nOrder, u.state # "none" => u.order # 0,
           u.order = uni[h].order \/ uni[h].order = 0,
           uni[h].state \in {"confirmed", "disputed"} => u.state \in {"confirmed", "disputed"},
           UNCHANGED UniUnchanged
    PROVE  Base'
<1>1. uni \in [Hashes -> UniPayment] /\ nOrder \in Nat
  BY BoundsTyped DEF Base, TypeOK
<1>2. uni' \in [Hashes -> UniPayment] /\ \A g \in Hashes : uni'[g] = IF g = h THEN u ELSE uni[g]
  BY <1>1
<1>3. TypeOK'
  BY <1>2 DEF Base, TypeOK, UniUnchanged, coupons, env, memory
<1>4. UnusedIds' /\ PlacesLeft'
  BY DEF Base, UnusedIds, PlacesLeft, Busy, UniUnchanged, coupons, memory
<1>5. PaymentsAgree'
  BY <1>1, <1>2 DEF Base, PaymentsAgree, UniUnchanged
<1>6. ConfirmedByUnipay'
  BY <1>2 DEF Base, ConfirmedByUnipay, UniUnchanged, memory
<1> QED
  BY <1>3, <1>4, <1>5, <1>6 DEF Base

LEMMA UnipayBase ==
    ASSUME Base, Unipay \/ \E h \in Hashes : MakePayment(h)
    PROVE  Base'
<1>1. uni \in [Hashes -> UniPayment] /\ nOrder \in 0..MaxOrders /\ PaymentsAgree
  BY DEF Base, TypeOK
<1>2. ASSUME NEW h \in Hashes, NEW o \in 1..nOrder, uni[h].state = "none", uni[h].order \in {0, o},
             uni' = [uni EXCEPT ![h].order = o, ![h].state = "made"], UNCHANGED UniUnchanged
      PROVE  Base'
  <2> DEFINE u == [uni[h] EXCEPT !.order = o, !.state = "made"]
  <2>1. u \in UniPayment /\ u.order = o /\ u.state = "made" /\ o \in 0..nOrder /\ o # 0
    <3>1. o \in 0..nOrder /\ o # 0 /\ o \in 0..MaxOrders
      BY <1>1, BoundsTyped
    <3>2. uni[h] \in UniPayment
      BY <1>1
    <3> QED
      BY <3>1, <3>2 DEF UniPayment
  <2>2. uni' = [uni EXCEPT ![h] = u]
    BY <1>1, <1>2
  <2> HIDE DEF u
  <2> QED
    BY <1>2, <2>1, <2>2, UniStateKept
<1>3. ASSUME NEW h \in Hashes, NEW s \in {"confirmed", "disputed"}, uni[h].state # "none",
             uni' = [uni EXCEPT ![h].state = s], UNCHANGED UniUnchanged
      PROVE  Base'
  <2> DEFINE u == [uni[h] EXCEPT !.state = s]
  <2>1. u \in UniPayment /\ u.order = uni[h].order /\ u.state = s
    BY <1>1 DEF UniPayment
  <2>2. uni[h].order \in 0..nOrder /\ uni[h].order # 0
    BY <1>1, <1>3, BoundsTyped DEF PaymentsAgree, UniPayment
  <2>3. uni' = [uni EXCEPT ![h] = u]
    BY <1>1, <1>3
  <2> HIDE DEF u
  <2> QED
    BY <1>3, <2>1, <2>2, <2>3, UniStateKept
<1>4. ASSUME NEW h \in Hashes, UniRefund(h) PROVE Base'
  <2> DEFINE u == [uni[h] EXCEPT !.refund = "done"]
  <2>1. u \in UniPayment /\ u.order = uni[h].order /\ u.state = uni[h].state
    BY <1>1 DEF UniPayment
  <2>2. uni[h].order \in 0..nOrder /\ (uni[h].state # "none" => uni[h].order # 0)
    BY <1>1, BoundsTyped DEF PaymentsAgree, UniPayment
  <2>3. uni' = [uni EXCEPT ![h] = u] /\ UNCHANGED UniUnchanged
    BY <1>1, <1>4 DEF UniRefund
  <2> HIDE DEF u
  <2> QED
    BY <2>1, <2>2, <2>3, UniStateKept
<1>5. ASSUME NEW h \in Hashes, MakePayment(h) PROVE Base'
  BY <1>2, <1>5 DEF MakePayment
<1>6. ASSUME NEW h \in Hashes, UniSettle(h) PROVE Base'
  BY <1>3, <1>6 DEF UniSettle
<1> QED
  BY <1>4, <1>5, <1>6 DEF Unipay

LEMMA PipelineBase ==
    ASSUME Base, Pipeline
    PROVE  Base'
<1>1. /\ rec \in [RecIds -> Record] /\ nRec \in 0..MaxRecs
      /\ synced \in [Accounts -> Versions] /\ chain \in [Accounts -> Versions]
      /\ spent \in [others : 0..MaxOthers, crash : 0..MaxCrash]
      /\ \A r \in RecIds : r > nRec => rec[r] = NoRecord
  BY DEF Base, TypeOK, UnusedIds
<1>2. ASSUME rec' \in [RecIds -> Record], nRec' \in 0..MaxRecs,
             synced' \in [Accounts -> Versions], chain' \in [Accounts -> Versions],
             spent' \in [others : 0..MaxOthers, crash : 0..MaxCrash],
             \A r \in RecIds : r > nRec' => rec'[r] = NoRecord,
             UNCHANGED <<order, nOrder, pay, coupons, uni, locked, memory>>
      PROVE  Base'
  <2>1. TypeOK'
    BY <1>2 DEF Base, TypeOK, coupons, memory
  <2>2. UnusedIds' /\ PlacesLeft' /\ PaymentsAgree' /\ ConfirmedByUnipay'
    BY <1>2
    DEF Base, UnusedIds, PlacesLeft, Busy, PaymentsAgree, ConfirmedByUnipay, coupons, memory
  <2> QED
    BY <2>1, <2>2 DEF Base
<1>3. ASSUME NEW a \in Accounts, OtherRecord(a) PROVE Base'
  <2> DEFINE v == synced[a] + 1
             new == [NoRecord EXCEPT !.acc = a, !.ver = v,
                                     !.action = IF v = 1 THEN "Mint" ELSE "Edit"]
  <2>1. new \in Record
    <3>1. v \in Asked
      BY <1>1, BoundsTyped
    <3> HIDE DEF v
    <3> QED
      BY <3>1, NothingTyped DEF Record, Actions, NoRecord
  <2>2. /\ rec' = [rec EXCEPT ![nRec + 1] = new] /\ nRec' = nRec + 1 /\ nRec < MaxRecs
        /\ spent' = [spent EXCEPT !.others = spent.others + 1] /\ spent.others < MaxOthers
        /\ UNCHANGED <<order, nOrder, pay, coupons, synced, chain, uni, locked, memory>>
    BY <1>3 DEF OtherRecord
  <2> HIDE DEF new
  <2>3. /\ rec' \in [RecIds -> Record] /\ nRec' \in 0..MaxRecs
        /\ \A r \in RecIds : r > nRec' => rec'[r] = NoRecord
    <3>1. nRec + 1 \in RecIds /\ nRec' \in 0..MaxRecs /\ nRec \in Nat
      BY <1>1, <2>2, BoundsTyped
    <3>2. \A r \in RecIds : r > nRec' => r > nRec /\ rec'[r] = rec[r]
      BY <1>1, <2>2, <3>1, BoundsTyped
    <3> QED
      BY <1>1, <2>1, <2>2, <3>1, <3>2
  <2>4. spent' \in [others : 0..MaxOthers, crash : 0..MaxCrash]
    <3>1. spent.others + 1 \in 0..MaxOthers
      BY <1>1, <2>2, BoundsTyped
    <3> QED
      BY <1>1, <2>2, <3>1
  <2> QED
    BY <1>1, <1>2, <2>2, <2>3, <2>4
<1>4. ASSUME NEW a \in Accounts, SyncAccount(a) PROVE Base'
  <2>1. synced' \in [Accounts -> Versions]
    BY <1>1, <1>4, BoundsTyped DEF SyncAccount, Versions
  <2> QED
    BY <1>1, <1>2, <1>4, <2>1 DEF SyncAccount, PipeUnchanged
<1>5. ASSUME NEW r \in RecIds, RecordCommits(r) PROVE Base'
  <2> DEFINE a == rec[r].acc
             new == [rec[r] EXCEPT !.onChain = TRUE]
  <2>1. a \in Accounts /\ new \in Record
    BY <1>1 DEF Record
  <2>2. /\ rec' = [rec EXCEPT ![r] = new] /\ rec[r].action # "Absent"
        /\ chain' = [chain EXCEPT ![a] = chain[a] + 1] /\ chain[a] < MaxVer
        /\ UNCHANGED <<nRec, synced, PipeUnchanged>>
    BY <1>1, <1>5, <2>1 DEF RecordCommits
  <2>3. chain' \in [Accounts -> Versions]
    BY <1>1, <2>1, <2>2, BoundsTyped DEF Versions
  <2>4. rec[r] # NoRecord
    BY <2>2 DEF NoRecord
  <2> HIDE DEF new
  <2>5. rec' \in [RecIds -> Record] /\ \A s \in RecIds : s > nRec => rec'[s] = NoRecord
    BY <1>1, <2>1, <2>2, <2>4
  <2> QED
    BY <1>1, <1>2, <2>2, <2>3, <2>5 DEF PipeUnchanged
<1>6. ASSUME NEW r \in RecIds, RecordToChain(r) PROVE Base'
  <2> DEFINE new == [rec[r] EXCEPT !.type = "Chain"]
  <2>1. new \in Record /\ rec' = [rec EXCEPT ![r] = new] /\ (rec[r].onChain \/ rec[r].open)
    BY <1>1, <1>6 DEF Record, RecordToChain
  <2>2. rec[r] # NoRecord
    BY <2>1 DEF NoRecord
  <2> HIDE DEF new
  <2>3. rec' \in [RecIds -> Record] /\ \A s \in RecIds : s > nRec => rec'[s] = NoRecord
    BY <1>1, <2>1, <2>2
  <2> QED
    BY <1>1, <1>2, <1>6, <2>3 DEF RecordToChain, PipeUnchanged
<1>7. ASSUME NEW r \in RecIds, NEW open \in BOOLEAN, RecordToClosed(r, open) PROVE Base'
  <2>1. /\ rec' = [s \in RecIds |-> rec'[s]]
        /\ rec[r].action # "Absent"
        /\ \A s \in RecIds : \/ /\ s = r
                                /\ rec'[s] = [rec[s] EXCEPT !.type = "Closed", !.open = open]
                             \/ rec'[s] = NoRecord
                             \/ rec'[s] = rec[s]
    BY <1>7 DEF RecordToClosed
  <2>2. \A q \in Record : [q EXCEPT !.type = "Closed", !.open = open] \in Record
    BY DEF Record
  <2>3. \A s \in RecIds : rec'[s] \in Record
    BY <1>1, <2>1, <2>2, NothingTyped
  <2>4. rec' \in [RecIds -> Record]
    BY <2>1, <2>3
  <2>5. rec[r] # NoRecord
    <3>1. rec[r].action # "Absent"
      BY <2>1
    <3> QED
      BY <3>1 DEF NoRecord
  <2>6. \A s \in RecIds : s > nRec => rec'[s] = NoRecord
    BY <1>1, <2>1, <2>5
  <2> QED
    BY <1>1, <1>2, <1>7, <2>4, <2>6 DEF RecordToClosed, PipeUnchanged
<1> QED
  BY <1>3, <1>4, <1>5, <1>6, <1>7 DEF Pipeline

LEMMA EnvironmentBase ==
    ASSUME Base, Environment
    PROVE  Base'
<1>1. /\ order \in [OrderIds -> Order] /\ pay \in [Hashes -> Payment]
      /\ chk \in Checking /\ locked \subseteq LockKeys
      /\ rfd \in [pc : {"idle", "send", "mark"}, list : SUBSET Hashes]
  BY DEF Base, TypeOK, Checking
<1>2. ASSUME NEW o \in OrderIds, GrowOld(o) PROVE Base'
  <2>1. /\ order' = [order EXCEPT ![o].old = TRUE]
        /\ pay' = [h \in Hashes |-> pay'[h]]
        /\ \A h \in Hashes : pay'[h] = pay[h] \/ pay'[h] = [pay[h] EXCEPT !.old = TRUE]
        /\ UNCHANGED <<nOrder, rec, nRec, coupons, env, uni, locked, make, conf, chk, rfd>>
    BY <1>2 DEF GrowOld, memory
  <2>2. /\ order' \in [OrderIds -> Order]
        /\ \A p \in OrderIds : /\ order'[p].action = order[p].action
                               /\ order'[p].pay = order[p].pay
                               /\ order'[p].coupon = order[p].coupon
                               /\ order'[p].raced = order[p].raced
    <3>1. [order[o] EXCEPT !.old = TRUE] \in Order
      <4>1. order[o] \in Order
        BY <1>1
      <4> QED
        BY <4>1 DEF Order
    <3>2. order' = [order EXCEPT ![o] = [order[o] EXCEPT !.old = TRUE]]
      BY <1>1, <2>1
    <3>3. /\ [order[o] EXCEPT !.old = TRUE].action = order[o].action
          /\ [order[o] EXCEPT !.old = TRUE].pay = order[o].pay
          /\ [order[o] EXCEPT !.old = TRUE].coupon = order[o].coupon
          /\ [order[o] EXCEPT !.old = TRUE].raced = order[o].raced
      BY <1>1 DEF Order
    <3> QED
      BY <1>1, <3>1, <3>2, <3>3
  <2>3. ASSUME NEW h \in Hashes
        PROVE  pay'[h] \in Payment /\ pay'[h].order = pay[h].order /\ pay'[h].status = pay[h].status
    <3>1. pay[h] \in Payment
      BY <1>1
    <3> QED
      BY <2>1, <3>1 DEF Payment
  <2>4. pay' \in [Hashes -> Payment]
    BY <2>1, <2>3
  <2> QED
    BY <1>1, <2>1, <2>2, <2>3, <2>4, SettleKept DEF Checking
<1>3. ASSUME NEW k \in LockKeys, LockExpire(k) PROVE Base'
  <2>1. /\ locked' \subseteq LockKeys
        /\ UNCHANGED <<order, nOrder, pay, rec, nRec, coupons, env, uni, make, conf, chk, rfd>>
    BY <1>1, <1>3 DEF LockExpire, memory
  <2>2. PlacesLeft' /\ make' \in [Addrs -> Making]
    BY <2>1 DEF Base, PlacesLeft, Busy, TypeOK, Making
  <2> QED
    BY <2>1, <2>2, TablesKept
<1>4. CASE Crash
  <2>1. /\ make' = [d \in Addrs |-> MakeIdle] /\ conf' = [w \in Confirmers |-> ConfIdle]
        /\ chk' = ChkIdle /\ rfd' = RfdIdle
        /\ spent' = [spent EXCEPT !.crash = spent.crash + 1] /\ spent.crash < MaxCrash
        /\ UNCHANGED <<order, nOrder, pay, rec, nRec, coupons, synced, chain, uni, locked>>
    BY <1>4 DEF Crash
  <2>2. spent' \in [others : 0..MaxOthers, crash : 0..MaxCrash]
    <3>1. spent \in [others : 0..MaxOthers, crash : 0..MaxCrash]
      BY DEF Base, TypeOK
    <3>2. spent.crash + 1 \in 0..MaxCrash
      BY <2>1, <3>1, BoundsTyped
    <3> QED
      BY <2>1, <3>1, <3>2
  <2>3. make' \in [Addrs -> Making]
    BY <2>1, MakeIdleTyped
  <2>4. TypeOK'
    BY <2>1, <2>2, <2>3, IdleTyped DEF Base, TypeOK, coupons, Making
  <2>5. PlacesLeft'
    <3>1. Busy' = {} /\ nOrder \in 0..MaxOrders
      BY <2>1, MakeIdleTyped DEF Busy, Base, TypeOK
    <3>2. \A d \in Addrs : make'[d].old = 0 /\ make'[d].pc # "lock"
      BY <2>1, MakeIdleTyped
    <3> QED
      BY <2>1, <3>1, <3>2, FS_EmptySet, BoundsTyped DEF PlacesLeft
  <2>6. UnusedIds' /\ PaymentsAgree' /\ ConfirmedByUnipay'
    BY <2>1 DEF Base, UnusedIds, PaymentsAgree, ConfirmedByUnipay, coupons
  <2> QED
    BY <2>4, <2>5, <2>6 DEF Base
<1> QED
  BY <1>2, <1>3, <1>4 DEF Environment

LEMMA BaseStep ==
    ASSUME Base, [Next]_vars
    PROVE  Base'
<1>1. CASE UNCHANGED vars
  <2>1. TypeOK'
    BY <1>1 DEF Base, TypeOK, vars
  <2>2. PlacesLeft' /\ UnusedIds' /\ PaymentsAgree' /\ ConfirmedByUnipay'
    BY <1>1 DEF Base, vars, PlacesLeft, Busy, UnusedIds, PaymentsAgree, ConfirmedByUnipay
  <2> QED
    BY <2>1, <2>2 DEF Base
<1>2. CASE Orders
  BY <1>2, OrderCheckBase, OrderLockBase, OrderCreateBase, OrderFailBase,
     CouponOrderCheckBase, CouponOrderReadBase, CouponOrderCreateBase DEF Orders
<1>3. CASE Confirm
  BY <1>3, ConfirmReadBase, ConfirmWriteBase, ConfirmFailBase DEF Confirm
<1>4. CASE Clients
  BY <1>4, HashBase, UnipayBase DEF Clients
<1> QED
  BY <1>1, <1>2, <1>3, <1>4, CheckBase, RefundBase, NoticesBase, UnipayBase, PipelineBase,
     EnvironmentBase DEF Next

LEMMA BaseAlways == Spec => []Base
<1>1. Init => Base
  BY BaseInit
<1>2. Base /\ [Next]_vars => Base'
  BY BaseStep
<1> QED
  BY <1>1, <1>2, PTL DEF Spec

\* Every table, and what the handlers and tickers hold between two steps, has values
\* of the kind the code stores there, whatever is lost, repeated or fails.
THEOREM OrdersTyped == Spec => []TypeOK
<1>1. Base => TypeOK
  BY DEF Base
<1> QED
  BY <1>1, BaseAlways, PTL

-----------------------------------------------------------------------------
(* Only the creation of an order, a reported hash and a confirmation matter to  *)
(* what is paid for what: every other step leaves orders, coupons and payments  *)
(* as they are, but for disputes, and gives an order no record.                 *)

Quiet ==
    /\ \A o \in OrderIds : /\ order'[o].action = order[o].action
                           /\ order'[o].coupon = order[o].coupon
                           /\ order'[o].pay = order[o].pay
                           /\ order'[o].raced = order[o].raced
                           /\ order[o].pay = "Unpaid" /\ order[o].status = "Closed" =>
                                order'[o].status = "Closed"
                           /\ RecordsOfOrder(o)' \subseteq RecordsOfOrder(o)
    /\ used' = used /\ couponSet' = couponSet
    /\ \A h \in Hashes :
         /\ pay'[h].order = pay[h].order
         /\ \/ pay'[h].status = pay[h].status
            \/ pay[h].status = "Confirmed" /\ pay'[h].status = "Dispute"
         /\ uni[h].state \in {"confirmed", "disputed"} =>
              uni'[h].state \in {"confirmed", "disputed"}

LEMMA SameRecords ==
    ASSUME UNCHANGED rec, NEW o
    PROVE  RecordsOfOrder(o)' = RecordsOfOrder(o)
BY DEF RecordsOfOrder, GetSmtRecordByOrderId

LEMMA OrdersQuiet ==
    ASSUME Base, Orders
    PROVE  Quiet \/ \E d \in Addrs : OrderCreate(d) \/ CouponOrderCreate(d)
<1>1. CASE UNCHANGED <<order, pay, rec, coupons, uni>>
  BY <1>1, SameRecords DEF Quiet, coupons
<1>2. CASE ~ UNCHANGED <<order, pay, rec, coupons, uni>>
  BY <1>2 DEF Orders, OrderCheck, OrderLock, OrderFail, CouponOrderCheck, CouponOrderRead
<1> QED
  BY <1>1, <1>2

LEMMA CheckQuiet ==
    ASSUME Base, Check \/ OrderCheckFail
    PROVE  Quiet
<1>1. /\ UNCHANGED ChkUnchanged
      /\ \/ UNCHANGED <<order, pay>>
         \/ \E o \in OrderIds, new \in {"Success", "Fail"} : UpdateOrderStatus(o, new)
  <2>1. CASE OrderCheckMint
    <3>1. chk.o \in OrderIds
      BY <2>1, BoundsTyped DEF OrderCheckMint, Base, TypeOK, OrderIds
    <3>2. MintOutcome(chk.seen) \in {"Success", "Fail"}
      BY DEF MintOutcome
    <3> QED
      BY <2>1, <3>1, <3>2 DEF OrderCheckMint
  <2> QED
    BY <2>1 DEF Check, OrderCheckFail, OrderCheckList, OrderCheckRecord, OrderCheckRenew
<1>2. /\ \A o \in OrderIds : /\ order'[o].action = order[o].action
                             /\ order'[o].pay = order[o].pay
                             /\ order'[o].coupon = order[o].coupon
                             /\ order'[o].raced = order[o].raced
                             /\ order[o].status = "Closed" => order'[o].status = "Closed"
      /\ \A h \in Hashes : pay'[h].order = pay[h].order /\ pay'[h].status = pay[h].status
  BY <1>1, UpdateOrderStatusKeeps
<1>3. UNCHANGED <<rec, used, couponSet, uni>>
  BY <1>1 DEF ChkUnchanged, coupons
<1> QED
  BY <1>2, <1>3, SameRecords DEF Quiet

LEMMA RefundQuiet ==
    ASSUME Base, Refund \/ RefundFail
    PROVE  Quiet
<1>1. UNCHANGED <<order, rec, used, couponSet>>
  BY DEF Refund, RefundFail, RefundList, RefundOrder, UpdateRefundStatusToRefundIng,
         RfdUnchanged, coupons
<1>2. ASSUME NEW h \in Hashes
      PROVE  /\ pay'[h].order = pay[h].order /\ pay'[h].status = pay[h].status
             /\ uni'[h].state = uni[h].state
  <2>1. \/ UNCHANGED <<pay, uni>>
        \/ UpdateRefundStatusToRefundIng
        \/ RefundOrder
    BY DEF Refund, RefundFail, RefundList
  <2>2. pay[h] \in Payment /\ uni[h] \in UniPayment
    BY DEF Base, TypeOK
  <2>3. CASE UpdateRefundStatusToRefundIng
    <3>1. uni' = uni /\ (pay'[h] = pay[h] \/ pay'[h] = [pay[h] EXCEPT !.refund = "Refunding"])
      BY <2>3 DEF UpdateRefundStatusToRefundIng
    <3> QED
      BY <2>2, <3>1 DEF Payment
  <2>4. CASE RefundOrder
    <3>1. pay' = pay /\ (uni'[h] = uni[h] \/ uni'[h] = [uni[h] EXCEPT !.refund = "asked"])
      BY <2>4 DEF RefundOrder
    <3> QED
      BY <2>2, <3>1 DEF UniPayment
  <2> QED
    BY <2>1, <2>3, <2>4
<1> QED
  BY <1>1, <1>2, SameRecords DEF Quiet

LEMMA NoticesQuiet ==
    ASSUME Base, Notices
    PROVE  Quiet
<1>1. UNCHANGED <<rec, used, couponSet, uni>>
  BY DEF Notices, NoticeRefunded, PollRefunded, UpdateRefundStatusToRefunded,
         UpdatePayHashStatusToFailByDispute, coupons
<1>2. order \in [OrderIds -> Order] /\ pay \in [Hashes -> Payment]
  BY DEF Base, TypeOK
<1>3. ASSUME NEW h \in Hashes, UpdateRefundStatusToRefunded(h) PROVE Quiet
  <2>1. order' = order /\ pay' = [pay EXCEPT ![h].refund = "Refunded"]
    BY <1>3 DEF UpdateRefundStatusToRefunded
  <2>2. \A g \in Hashes : pay'[g].order = pay[g].order /\ pay'[g].status = pay[g].status
    BY <1>2, <2>1 DEF Payment
  <2> QED
    BY <1>1, <2>1, <2>2, SameRecords DEF Quiet
<1>4. ASSUME NEW h \in Hashes, UpdatePayHashStatusToFailByDispute(h) PROVE Quiet
  <2>1. \A o \in OrderIds :
          \/ order'[o] = order[o]
          \/ order[o].pay = "Paid" /\ order'[o] = [order[o] EXCEPT !.status = "Fail"]
    BY <1>2, <1>4 DEF UpdatePayHashStatusToFailByDispute
  <2>2. ASSUME NEW o \in OrderIds
        PROVE  /\ order'[o].action = order[o].action /\ order'[o].coupon = order[o].coupon
               /\ order'[o].pay = order[o].pay /\ order'[o].raced = order[o].raced
               /\ order[o].pay = "Unpaid" => order'[o].status = order[o].status
    <3>1. order[o] \in Order
      BY <1>2
    <3> QED
      BY <2>1, <3>1 DEF Order
  <2>3. pay' = pay \/ (pay[h].status = "Confirmed" /\ pay' = [pay EXCEPT ![h].status = "Dispute"])
    BY <1>4 DEF UpdatePayHashStatusToFailByDispute
  <2>4. ASSUME NEW g \in Hashes
        PROVE  /\ pay'[g].order = pay[g].order
               /\ \/ pay'[g].status = pay[g].status
                  \/ pay[g].status = "Confirmed" /\ pay'[g].status = "Dispute"
    <3>1. \/ pay'[g] = pay[g]
          \/ pay[g].status = "Confirmed" /\ pay'[g] = [pay[g] EXCEPT !.status = "Dispute"]
      BY <1>2, <2>3
    <3>2. pay[g] \in Payment
      BY <1>2
    <3> QED
      BY <3>1, <3>2 DEF Payment
  <2> QED
    BY <1>1, <2>2, <2>4, SameRecords DEF Quiet
<1> QED
  BY <1>3, <1>4 DEF Notices, NoticeRefunded, PollRefunded

LEMMA UnipayQuiet ==
    ASSUME Base, Unipay \/ \E h \in Hashes : MakePayment(h)
    PROVE  Quiet
<1>1. UNCHANGED <<order, pay, rec, used, couponSet>>
  BY DEF Unipay, MakePayment, UniSettle, UniRefund, UniUnchanged, coupons
<1>2. uni \in [Hashes -> UniPayment]
  BY DEF Base, TypeOK
<1>3. ASSUME NEW g \in Hashes, uni[g].state \in {"confirmed", "disputed"}
      PROVE  uni'[g].state \in {"confirmed", "disputed"}
  <2>1. uni[g] \in UniPayment
    BY <1>2
  <2>2. ASSUME NEW h \in Hashes, MakePayment(h) PROVE uni'[g] = uni[g]
    <3>1. PICK o \in 1..nOrder : uni' = [uni EXCEPT ![h].order = o, ![h].state = "made"]
      BY <2>2 DEF MakePayment
    <3>2. g # h
      BY <1>3, <2>2 DEF MakePayment
    <3> QED
      BY <1>2, <3>1, <3>2
  <2>3. ASSUME NEW h \in Hashes, UniSettle(h) PROVE uni'[g].state \in {"confirmed", "disputed"}
    BY <1>2, <1>3, <2>1, <2>3 DEF UniSettle, UniPayment
  <2>4. ASSUME NEW h \in Hashes, UniRefund(h) PROVE uni'[g].state = uni[g].state
    BY <1>2, <2>1, <2>4 DEF UniRefund, UniPayment
  <2> QED
    BY <1>3, <2>2, <2>3, <2>4 DEF Unipay
<1> QED
  BY <1>1, <1>3, SameRecords DEF Quiet

LEMMA PipelineQuiet ==
    ASSUME Base, Pipeline
    PROVE  Quiet
<1>1. UNCHANGED <<order, pay, used, couponSet, uni>>
  BY DEF Pipeline, OtherRecord, SyncAccount, RecordCommits, RecordToChain, RecordToClosed,
         PipeUnchanged, coupons
<1>2. rec \in [RecIds -> Record] /\ nRec \in 0..MaxRecs
  BY DEF Base, TypeOK
<1>3. \A r \in RecIds : rec'[r].action = "Absent" \/ rec'[r].order = 0
                        \/ (rec'[r].action = rec[r].action /\ rec'[r].order = rec[r].order)
  <2> SUFFICES ASSUME NEW r \in RecIds
               PROVE  \/ rec'[r].action = "Absent" \/ rec'[r].order = 0
                      \/ rec'[r].action = rec[r].action /\ rec'[r].order = rec[r].order
    OBVIOUS
  <2>1. rec[r] \in Record
    BY <1>2
  <2>2. ASSUME NEW a \in Accounts, OtherRecord(a) PROVE rec'[r].order = 0 \/ rec'[r] = rec[r]
    <3> DEFINE v == synced[a] + 1
               new == [NoRecord EXCEPT !.acc = a, !.ver = v,
                                       !.action = IF v = 1 THEN "Mint" ELSE "Edit"]
    <3>1. rec' = [rec EXCEPT ![nRec + 1] = new]
      BY <2>2 DEF OtherRecord
    <3>2. new.order = 0
      BY DEF NoRecord
    <3> HIDE DEF new
    <3> QED
      BY <1>2, <3>1, <3>2
  <2>3. ASSUME NEW s \in RecIds, RecordCommits(s) \/ RecordToChain(s)
        PROVE  rec'[r].action = rec[r].action /\ rec'[r].order = rec[r].order
    <3>1. \/ rec' = [rec EXCEPT ![s].onChain = TRUE]
          \/ rec' = [rec EXCEPT ![s].type = "Chain"]
      BY <2>3 DEF RecordCommits, RecordToChain
    <3> QED
      BY <1>2, <2>1, <3>1 DEF Record
  <2>4. ASSUME NEW s \in RecIds, NEW open \in BOOLEAN, RecordToClosed(s, open)
        PROVE  \/ rec'[r].action = "Absent"
               \/ rec'[r].action = rec[r].action /\ rec'[r].order = rec[r].order
    <3>1. \/ rec'[r] = [rec[r] EXCEPT !.type = "Closed", !.open = open]
          \/ rec'[r] = NoRecord
          \/ rec'[r] = rec[r]
      BY <2>4 DEF RecordToClosed
    <3>2. NoRecord.action = "Absent"
      BY DEF NoRecord
    <3> QED
      BY <2>1, <3>1, <3>2 DEF Record
  <2>5. ASSUME NEW a \in Accounts, SyncAccount(a) PROVE rec' = rec
    BY <2>5 DEF SyncAccount
  <2> QED
    BY <2>2, <2>3, <2>4, <2>5 DEF Pipeline
<1>4. \A o \in OrderIds : RecordsOfOrder(o)' \subseteq RecordsOfOrder(o)
  BY <1>3, BoundsTyped DEF RecordsOfOrder, GetSmtRecordByOrderId
<1> QED
  BY <1>1, <1>4 DEF Quiet

LEMMA EnvironmentQuiet ==
    ASSUME Base, Environment
    PROVE  Quiet
<1>1. order \in [OrderIds -> Order] /\ pay \in [Hashes -> Payment]
  BY DEF Base, TypeOK
<1>2. UNCHANGED <<rec, used, couponSet, uni>>
  BY DEF Environment, GrowOld, LockExpire, Crash, coupons
<1>3. ASSUME NEW o \in OrderIds
      PROVE  /\ order'[o].action = order[o].action /\ order'[o].coupon = order[o].coupon
             /\ order'[o].pay = order[o].pay /\ order'[o].raced = order[o].raced
             /\ order'[o].status = order[o].status
  <2>1. order' = order \/ \E p \in OrderIds : order' = [order EXCEPT ![p].old = TRUE]
    BY DEF Environment, GrowOld, LockExpire, Crash
  <2>2. order'[o] = order[o] \/ order'[o] = [order[o] EXCEPT !.old = TRUE]
    BY <1>1, <2>1
  <2>3. order[o] \in Order
    BY <1>1
  <2> QED
    BY <2>2, <2>3 DEF Order
<1>4. ASSUME NEW h \in Hashes
      PROVE  pay'[h].order = pay[h].order /\ pay'[h].status = pay[h].status
  <2>1. pay'[h] = pay[h] \/ pay'[h] = [pay[h] EXCEPT !.old = TRUE]
    BY DEF Environment, GrowOld, LockExpire, Crash
  <2>2. pay[h] \in Payment
    BY <1>1
  <2> QED
    BY <2>1, <2>2 DEF Payment
<1> QED
  BY <1>2, <1>3, <1>4, SameRecords DEF Quiet

LEMMA QuietOrNot ==
    ASSUME Base, [Next]_vars
    PROVE  \/ Quiet
           \/ \E d \in Addrs : OrderCreate(d) \/ CouponOrderCreate(d)
           \/ \E h \in Hashes : doAutoOrderHash(h)
           \/ \E w \in Confirmers : ConfirmWrite(w)
<1>1. CASE UNCHANGED vars
  BY <1>1, SameRecords DEF vars, Quiet
<1>2. CASE Confirm
  <2>1. ASSUME NEW w \in Confirmers, NEW h \in Hashes, ConfirmRead(w, h) PROVE Quiet
    BY <2>1, SameRecords DEF ConfirmRead, Quiet, coupons
  <2>2. ASSUME NEW w \in Confirmers, ConfirmFail(w) PROVE Quiet
    BY <2>2, SameRecords DEF ConfirmFail, Quiet, coupons
  <2> QED
    BY <1>2, <2>1, <2>2 DEF Confirm
<1>3. CASE Clients
  BY <1>3, UnipayQuiet DEF Clients
<1> QED
  BY <1>1, <1>2, <1>3, OrdersQuiet, CheckQuiet, RefundQuiet, NoticesQuiet, UnipayQuiet,
     PipelineQuiet, EnvironmentQuiet DEF Next

-----------------------------------------------------------------------------
(* The steps that matter *)

\* A replaced order is closed.  Whether it was paid is what its handler read, and
\* what it overwrites if a payment was confirmed meanwhile.
Overwritten(o) ==
    /\ order'[o].action = order[o].action
    /\ order'[o].coupon = order[o].coupon
    /\ order'[o].status = "Closed"
    /\ order[o].raced => order'[o].raced
    /\ ~ order'[o].raced => order'[o].pay = order[o].pay
    /\ order'[o].pay = "Paid" => \E d \in Addrs : make[d].old = o /\ make[d].seen = "Paid"
    /\ order'[o].pay \in {"Unpaid", "Paid"}

\* What is placed is a new order, not paid for, with no codes and no confirmed
\* payment.  The other orders stay as they are, but for one that is replaced.
Placed(o) ==
    /\ o \in OrderIds /\ o > nOrder
    /\ order'[o].pay = "Unpaid"
    /\ couponSet'[o].codes = 0 /\ couponSet'[o].status # "Success"
    /\ \A p \in OrderIds : p # o =>
         /\ order'[p] = order[p] \/ Overwritten(p)
         /\ couponSet'[p] = couponSet[p]
    /\ UNCHANGED rec
    /\ \A h \in Hashes : \/ pay'[h] = pay[h]
                         \/ pay[h].status = "Absent" /\ pay'[h].status \in {"Absent", "Pending"}
    /\ \A h \in Hashes : uni'[h].state = uni[h].state

LEMMA PlacedPayments ==
    ASSUME Base, NEW d \in Addrs, OrderCreate(d) \/ CouponOrderCreate(d)
    PROVE  /\ nOrder + 1 \in OrderIds /\ nOrder + 1 > nOrder
           /\ order \in [OrderIds -> Order]
           /\ order[nOrder + 1].pay = "Unpaid" /\ couponSet[nOrder + 1] = NoSet
           /\ \A h \in Hashes :
                \/ pay'[h] = pay[h]
                \/ pay[h].status = "Absent" /\ pay'[h].status \in {"Absent", "Pending"}
           /\ \A h \in Hashes : uni'[h].state = uni[h].state
<1>1. make[d].pc # "idle" /\ make' = [make EXCEPT ![d] = MakeIdle] /\ nOrder' = nOrder + 1
  BY DEF OrderCreate, CouponOrderCreate
<1>2. nOrder < MaxOrders
  BY <1>1, OneLessBusy
<1>3. StorePayment(nOrder + 1)
  BY DEF OrderCreate, CouponOrderCreate
<1>4. /\ nOrder + 1 \in OrderIds
      /\ \A h \in Hashes : uni'[h].state = uni[h].state
      /\ \A h \in Hashes : pay[h].status # "Absent" => pay'[h] = pay[h]
      /\ \A h \in Hashes : pay'[h].status \notin {"Absent", "Pending"} => pay'[h] = pay[h]
  BY <1>1, <1>2, <1>3, StorePaymentTyped
<1>5. nOrder + 1 > nOrder
  BY BoundsTyped DEF Base, TypeOK
<1> QED
  BY <1>4, <1>5 DEF Base, TypeOK, UnusedIds

LEMMA OrderCreatePlaces ==
    ASSUME Base, NEW d \in Addrs, OrderCreate(d)
    PROVE  /\ Placed(nOrder + 1)
           /\ order'[nOrder + 1].coupon = make[d].coupon
           /\ make[d].coupon \notin used
           /\ used' = used \cup ({make[d].coupon} \ {NoCoupon})
<1> DEFINE o == nOrder + 1
           m == make[d]
           new == [NoOrder EXCEPT !.action = m.action, !.acc = m.acc, !.addr = d,
                                  !.coupon = m.coupon]
<1>1. /\ order' = [order EXCEPT ![o] = new]
      /\ m.coupon \notin used
      /\ used' = used \cup ({m.coupon} \ {NoCoupon})
      /\ UNCHANGED <<rec, couponSet>>
  BY DEF OrderCreate, SaveCoupon
<1>2. new.pay = "Unpaid" /\ new.coupon = m.coupon
  BY DEF NoOrder
<1> HIDE DEF new, m
<1>3. order'[o] = new /\ \A p \in OrderIds : p # o => order'[p] = order[p]
  BY <1>1, PlacedPayments
<1>4. couponSet[o].codes = 0 /\ couponSet[o].status # "Success"
  BY PlacedPayments DEF NoSet
<1> QED
  BY <1>1, <1>2, <1>3, <1>4, PlacedPayments DEF Placed, m

LEMMA CouponOrderCreatePlaces ==
    ASSUME Base, NEW d \in Addrs, CouponOrderCreate(d)
    PROVE  /\ Placed(nOrder + 1)
           /\ order'[nOrder + 1].coupon = NoCoupon
           /\ used' = used
<1> DEFINE o == nOrder + 1
           m == make[d]
           new == [NoOrder EXCEPT !.action = m.action, !.addr = d]
<1>1. /\ \A p \in OrderIds : order'[p] = IF p = o THEN new
                                        ELSE IF p = m.old THEN ReplacedOrder(m)
                                        ELSE order[p]
      /\ couponSet' = [couponSet EXCEPT ![o].status = "Created"]
      /\ UNCHANGED <<rec, used>>
  BY DEF CouponOrderCreate
<1>2. new.pay = "Unpaid" /\ new.coupon = NoCoupon
  BY DEF NoOrder
<1>3. m.seen \in {"Unpaid", "Paid"} /\ nOrder + 1 \in OrderIds
  BY PlacedPayments, MakersTyped DEF Base, TypeOK, Making
<1>4. ASSUME NEW p \in OrderIds, p # o, p = m.old PROVE Overwritten(p)
  <2>1. order'[p] = ReplacedOrder(m) /\ order[p] \in Order
    BY <1>1, <1>4, PlacedPayments
  <2> HIDE DEF m
  <2>2. /\ order'[p].action = order[p].action /\ order'[p].coupon = order[p].coupon
        /\ order'[p].status = "Closed" /\ order'[p].pay = m.seen
        /\ order'[p].raced = (order[p].raced \/ order[p].pay # m.seen)
    BY <1>4, <2>1 DEF ReplacedOrder, Order
  <2> QED
    BY <1>3, <1>4, <2>2 DEF Overwritten, m
<1> HIDE DEF new, m
<1>5. /\ order'[o] = new
      /\ \A p \in OrderIds : p # o => order'[p] = order[p] \/ Overwritten(p)
  BY <1>1, <1>3, <1>4
<1>6. /\ couponSet'[o].codes = 0 /\ couponSet'[o].status = "Created"
      /\ \A p \in OrderIds : p # o => couponSet'[p] = couponSet[p]
  <2>1. couponSet \in [OrderIds -> CouponSet] /\ o \in OrderIds /\ couponSet[o] = NoSet
    BY PlacedPayments DEF Base, TypeOK
  <2> QED
    BY <1>1, <2>1 DEF NoSet
<1> QED
  BY <1>1, <1>2, <1>5, <1>6, PlacedPayments DEF Placed

\* A hash is reported: a set that was created becomes Paid, and nothing else.
LEMMA HashReports ==
    ASSUME Base, NEW h \in Hashes, doAutoOrderHash(h)
    PROVE  /\ UNCHANGED <<order, rec, used, uni>>
           /\ \A o \in OrderIds : \/ couponSet'[o] = couponSet[o]
                                  \/ /\ couponSet[o].status = "Created"
                                     /\ couponSet'[o].status = "Paid"
                                     /\ couponSet'[o].codes = couponSet[o].codes
           /\ \A g \in Hashes : \/ pay'[g] = pay[g]
                                \/ pay[g].status = "Absent" /\ pay'[g].status = "Pending"
<1> DEFINE p == [NoPayment EXCEPT !.order = uni[h].order, !.status = "Pending"]
<1>1. couponSet \in [OrderIds -> CouponSet] /\ pay \in [Hashes -> Payment]
  BY DEF Base, TypeOK
<1>2. /\ UNCHANGED <<order, rec, used, uni>>
      /\ \/ couponSet' = couponSet
         \/ /\ couponSet[uni[h].order].status = "Created"
            /\ couponSet' = [couponSet EXCEPT ![uni[h].order].status = "Paid"]
      /\ pay' = pay \/ (pay[h].status = "Absent" /\ pay' = [pay EXCEPT ![h] = p])
  BY DEF doAutoOrderHash
<1>3. p.status = "Pending"
  BY DEF NoPayment
<1> HIDE DEF p
<1> QED
  BY <1>1, <1>2, <1>3 DEF CouponSet

\* The payment h, which unipay confirmed, of order o is confirmed: the order is
\* paid, and its record or its codes are made if it was not.
Confirmed(h, o) ==
    /\ h \in Hashes /\ o \in OrderIds
    /\ uni[h].state \in {"confirmed", "disputed"} /\ UNCHANGED <<uni, used>>
    /\ pay'[h].order = o /\ pay'[h].status = "Confirmed"
    /\ \A g \in Hashes : g # h =>
         \/ pay'[g] = pay[g]
         \/ pay[g].status = "Pending" /\ pay'[g].status = "Rejected"
    /\ \A p \in OrderIds : /\ order'[p].action = order[p].action
                           /\ order'[p].coupon = order[p].coupon
                           /\ order'[p].pay = IF p = o THEN "Paid" ELSE order[p].pay
                           /\ order'[p].raced = order[p].raced
                           /\ p # o => order'[p].status = order[p].status
    /\ \A p \in OrderIds : p # o => couponSet'[p] = couponSet[p]
    /\ order[o].action = "CouponCreate" =>
         IF order[o].pay = "Paid" THEN couponSet'[o] = couponSet[o]
         ELSE /\ couponSet'[o].status = "Success"
              /\ couponSet'[o].codes # 0
              /\ couponSet[o].codes = 0 => couponSet'[o].codes = 1
    /\ \/ UNCHANGED rec
       \/ /\ order[o].pay = "Unpaid"
          /\ \E r \in RecIds : /\ rec[r] = NoRecord /\ rec'[r].order = o
                               /\ rec'[r].type = "Default"
                               /\ \A s \in RecIds : s # r => rec'[s] = rec[s]

LEMMA ConfirmWriteConfirms ==
    ASSUME Base, NEW w \in Confirmers, ConfirmWrite(w)
    PROVE  Confirmed(conf[w].h, uni[conf[w].h].order)
<1> DEFINE h == conf[w].h
           o == uni[h].order
<1>1. h \in Hashes /\ uni[h].state \in {"confirmed", "disputed"}
  BY DEF ConfirmWrite, Base, ConfirmedByUnipay
<1>2. o \in OrderIds
  <2>1. o # 0 /\ o \in 0..MaxOrders
    BY <1>1 DEF Base, PaymentsAgree, TypeOK, UniPayment
  <2> QED
    BY <2>1, BoundsTyped DEF OrderIds
<1>3. /\ order \in [OrderIds -> Order] /\ couponSet \in [OrderIds -> CouponSet]
      /\ pay \in [Hashes -> Payment] /\ conf[w].ver \in Asked
      /\ nRec \in Nat /\ TypeOK
  BY BoundsTyped DEF Base, TypeOK
<1>4. /\ RecordOfPaidOrder(o, conf[w].ver)
      /\ couponSet' = SetOfPaidOrder(o)
      /\ order' = [order EXCEPT ![o] = PaidOrder(order[o])]
      /\ UNCHANGED <<uni, used>>
  BY <1>2, <1>3 DEF ConfirmWrite
<1>5. \A g \in Hashes : pay'[g] =
        IF g = h THEN [pay[g] EXCEPT !.order = o, !.status = "Confirmed", !.old = FALSE]
        ELSE IF pay[g].order = o /\ pay[g].status = "Pending"
        THEN [pay[g] EXCEPT !.status = "Rejected"]
        ELSE pay[g]
  BY DEF ConfirmWrite
<1> HIDE DEF h, o
<1>6. pay'[h].order = o /\ pay'[h].status = "Confirmed"
  <2>1. pay[h] \in Payment /\ pay'[h] = [pay[h] EXCEPT !.order = o, !.status = "Confirmed",
                                                       !.old = FALSE]
    BY <1>1, <1>3, <1>5
  <2> QED
    BY <2>1 DEF Payment
<1>7. ASSUME NEW g \in Hashes, g # h
      PROVE  \/ pay'[g] = pay[g]
             \/ pay[g].status = "Pending" /\ pay'[g].status = "Rejected"
  <2>1. \/ pay'[g] = pay[g]
        \/ pay[g].status = "Pending" /\ pay'[g] = [pay[g] EXCEPT !.status = "Rejected"]
    BY <1>5, <1>7
  <2>2. pay[g] \in Payment
    BY <1>3
  <2> QED
    BY <2>1, <2>2 DEF Payment
<1>8. ASSUME NEW p \in OrderIds
      PROVE  /\ order'[p].action = order[p].action /\ order'[p].coupon = order[p].coupon
             /\ order'[p].pay = IF p = o THEN "Paid" ELSE order[p].pay
             /\ order'[p].raced = order[p].raced
             /\ p # o => order'[p].status = order[p].status
  <2>1. order'[p] = IF p = o THEN PaidOrder(order[p]) ELSE order[p]
    BY <1>2, <1>3, <1>4
  <2>2. order[p] \in Order
    BY <1>3
  <2>3. /\ PaidOrder(order[p]).action = order[p].action
        /\ PaidOrder(order[p]).coupon = order[p].coupon
        /\ PaidOrder(order[p]).pay = "Paid"
        /\ PaidOrder(order[p]).raced = order[p].raced
    BY <2>2 DEF PaidOrder, Order
  <2> QED
    BY <2>1, <2>3
<1>9. order[o].pay \in {"Unpaid", "Paid"}
  BY <1>2, <1>3 DEF Order
<1>10. /\ \A p \in OrderIds : p # o => couponSet'[p] = couponSet[p]
       /\ order[o].action = "CouponCreate" =>
            IF order[o].pay = "Paid" THEN couponSet'[o] = couponSet[o]
            ELSE /\ couponSet'[o].status = "Success" /\ couponSet'[o].codes # 0
                 /\ couponSet[o].codes = 0 => couponSet'[o].codes = 1
  <2> DEFINE set == [couponSet[o] EXCEPT !.status = "Success",
                                         !.codes = IF @ = 2 THEN 2 ELSE @ + 1]
  <2>1. /\ set.status = "Success" /\ set.codes # 0
        /\ couponSet[o].codes = 0 => set.codes = 1
    BY <1>2, <1>3 DEF CouponSet
  <2>2. MakeCodes(o) = [couponSet EXCEPT ![o] = set]
    BY <1>2, <1>3 DEF MakeCodes
  <2>3. CASE order[o].action = "CouponCreate" /\ order[o].pay = "Unpaid"
    <3>1. couponSet' = [couponSet EXCEPT ![o] = set]
      BY <1>4, <2>2, <2>3 DEF SetOfPaidOrder
    <3> HIDE DEF set
    <3> QED
      BY <1>2, <1>3, <2>1, <2>3, <3>1
  <2>4. CASE ~ (order[o].action = "CouponCreate" /\ order[o].pay = "Unpaid")
    <3>1. couponSet' = couponSet
      BY <1>4, <2>4 DEF SetOfPaidOrder
    <3> QED
      BY <1>9, <2>4, <3>1
  <2> QED
    BY <2>3, <2>4
<1>11. \/ UNCHANGED rec
       \/ /\ order[o].pay = "Unpaid"
          /\ \E r \in RecIds : /\ rec[r] = NoRecord /\ rec'[r].order = o
                               /\ rec'[r].type = "Default"
                               /\ \A s \in RecIds : s # r => rec'[s] = rec[s]
  <2>1. CASE order[o].pay = "Unpaid" /\ CreateRecord(o, conf[w].ver)
    <3>1. \/ UNCHANGED <<rec, nRec>>
          \/ /\ nRec + 1 \in RecIds /\ rec'[nRec + 1].order = o
             /\ rec'[nRec + 1].type = "Default"
             /\ \A r \in RecIds : r # nRec + 1 => rec'[r] = rec[r]
      BY <1>2, <1>3, <2>1, CreateRecordTyped
    <3>2. nRec + 1 \in RecIds => rec[nRec + 1] = NoRecord
      BY <1>3 DEF Base, UnusedIds
    <3> QED
      BY <2>1, <3>1, <3>2
  <2> QED
    BY <1>4, <2>1 DEF RecordOfPaidOrder
<1>12. Confirmed(h, o)
  BY <1>1, <1>2, <1>4, <1>6, <1>7, <1>8, <1>10, <1>11 DEF Confirmed
<1> QED
  BY <1>12 DEF h, o

-----------------------------------------------------------------------------
(* A coupon code pays for one order *)

CouponsHeld ==
    /\ \A o \in OrderIds : order[o].coupon # NoCoupon => order[o].coupon \in used
    /\ \A o, p \in OrderIds : /\ order[o].coupon # NoCoupon
                              /\ order[o].coupon = order[p].coupon
                              => o = p

LEMMA CouponsHeldInit == Init => CouponsHeld
BY DEF Init, NoOrder, CouponsHeld

LEMMA CouponsHeldStep ==
    ASSUME Base, CouponsHeld, [Next]_vars
    PROVE  CouponsHeld'
<1>1. CASE Quiet
  BY <1>1 DEF Quiet, CouponsHeld
<1>2. ASSUME NEW d \in Addrs, OrderCreate(d) PROVE CouponsHeld'
  <2> DEFINE o == nOrder + 1
             c == make[d].coupon
  <2>1. /\ \A p \in OrderIds : order'[p].coupon = IF p = o THEN c ELSE order[p].coupon
        /\ c \notin used /\ used' = used \cup ({c} \ {NoCoupon})
    BY <1>2, OrderCreatePlaces DEF Placed, Overwritten
  <2> HIDE DEF o, c
  <2> QED
    BY <2>1 DEF CouponsHeld
<1>3. ASSUME NEW d \in Addrs, CouponOrderCreate(d) PROVE CouponsHeld'
  <2> DEFINE o == nOrder + 1
  <2>1. /\ \A p \in OrderIds : order'[p].coupon = IF p = o THEN NoCoupon ELSE order[p].coupon
        /\ used' = used
    BY <1>3, CouponOrderCreatePlaces DEF Placed, Overwritten
  <2> HIDE DEF o
  <2> QED
    BY <2>1 DEF CouponsHeld
<1>4. ASSUME NEW h \in Hashes, doAutoOrderHash(h) PROVE CouponsHeld'
  BY <1>4, HashReports DEF CouponsHeld
<1>5. ASSUME NEW w \in Confirmers, ConfirmWrite(w) PROVE CouponsHeld'
  BY <1>5, ConfirmWriteConfirms DEF Confirmed, CouponsHeld
<1> QED
  BY <1>1, <1>2, <1>3, <1>4, <1>5, QuietOrNot

\* A coupon code pays for one order, whichever locks expire or are deleted under
\* their owners: what refuses the second order is the row of the code.
THEOREM CouponPaysOnce == Spec => []CouponUsedOnce
<1>1. Init => CouponsHeld
  BY CouponsHeldInit
<1>2. Base /\ CouponsHeld /\ [Next]_vars => CouponsHeld'
  BY CouponsHeldStep
<1>3. CouponsHeld => CouponUsedOnce
  BY DEF CouponsHeld, CouponUsedOnce
<1> QED
  BY <1>1, <1>2, <1>3, BaseAlways, PTL DEF Spec

-----------------------------------------------------------------------------
(* What is bought and how often *)

Backed(o) == \E h \in Hashes : /\ pay[h].order = o
                               /\ pay[h].status \in {"Confirmed", "Dispute"}
                               /\ uni[h].state \in {"confirmed", "disputed"}

\* A handler that is about to write an order back as paid has read that it was, and
\* what had been bought with it by then stays.
SeenPaid(d) == make[d].seen = "Paid" =>
    /\ make[d].old \in OrderIds /\ Backed(make[d].old)
    /\ order[make[d].old].action = "CouponCreate" => couponSet[make[d].old].codes # 0

Bought ==
    /\ \A o \in OrderIds : ~ order[o].raced =>
         /\ \A r, s \in RecordsOfOrder(o) : r = s
         /\ RecordsOfOrder(o) # {} => order[o].pay = "Paid"
    /\ CodesMadeOnce
    /\ ConfirmedIsPaid
    /\ PaidIsBacked
    /\ \A d \in Addrs : SeenPaid(d)

LEMMA BoughtInit == Init => Bought
<1> SUFFICES ASSUME Init PROVE Bought
  OBVIOUS
<1>1. \A o \in OrderIds : RecordsOfOrder(o) = {}
  BY DEF Init, RecordsOfOrder, GetSmtRecordByOrderId, NoRecord
<1>2. \A o \in OrderIds : order[o].pay = "Unpaid" /\ order[o].action = "Absent"
  BY DEF Init, NoOrder
<1>3. \A h \in Hashes : pay[h].status = "Absent"
  BY DEF Init, NoPayment
<1>4. \A d \in Addrs : make[d].seen = "Unpaid"
  BY DEF Init, MakeIdle
<1> QED
  BY <1>1, <1>2, <1>3, <1>4 DEF Bought, CodesMadeOnce, ConfirmedIsPaid, PaidIsBacked, SeenPaid

LEMMA OrderOfPayment ==
    ASSUME Base, NEW h \in Hashes, pay[h].status # "Absent"
    PROVE  /\ pay[h].order \in OrderIds /\ pay[h].order <= nOrder
           /\ pay[h].order = uni[h].order
<1>1. pay[h].order = uni[h].order /\ uni[h].order # 0 /\ uni[h].order <= nOrder
  BY DEF Base, PaymentsAgree
<1>2. uni[h].order \in 0..MaxOrders
  BY DEF Base, TypeOK, UniPayment
<1> QED
  BY <1>1, <1>2, BoundsTyped DEF OrderIds

\* Where the pay_status comes from that a handler will write back.
SeenKept ==
    \A d \in Addrs : make'[d].seen = "Paid" =>
        /\ make'[d].old = make[d].old
        /\ \/ make[d].seen = "Paid"
           \/ make[d].old \in OrderIds /\ order[make[d].old].pay = "Paid"

LEMMA StepKeepsSeen ==
    ASSUME Base, [Next]_vars
    PROVE  SeenKept
<1>1. make \in [Addrs -> Making]
  BY DEF Base, TypeOK, Making
<1>2. CASE UNCHANGED make
  BY <1>2 DEF SeenKept
<1>3. ASSUME NEW d \in Addrs, NEW m, m.seen = "Unpaid", make' = [make EXCEPT ![d] = m]
      PROVE  SeenKept
  <2>1. \A e \in Addrs : make'[e] = IF e = d THEN m ELSE make[e]
    BY <1>1, <1>3
  <2> QED
    BY <1>3, <2>1 DEF SeenKept
<1>4. MakeIdle.seen = "Unpaid"
  BY DEF MakeIdle
<1>5. ASSUME NEW d \in Addrs, NEW action, NEW a, NEW c, OrderCheck(d, action, a, c)
      PROVE  SeenKept
  <2> DEFINE m == [MakeIdle EXCEPT !.pc = IF c = NoCoupon THEN "create" ELSE "lock",
                                   !.action = action, !.acc = a, !.coupon = c]
  <2>1. m.seen = "Unpaid" /\ make' = [make EXCEPT ![d] = m]
    BY <1>5 DEF OrderCheck, MakeIdle
  <2> HIDE DEF m
  <2> QED
    BY <1>3, <2>1
<1>6. ASSUME NEW d \in Addrs, NEW old, CouponOrderCheck(d, old) PROVE SeenKept
  <2> DEFINE m == [MakeIdle EXCEPT !.pc = "read", !.old = old, !.action = "CouponCreate"]
  <2>1. m.seen = "Unpaid" /\ make' = [make EXCEPT ![d] = m]
    BY <1>6 DEF CouponOrderCheck, MakeIdle
  <2> HIDE DEF m
  <2> QED
    BY <1>3, <2>1
<1>7. ASSUME NEW d \in Addrs, OrderLock(d) PROVE SeenKept
  <2>1. CASE make' = [make EXCEPT ![d].pc = "create"]
    <3>1. \A e \in Addrs : make'[e].seen = make[e].seen /\ make'[e].old = make[e].old
      BY <1>1, <2>1 DEF Making
    <3> QED
      BY <3>1 DEF SeenKept
  <2>2. CASE make' = [make EXCEPT ![d] = MakeIdle]
    BY <1>3, <1>4, <2>2
  <2> QED
    BY <1>7, <2>1, <2>2 DEF OrderLock
<1>8. ASSUME NEW d \in Addrs, OrderCreate(d) \/ OrderFail(d) \/ CouponOrderCreate(d)
      PROVE  SeenKept
  <2>1. make' = [make EXCEPT ![d] = MakeIdle]
    BY <1>8 DEF OrderCreate, OrderFail, CouponOrderCreate
  <2> QED
    BY <1>3, <1>4, <2>1
<1>9. ASSUME NEW d \in Addrs, CouponOrderRead(d) PROVE SeenKept
  <2> DEFINE m == make[d]
             new == IF m.old = 0 THEN m.seen ELSE order[m.old].pay
  <2>1. m \in Making
    BY <1>1
  <2>2. make' = [make EXCEPT ![d].pc = "save", ![d].seen = new]
    BY <1>1, <1>9 DEF CouponOrderRead
  <2> HIDE DEF new, m
  <2>3. \A e \in Addrs : e # d => make'[e] = make[e]
    BY <1>1, <2>2
  <2>4. make'[d].old = m.old /\ make'[d].seen = new
    BY <1>1, <2>1, <2>2 DEF Making, m
  <2>5. m.old # 0 => m.old \in OrderIds
    BY <2>1, BoundsTyped DEF Making, OrderIds
  <2>6. \A e \in Addrs : e = d \/ e # d
    OBVIOUS
  <2>7. make'[d].seen = "Paid" => m.seen = "Paid" \/ (m.old \in OrderIds /\ order[m.old].pay = "Paid")
    BY <2>4, <2>5 DEF new
  <2> QED
    BY <2>3, <2>4, <2>6, <2>7 DEF SeenKept, m
<1>10. CASE Crash
  <2>1. \A e \in Addrs : make'[e] = MakeIdle
    BY <1>10 DEF Crash
  <2> QED
    BY <1>4, <2>1 DEF SeenKept
<1>11. CASE Orders
  BY <1>5, <1>6, <1>7, <1>8, <1>9, <1>11 DEF Orders
<1>12. CASE Confirm \/ Check \/ OrderCheckFail
  BY <1>2, <1>12 DEF Confirm, ConfirmRead, ConfirmWrite, ConfirmFail, Check, OrderCheckList,
     OrderCheckRecord, OrderCheckMint, OrderCheckRenew, OrderCheckFail, ChkUnchanged
<1>13. CASE Refund \/ RefundFail \/ Notices
  BY <1>2, <1>13 DEF Refund, RefundFail, RefundList, RefundOrder,
     UpdateRefundStatusToRefundIng, RfdUnchanged, Notices, NoticeRefunded, PollRefunded,
     UpdateRefundStatusToRefunded, UpdatePayHashStatusToFailByDispute, memory
<1>14. CASE Clients \/ Unipay
  BY <1>2, <1>14 DEF Clients, Unipay, MakePayment, doAutoOrderHash, UniSettle, UniRefund,
     UniUnchanged, memory
<1>15. CASE Pipeline
  BY <1>2, <1>15 DEF Pipeline, OtherRecord, SyncAccount, RecordCommits, RecordToChain,
     RecordToClosed, PipeUnchanged, memory
<1>16. CASE Environment
  BY <1>2, <1>10, <1>16 DEF Environment, GrowOld, LockExpire, memory
<1>17. CASE UNCHANGED vars
  BY <1>2, <1>17 DEF vars
<1> QED
  BY <1>11, <1>12, <1>13, <1>14, <1>15, <1>16, <1>17 DEF Next

\* What was bought stays bought.
Kept ==
    \A o \in OrderIds : Backed(o) =>
        /\ Backed(o)'
        /\ order'[o].action = order[o].action
        /\ order[o].action = "CouponCreate" /\ couponSet[o].codes # 0 =>
             couponSet'[o].codes # 0

LEMMA SeenPaidKept ==
    ASSUME Base, Bought, SeenKept, Kept
    PROVE  \A d \in Addrs : SeenPaid(d)'
<1> SUFFICES ASSUME NEW d \in Addrs, make'[d].seen = "Paid"
             PROVE  /\ make'[d].old \in OrderIds
                    /\ \E h \in Hashes : /\ pay'[h].order = make'[d].old
                                         /\ pay'[h].status \in {"Confirmed", "Dispute"}
                                         /\ uni'[h].state \in {"confirmed", "disputed"}
                    /\ order'[make'[d].old].action = "CouponCreate" =>
                         couponSet'[make'[d].old].codes # 0
  BY DEF SeenPaid, Backed
<1> DEFINE o == make[d].old
<1>1. make'[d].old = o
  BY DEF SeenKept
<1>2. CASE make[d].seen = "Paid"
  <2>1. o \in OrderIds /\ Backed(o) /\ (order[o].action = "CouponCreate" => couponSet[o].codes # 0)
    BY <1>2 DEF Bought, SeenPaid
  <2> HIDE DEF o
  <2> QED
    BY <1>1, <2>1 DEF Kept, Backed
<1>3. CASE o \in OrderIds /\ order[o].pay = "Paid"
  <2> HIDE DEF o
  <2>1. Backed(o) /\ (order[o].action = "CouponCreate" => couponSet[o].codes # 0)
    BY <1>3 DEF Bought, PaidIsBacked, CodesMadeOnce, Backed
  <2> QED
    BY <1>1, <1>3, <2>1 DEF Kept, Backed
<1> QED
  BY <1>2, <1>3 DEF SeenKept

LEMMA BoughtQuiet ==
    ASSUME Base, Bought, Quiet, SeenKept
    PROVE  Bought'
<1>1. ASSUME NEW o \in OrderIds, ~ order'[o].raced
      PROVE  /\ \A r, s \in RecordsOfOrder(o)' : r = s
             /\ RecordsOfOrder(o)' # {} => order'[o].pay = "Paid"
  BY <1>1 DEF Quiet, Bought
<1>2. CodesMadeOnce'
  BY DEF Quiet, Bought, CodesMadeOnce
<1>3. ConfirmedIsPaid'
  <2> SUFFICES ASSUME NEW h \in Hashes, pay'[h].status \in {"Confirmed", "Dispute"}
               PROVE  LET o == order'[pay'[h].order]
                      IN  o.pay = "Paid" \/ (o.raced /\ o.status = "Closed")
    BY DEF ConfirmedIsPaid
  <2>1. pay[h].status \in {"Confirmed", "Dispute"} /\ pay'[h].order = pay[h].order
    BY DEF Quiet
  <2>2. pay[h].order \in OrderIds
    BY <2>1, OrderOfPayment
  <2>3. order[pay[h].order].pay \in {"Unpaid", "Paid"}
    BY <2>2 DEF Base, TypeOK, Order
  <2> QED
    BY <2>1, <2>2, <2>3 DEF Quiet, Bought, ConfirmedIsPaid
<1>4. Kept
  <2> SUFFICES ASSUME NEW o \in OrderIds, Backed(o)
               PROVE  Backed(o)'
    BY DEF Kept, Quiet
  <2>1. PICK h \in Hashes : /\ pay[h].order = o
                            /\ pay[h].status \in {"Confirmed", "Dispute"}
                            /\ uni[h].state \in {"confirmed", "disputed"}
    BY DEF Backed
  <2> QED
    BY <2>1 DEF Quiet, Backed
<1>5. PaidIsBacked'
  <2>1. \A o \in OrderIds : order'[o].pay = "Paid" => Backed(o)
    BY DEF Quiet, Bought, PaidIsBacked, Backed
  <2> QED
    BY <1>4, <2>1 DEF Kept, PaidIsBacked, Backed
<1>6. \A d \in Addrs : SeenPaid(d)'
  BY <1>4, SeenPaidKept
<1> QED
  BY <1>1, <1>2, <1>3, <1>5, <1>6 DEF Bought

LEMMA BoughtPlaced ==
    ASSUME Base, Bought, NEW n, Placed(n), order[n].pay = "Unpaid", SeenKept
    PROVE  Bought'
<1>1. /\ n \in OrderIds /\ n > nOrder /\ order'[n].pay = "Unpaid"
      /\ couponSet'[n].codes = 0 /\ couponSet'[n].status # "Success"
      /\ \A o \in OrderIds : o # n =>
           (order'[o] = order[o] \/ Overwritten(o)) /\ couponSet'[o] = couponSet[o]
  BY DEF Placed
<1>2. ASSUME NEW o \in OrderIds, Overwritten(o), order'[o].pay = "Paid"
      PROVE  Backed(o) /\ (order[o].action = "CouponCreate" => couponSet[o].codes # 0)
  BY <1>2 DEF Overwritten, Bought, SeenPaid
<1>3. ASSUME NEW o \in OrderIds, ~ order'[o].raced
      PROVE  /\ \A r, s \in RecordsOfOrder(o)' : r = s
             /\ RecordsOfOrder(o)' # {} => order'[o].pay = "Paid"
  <2>1. RecordsOfOrder(o)' = RecordsOfOrder(o)
    BY SameRecords DEF Placed
  <2>2. CASE o = n
    <3>1. ~ order[n].raced
      BY <1>1 DEF Base, UnusedIds
    <3> QED
      BY <2>1, <2>2, <3>1 DEF Bought
  <2>3. CASE o # n
    <3>1. ~ order[o].raced /\ order'[o].pay = order[o].pay
      BY <1>1, <1>3, <2>3 DEF Overwritten
    <3> QED
      BY <2>1, <3>1 DEF Bought
  <2> QED
    BY <2>2, <2>3
<1>4. CodesMadeOnce'
  <2> SUFFICES ASSUME NEW o \in OrderIds, order'[o].action = "CouponCreate"
               PROVE  /\ couponSet'[o].status = "Success" <=> couponSet'[o].codes # 0
                      /\ order'[o].pay = "Paid" => couponSet'[o].codes # 0
                      /\ ~ order'[o].raced =>
                           couponSet'[o].codes = IF order'[o].pay = "Paid" THEN 1 ELSE 0
    BY DEF CodesMadeOnce
  <2>1. CASE o = n
    BY <1>1, <2>1
  <2>2. CASE o # n /\ order'[o] = order[o]
    BY <1>1, <2>2 DEF Bought, CodesMadeOnce
  <2>3. CASE o # n /\ Overwritten(o)
    BY <1>1, <1>2, <2>3 DEF Bought, CodesMadeOnce, Overwritten
  <2> QED
    BY <1>1, <2>1, <2>2, <2>3
<1>5. ASSUME NEW h \in Hashes, pay'[h].status \in {"Confirmed", "Dispute"}
      PROVE  LET o == order'[pay'[h].order]
             IN  o.pay = "Paid" \/ (o.raced /\ o.status = "Closed")
  <2>1. pay'[h] = pay[h]
    BY <1>5 DEF Placed
  <2> DEFINE o == pay[h].order
  <2>2. o \in OrderIds /\ o <= nOrder
    BY <1>5, <2>1, OrderOfPayment
  <2>3. o # n
    BY <1>1, <2>2, BoundsTyped DEF Base, TypeOK
  <2>4. order[o].pay = "Paid" \/ (order[o].raced /\ order[o].status = "Closed")
    BY <1>5, <2>1 DEF Bought, ConfirmedIsPaid
  <2> HIDE DEF o
  <2>5. order'[o].pay = "Paid" \/ (order'[o].raced /\ order'[o].status = "Closed")
    BY <1>1, <2>2, <2>3, <2>4 DEF Overwritten
  <2> QED
    BY <2>1, <2>5 DEF o
<1>6. Kept
  <2> SUFFICES ASSUME NEW o \in OrderIds, Backed(o)
               PROVE  /\ Backed(o)' /\ order'[o].action = order[o].action
                      /\ couponSet[o].codes # 0 => couponSet'[o].codes # 0
    BY DEF Kept
  <2>1. PICK h \in Hashes : /\ pay[h].order = o
                            /\ pay[h].status \in {"Confirmed", "Dispute"}
                            /\ uni[h].state \in {"confirmed", "disputed"}
    BY DEF Backed
  <2>2. o <= nOrder
    BY <2>1, OrderOfPayment
  <2>3. o # n
    BY <1>1, <2>2, BoundsTyped DEF Base, TypeOK
  <2>4. Backed(o)'
    BY <2>1 DEF Placed, Backed
  <2> QED
    BY <1>1, <2>3, <2>4 DEF Overwritten
<1>7. PaidIsBacked'
  <2>1. ASSUME NEW o \in OrderIds, order'[o].pay = "Paid" PROVE Backed(o)
    <3>1. order[o].pay = "Paid" => Backed(o)
      BY DEF Bought, PaidIsBacked, Backed
    <3> QED
      BY <1>1, <1>2, <2>1, <3>1
  <2> QED
    BY <1>6, <2>1 DEF Kept, PaidIsBacked, Backed
<1>8. \A d \in Addrs : SeenPaid(d)'
  BY <1>6, SeenPaidKept
<1> QED
  BY <1>3, <1>4, <1>5, <1>7, <1>8 DEF Bought, ConfirmedIsPaid

LEMMA BoughtReported ==
    ASSUME Base, Bought, NEW h \in Hashes, doAutoOrderHash(h), SeenKept
    PROVE  Bought'
<1>1. UNCHANGED <<order, rec, uni>>
  BY HashReports
<1>2. ASSUME NEW o \in OrderIds, ~ order'[o].raced
      PROVE  /\ \A r, s \in RecordsOfOrder(o)' : r = s
             /\ RecordsOfOrder(o)' # {} => order'[o].pay = "Paid"
  <2>1. RecordsOfOrder(o)' = RecordsOfOrder(o)
    BY <1>1, SameRecords
  <2> QED
    BY <1>1, <1>2, <2>1 DEF Bought
<1>3. CodesMadeOnce'
  <2> SUFFICES ASSUME NEW o \in OrderIds, order[o].action = "CouponCreate"
               PROVE  /\ couponSet'[o].codes = couponSet[o].codes
                      /\ couponSet'[o].status = "Success" <=> couponSet[o].status = "Success"
    BY <1>1 DEF CodesMadeOnce, Bought
  <2> QED
    BY HashReports
<1>4. ConfirmedIsPaid'
  BY <1>1, HashReports DEF Bought, ConfirmedIsPaid
<1>5. Kept
  <2> SUFFICES ASSUME NEW o \in OrderIds, Backed(o)
               PROVE  Backed(o)' /\ couponSet'[o].codes = couponSet[o].codes
    BY <1>1 DEF Kept
  <2>1. PICK g \in Hashes : /\ pay[g].order = o
                            /\ pay[g].status \in {"Confirmed", "Dispute"}
                            /\ uni[g].state \in {"confirmed", "disputed"}
    BY DEF Backed
  <2>2. pay'[g] = pay[g]
    BY <2>1, HashReports
  <2> QED
    BY <1>1, <2>1, <2>2, HashReports DEF Backed
<1>6. PaidIsBacked'
  BY <1>1, <1>5 DEF Kept, Bought, PaidIsBacked, Backed
<1>7. \A d \in Addrs : SeenPaid(d)'
  BY <1>5, SeenPaidKept
<1> QED
  BY <1>2, <1>3, <1>4, <1>6, <1>7 DEF Bought

LEMMA BoughtConfirmed ==
    ASSUME Base, Bought, NEW h, NEW o, Confirmed(h, o), uni[h].order = o, SeenKept
    PROVE  Bought'
<1>1. /\ h \in Hashes /\ o \in OrderIds /\ order[o].pay \in {"Unpaid", "Paid"}
      /\ \A p \in OrderIds : /\ order'[p].pay = IF p = o THEN "Paid" ELSE order[p].pay
                             /\ order'[p].action = order[p].action
                             /\ order'[p].raced = order[p].raced
                             /\ p # o => order'[p].status = order[p].status
  BY DEF Confirmed, Base, TypeOK, Order
<1>2. ASSUME NEW p \in OrderIds, ~ order'[p].raced
      PROVE  /\ \A r, s \in RecordsOfOrder(p)' : r = s
             /\ RecordsOfOrder(p)' # {} => order'[p].pay = "Paid"
  <2>1. CASE UNCHANGED rec
    <3>1. RecordsOfOrder(p)' = RecordsOfOrder(p)
      BY <2>1, SameRecords
    <3> QED
      BY <1>1, <1>2, <3>1 DEF Bought
  <2>2. ASSUME NEW r \in RecIds, order[o].pay = "Unpaid", rec[r] = NoRecord, rec'[r].order = o,
               \A s \in RecIds : s # r => rec'[s] = rec[s]
        PROVE  /\ \A q, s \in RecordsOfOrder(p)' : q = s
               /\ RecordsOfOrder(p)' # {} => order'[p].pay = "Paid"
    <3>1. CASE p = o
      <4>1. RecordsOfOrder(o) = {}
        BY <1>1, <1>2, <2>2, <3>1 DEF Bought
      <4>2. RecordsOfOrder(o)' \subseteq {r}
        BY <2>2, <4>1 DEF RecordsOfOrder, GetSmtRecordByOrderId
      <4> QED
        BY <1>1, <3>1, <4>2
    <3>2. CASE p # o
      <4>1. RecordsOfOrder(p)' \subseteq RecordsOfOrder(p)
        BY <2>2, <3>2 DEF RecordsOfOrder, GetSmtRecordByOrderId
      <4> QED
        BY <1>1, <1>2, <3>2, <4>1 DEF Bought
    <3> QED
      BY <3>1, <3>2
  <2> QED
    BY <2>1, <2>2 DEF Confirmed
<1>3. CodesMadeOnce'
  <2> SUFFICES ASSUME NEW p \in OrderIds, order[p].action = "CouponCreate"
               PROVE  /\ couponSet'[p].status = "Success" <=> couponSet'[p].codes # 0
                      /\ order'[p].pay = "Paid" => couponSet'[p].codes # 0
                      /\ ~ order[p].raced =>
                           couponSet'[p].codes = IF order'[p].pay = "Paid" THEN 1 ELSE 0
    BY <1>1 DEF CodesMadeOnce
  <2>1. /\ couponSet[p].status = "Success" <=> couponSet[p].codes # 0
        /\ order[p].pay = "Paid" => couponSet[p].codes # 0
        /\ ~ order[p].raced => couponSet[p].codes = IF order[p].pay = "Paid" THEN 1 ELSE 0
    BY DEF Bought, CodesMadeOnce
  <2>2. CASE p # o
    BY <1>1, <2>1, <2>2 DEF Confirmed
  <2>3. CASE p = o
    BY <1>1, <2>1, <2>3 DEF Confirmed
  <2> QED
    BY <2>2, <2>3
<1>4. ASSUME NEW g \in Hashes, pay'[g].status \in {"Confirmed", "Dispute"}
      PROVE  LET q == order'[pay'[g].order]
             IN  q.pay = "Paid" \/ (q.raced /\ q.status = "Closed")
  <2>1. CASE g = h
    BY <1>1, <2>1 DEF Confirmed
  <2>2. CASE g # h
    <3>1. pay'[g] = pay[g]
      BY <1>4, <2>2 DEF Confirmed
    <3>2. pay[g].order \in OrderIds
      BY <1>4, <3>1, OrderOfPayment
    <3> QED
      BY <1>1, <1>4, <3>1, <3>2 DEF Bought, ConfirmedIsPaid
  <2> QED
    BY <2>1, <2>2
<1>5. Backed(o)'
  BY <1>1 DEF Confirmed, Backed
<1>6. Kept
  <2> SUFFICES ASSUME NEW p \in OrderIds, Backed(p)
               PROVE  /\ Backed(p)'
                      /\ order[p].action = "CouponCreate" /\ couponSet[p].codes # 0 =>
                           couponSet'[p].codes # 0
    BY <1>1 DEF Kept
  <2>1. CASE p = o
    <3>1. ASSUME order[o].action = "CouponCreate", couponSet[o].codes # 0 PROVE couponSet'[o].codes # 0
      BY <3>1 DEF Confirmed
    <3> QED
      BY <1>5, <2>1, <3>1
  <2>2. CASE p # o
    <3>1. PICK g \in Hashes : /\ pay[g].order = p
                              /\ pay[g].status \in {"Confirmed", "Dispute"}
                              /\ uni[g].state \in {"confirmed", "disputed"}
      BY DEF Backed
    <3>2. g # h
      BY <2>2, <3>1, OrderOfPayment
    <3>3. pay'[g] = pay[g] /\ uni' = uni /\ couponSet'[p] = couponSet[p]
      BY <2>2, <3>1, <3>2 DEF Confirmed
    <3> QED
      BY <3>1, <3>3 DEF Backed
  <2> QED
    BY <2>1, <2>2
<1>7. PaidIsBacked'
  <2>1. ASSUME NEW p \in OrderIds, order'[p].pay = "Paid" PROVE Backed(p)'
    <3>1. p # o => Backed(p)
      BY <1>1, <2>1 DEF Bought, PaidIsBacked, Backed
    <3> QED
      BY <1>5, <1>6, <3>1 DEF Kept
  <2> QED
    BY <2>1 DEF PaidIsBacked, Backed
<1>8. \A d \in Addrs : SeenPaid(d)'
  BY <1>6, SeenPaidKept
<1> QED
  BY <1>2, <1>3, <1>4, <1>7, <1>8 DEF Bought, ConfirmedIsPaid

LEMMA BoughtStep ==
    ASSUME Base, Bought, [Next]_vars
    PROVE  Bought'
<1>1. SeenKept
  BY StepKeepsSeen
<1>2. ASSUME NEW d \in Addrs, OrderCreate(d) \/ CouponOrderCreate(d) PROVE Bought'
  BY <1>1, <1>2, PlacedPayments, OrderCreatePlaces, CouponOrderCreatePlaces, BoughtPlaced
<1>3. ASSUME NEW w \in Confirmers, ConfirmWrite(w) PROVE Bought'
  BY <1>1, <1>3, ConfirmWriteConfirms, BoughtConfirmed
<1> QED
  BY <1>1, <1>2, <1>3, BoughtQuiet, BoughtReported, QuietOrNot

LEMMA BoughtAlways == Spec => []Bought
<1>1. Init => Bought
  BY BoughtInit
<1>2. Base /\ Bought /\ [Next]_vars => Bought'
  BY BoughtStep
<1> QED
  BY <1>1, <1>2, BaseAlways, PTL DEF Spec

\* An order that gets several payments, confirmed by notices and by the poll in any
\* order and more than once, queues at most one record, and none before it is paid,
\* unless it was overwritten as unpaid while it was paid.
THEOREM OrderServedOnce == Spec => []ServedOnce
<1>1. Bought => ServedOnce
  <2> SUFFICES ASSUME Bought, NEW o \in OrderIds, ~ order[o].raced
               PROVE  /\ Cardinality(RecordsOfOrder(o)) <= 1
                      /\ RecordsOfOrder(o) # {} => order[o].pay = "Paid"
    BY DEF ServedOnce
  <2>1. CASE RecordsOfOrder(o) = {}
    BY <2>1, FS_EmptySet
  <2>2. CASE RecordsOfOrder(o) # {}
    <3>1. PICK r \in RecordsOfOrder(o) : TRUE
      BY <2>2
    <3>2. RecordsOfOrder(o) = {r}
      BY <3>1 DEF Bought
    <3>3. Cardinality({r}) = 1
      BY FS_Singleton
    <3> QED
      BY <2>2, <3>2, <3>3 DEF Bought
  <2> QED
    BY <2>1, <2>2
<1> QED
  BY <1>1, BoughtAlways, PTL

\* However many payments an order for a coupon set gets, its codes are made once,
\* with the first one that is confirmed, unless the order was overwritten while it
\* was paid: then they may be made again, but a paid order never lacks them.
THEOREM SetCodesMadeOnce == Spec => []CodesMadeOnce
<1>1. Bought => CodesMadeOnce
  BY DEF Bought
<1> QED
  BY <1>1, BoughtAlways, PTL

\* The order of a confirmed payment is paid, and stays it when it is replaced, unless
\* a handler that read it before overwrites it as unpaid and closed; and a paid order
\* has a payment that unipay confirmed, also one that such a handler writes back.
THEOREM PaidIffConfirmed == Spec => []ConfirmedIsPaid /\ []PaidIsBacked
<1>1. Bought => ConfirmedIsPaid /\ PaidIsBacked
  BY DEF Bought
<1> QED
  BY <1>1, BoughtAlways, PTL

-----------------------------------------------------------------------------
(* What an order that is a success got *)

\* A chain record's change is on chain, or it was closed as stale and turned into a
\* chain record with its task: either way the account has reached the version.
Reached(r) == (rec[r].onChain \/ rec[r].open) /\ rec[r].ver <= chain[rec[r].acc]

Served(o) ==
    /\ chain[order[o].acc] # 0
    /\ order[o].action = "Renew" =>
         \E r \in RecordsOfOrder(o) : rec[r].type = "Chain" /\ Reached(r)

\* The syncer follows the chain, only what is on chain or was stale is marked, and
\* doOrderCheck has a mint at hand between its two reads.
Delivered ==
    /\ \A a \in Accounts : synced[a] <= chain[a]
    /\ \A r \in RecIds : /\ rec[r].type = "Chain" => rec[r].onChain \/ rec[r].open
                         /\ rec[r].onChain \/ rec[r].open => Reached(r)
    /\ chk.o # 0 => order[chk.o].action = "Mint"
    /\ \A o \in OrderIds :
         order[o].status = "Success" /\ order[o].action # "CouponCreate" => Served(o)

LEMMA DeliveredInit == Init => Delivered
BY BoundsTyped DEF Init, Delivered, NoOrder, NoRecord, ChkIdle

\* What a step has to keep: a record that is marked stays what it is, and a new
\* success was served.
VersionsKept == \A a \in Accounts : chain[a] <= chain'[a] /\ synced'[a] <= chain'[a]
RecordsKept == \A r \in RecIds :
    /\ rec'[r].type = "Chain" => rec'[r].onChain \/ rec'[r].open
    /\ rec'[r].onChain \/ rec'[r].open => rec'[r].ver <= chain'[rec'[r].acc]
    /\ rec[r].type = "Chain" => rec'[r].type = "Chain" /\ rec'[r] = rec[r]
SuccessServed == \A o \in OrderIds :
    order'[o].status = "Success" /\ order'[o].action # "CouponCreate" =>
        /\ order'[o].acc = order[o].acc /\ order'[o].action = order[o].action
        /\ order[o].status = "Success" \/ Served(o)
MintAtHand == chk'.o # 0 => order'[chk'.o].action = "Mint"

LEMMA DeliveredKept ==
    ASSUME Base, Base', Delivered, VersionsKept, RecordsKept, SuccessServed, MintAtHand
    PROVE  Delivered'
<1>1. ASSUME NEW o \in OrderIds, order'[o].status = "Success", order'[o].action # "CouponCreate"
      PROVE  Served(o)'
  <2>1. order'[o].acc = order[o].acc /\ order'[o].action = order[o].action
    BY <1>1 DEF SuccessServed
  <2>2. Served(o)
    BY <1>1, <2>1 DEF SuccessServed, Delivered
  <2>3. chain'[order[o].acc] # 0
    <3>1. order[o].acc \in Accounts
      BY DEF Base, TypeOK, Order
    <3>2. chain[order[o].acc] \in Nat /\ chain'[order[o].acc] \in Nat
      BY <3>1 DEF Base, TypeOK, Versions
    <3> QED
      BY <2>2, <3>1, <3>2 DEF Served, VersionsKept
  <2>4. ASSUME order[o].action = "Renew"
        PROVE  \E r \in RecordsOfOrder(o)' : rec'[r].type = "Chain" /\ Reached(r)'
    <3>1. PICK r \in RecordsOfOrder(o) : rec[r].type = "Chain"
      BY <2>2, <2>4 DEF Served
    <3>2. r \in RecIds /\ rec'[r] = rec[r] /\ r \in RecordsOfOrder(o)'
      BY <3>1 DEF RecordsKept, RecordsOfOrder, GetSmtRecordByOrderId
    <3>3. rec'[r].type = "Chain" /\ Reached(r)'
      BY <3>1, <3>2 DEF RecordsKept, Reached
    <3> QED
      BY <3>2, <3>3
  <2> QED
    BY <2>1, <2>3, <2>4 DEF Served
<1>2. \A r \in RecIds : /\ rec'[r].type = "Chain" => rec'[r].onChain \/ rec'[r].open
                        /\ rec'[r].onChain \/ rec'[r].open => Reached(r)'
  BY DEF RecordsKept, Reached
<1> QED
  BY <1>1, <1>2 DEF VersionsKept, MintAtHand, Delivered

\* Most steps leave records and versions alone.
LEMMA SameVersions ==
    ASSUME Delivered, Base, UNCHANGED <<synced, chain, rec>>
    PROVE  VersionsKept /\ RecordsKept
<1>1. VersionsKept
  BY DEF Delivered, Base, TypeOK, Versions, VersionsKept
<1> QED
  BY <1>1 DEF Delivered, RecordsKept, Reached

\* Most steps leave an order alone, or change something else than what it is for,
\* or end it without success.
LEMMA SameOrders ==
    ASSUME Base, Delivered,
           \A o \in OrderIds : \/ order'[o] = order[o]
                               \/ order'[o] = [order[o] EXCEPT !.old = TRUE]
                               \/ order'[o] = [order[o] EXCEPT !.status = "Fail"],
           chk'.o \in {0, chk.o}
    PROVE  SuccessServed /\ MintAtHand
<1>1. ASSUME NEW o \in OrderIds
      PROVE  /\ order'[o].acc = order[o].acc /\ order'[o].action = order[o].action
             /\ order'[o].status = "Success" => order[o].status = "Success"
  <2>1. order[o] \in Order
    BY DEF Base, TypeOK
  <2> QED
    BY <2>1 DEF Order
<1>2. chk'.o # 0 => chk.o \in OrderIds
  BY BoundsTyped DEF Base, TypeOK, OrderIds
<1> QED
  BY <1>1, <1>2 DEF SuccessServed, MintAtHand, Delivered

LEMMA DeliveredPlaced ==
    ASSUME Base, Base', Delivered, NEW d \in Addrs, OrderCreate(d) \/ CouponOrderCreate(d)
    PROVE  Delivered'
<1> DEFINE n == nOrder + 1
<1>1. UNCHANGED <<synced, chain, rec, chk>>
  BY DEF OrderCreate, CouponOrderCreate, env
<1>2. /\ n \in OrderIds /\ order[n].action = "Absent"
      /\ \A p \in OrderIds : p # n => order'[p].action = order[p].action
  <2>1. order[n].action = "Absent"
    BY PlacedPayments DEF Base, UnusedIds
  <2>2. Placed(n)
    BY OrderCreatePlaces, CouponOrderCreatePlaces
  <2> QED
    BY <2>1, <2>2 DEF Placed, Overwritten
<1>3. ASSUME NEW p \in OrderIds, order'[p].status = "Success"
      PROVE  order'[p] = order[p]
  <2> DEFINE m == make[d]
             new1 == [NoOrder EXCEPT !.action = m.action, !.acc = m.acc, !.addr = d,
                                     !.coupon = m.coupon]
             new2 == [NoOrder EXCEPT !.action = m.action, !.addr = d]
  <2>1. \/ order'[p] = order[p]
        \/ order'[p] = new1
        \/ order'[p] = new2
        \/ m.old = p /\ order'[p] = ReplacedOrder(m)
    <3>1. order \in [OrderIds -> Order]
      BY DEF Base, TypeOK
    <3>2. \/ order' = [order EXCEPT ![n] = new1]
          \/ order' = [q \in OrderIds |-> IF q = n THEN new2
                                          ELSE IF q = m.old THEN ReplacedOrder(m)
                                          ELSE order[q]]
      BY DEF OrderCreate, CouponOrderCreate
    <3> HIDE DEF n, m, new1, new2
    <3> QED
      BY <3>1, <3>2
  <2>2. new1.status = "Default" /\ new2.status = "Default"
    BY DEF NoOrder
  <2>3. m.old = p => ReplacedOrder(m).status = "Closed"
    <3>1. order[p] \in Order
      BY DEF Base, TypeOK
    <3> HIDE DEF m
    <3> QED
      BY <3>1 DEF ReplacedOrder, Order
  <2> HIDE DEF m, new1, new2
  <2> QED
    BY <1>3, <2>1, <2>2, <2>3
<1>4. SuccessServed
  BY <1>3 DEF SuccessServed
<1>5. MintAtHand
  <2>1. chk.o # 0 => chk.o \in OrderIds
    BY BoundsTyped DEF Base, TypeOK, OrderIds
  <2> QED
    BY <1>1, <1>2, <2>1 DEF MintAtHand, Delivered
<1> QED
  BY <1>1, <1>4, <1>5, SameVersions, DeliveredKept

LEMMA DeliveredConfirmed ==
    ASSUME Base, Base', Delivered, NEW w \in Confirmers, ConfirmWrite(w)
    PROVE  Delivered'
<1> DEFINE o == uni[conf[w].h].order
<1>1. Confirmed(conf[w].h, o)
  BY ConfirmWriteConfirms
<1>2. UNCHANGED <<synced, chain, chk>> /\ o \in OrderIds
  BY <1>1 DEF ConfirmWrite, env, Confirmed
<1>3. \A p \in OrderIds : order'[p] = IF p = o THEN PaidOrder(order[o]) ELSE order[p]
  <2>1. order' = [order EXCEPT ![o] = PaidOrder(order[o])] /\ order \in [OrderIds -> Order]
    BY <1>2 DEF ConfirmWrite, Base, TypeOK
  <2> QED
    BY <1>2, <2>1
<1> HIDE DEF o
<1>4. VersionsKept
  BY <1>2 DEF VersionsKept, Delivered, Base, TypeOK, Versions
<1>5. RecordsKept
  <2>1. CASE UNCHANGED rec
    BY <1>2, <2>1 DEF RecordsKept, Delivered, Reached
  <2>2. ASSUME NEW r \in RecIds, rec[r] = NoRecord, rec'[r].type = "Default",
               ~ rec'[r].onChain, ~ rec'[r].open, \A s \in RecIds : s # r => rec'[s] = rec[s]
        PROVE  RecordsKept
    <3>1. NoRecord.type = "Default"
      BY DEF NoRecord
    <3>2. ASSUME NEW s \in RecIds
          PROVE  /\ rec'[s].type = "Chain" => rec'[s].onChain \/ rec'[s].open
                 /\ rec'[s].onChain \/ rec'[s].open => rec'[s].ver <= chain'[rec'[s].acc]
                 /\ rec[s].type = "Chain" => rec'[s].type = "Chain" /\ rec'[s] = rec[s]
      <4>1. CASE s = r
        BY <2>2, <3>1, <4>1
      <4>2. CASE s # r
        BY <1>2, <2>2, <4>2 DEF Delivered, Reached
      <4> QED
        BY <4>1, <4>2
    <3> QED
      BY <3>2 DEF RecordsKept
  <2>3. \/ UNCHANGED rec
        \/ \E r \in RecIds : /\ rec[r] = NoRecord /\ rec'[r].type = "Default"
                             /\ ~ rec'[r].onChain /\ ~ rec'[r].open
                             /\ \A s \in RecIds : s # r => rec'[s] = rec[s]
    <3>1. UNCHANGED rec \/ CreateRecord(o, conf[w].ver)
      BY DEF ConfirmWrite, RecordOfPaidOrder, o
    <3>2. TypeOK /\ conf[w].ver \in Asked /\ nRec \in Nat
      BY BoundsTyped DEF Base, TypeOK
    <3>3. ASSUME CreateRecord(o, conf[w].ver)
          PROVE  \/ UNCHANGED rec
                 \/ /\ nRec + 1 \in RecIds /\ rec'[nRec + 1].type = "Default"
                    /\ ~ rec'[nRec + 1].onChain /\ ~ rec'[nRec + 1].open
                    /\ \A s \in RecIds : s # nRec + 1 => rec'[s] = rec[s]
      BY <1>2, <3>2, <3>3, CreateRecordTyped
    <3>4. nRec + 1 \in RecIds => rec[nRec + 1] = NoRecord
      BY <3>2 DEF Base, UnusedIds
    <3> QED
      BY <3>1, <3>3, <3>4
  <2> QED
    BY <2>1, <2>2, <2>3
<1>6. /\ PaidOrder(order[o]).acc = order[o].acc
      /\ PaidOrder(order[o]).action = order[o].action
      /\ order[o].action # "CouponCreate" => PaidOrder(order[o]).status = order[o].status
  <2>1. order[o] \in Order
    BY <1>2 DEF Base, TypeOK
  <2> QED
    BY <2>1 DEF PaidOrder, Order
<1>7. SuccessServed
  BY <1>3, <1>6 DEF SuccessServed
<1>8. MintAtHand
  <2>1. chk.o # 0 => chk.o \in OrderIds
    BY BoundsTyped DEF Base, TypeOK, OrderIds
  <2> QED
    BY <1>2, <1>3, <1>6, <2>1 DEF MintAtHand, Delivered
<1> QED
  BY <1>4, <1>5, <1>7, <1>8, DeliveredKept

LEMMA DeliveredChecked ==
    ASSUME Base, Base', Delivered, Check \/ OrderCheckFail
    PROVE  Delivered'
<1>1. UNCHANGED <<synced, chain, rec>>
  BY DEF Check, OrderCheckFail, OrderCheckList, OrderCheckRecord, OrderCheckMint,
         OrderCheckRenew, ChkUnchanged, env
<1>2. order \in [OrderIds -> Order] /\ rec \in [RecIds -> Record] /\ ChkIdle.o = 0
  BY DEF Base, TypeOK, ChkIdle
<1>3. ASSUME NEW o \in OrderIds, NEW new \in {"Success", "Fail"}, UpdateOrderStatus(o, new),
             new = "Success" => Served(o), chk'.o = 0
      PROVE  Delivered'
  <2>1. ASSUME NEW p \in OrderIds, order'[p].status = "Success"
        PROVE  /\ order'[p].acc = order[p].acc /\ order'[p].action = order[p].action
               /\ order[p].status = "Success" \/ Served(p)
    <3>1. \/ order'[p] = order[p]
          \/ p = o /\ order'[p] = [order[p] EXCEPT !.status = new]
      BY <1>2, <1>3 DEF UpdateOrderStatus
    <3>2. order[p] \in Order
      BY <1>2
    <3>3. CASE order'[p] = [order[p] EXCEPT !.status = new] /\ p = o
      <4>1. /\ order'[p].acc = order[p].acc /\ order'[p].action = order[p].action
            /\ order'[p].status = new
        BY <3>2, <3>3 DEF Order
      <4> QED
        BY <1>3, <2>1, <3>3, <4>1
    <3> QED
      BY <2>1, <3>1, <3>3
  <2>2. SuccessServed /\ MintAtHand
    BY <1>3, <2>1 DEF SuccessServed, MintAtHand
  <2> QED
    BY <1>1, <2>2, SameVersions, DeliveredKept
<1>4. ASSUME UNCHANGED order, chk'.o = 0 PROVE Delivered'
  BY <1>1, <1>4, SameVersions, SameOrders, DeliveredKept
<1>5. CASE OrderCheckList \/ OrderCheckFail
  BY <1>2, <1>4, <1>5 DEF OrderCheckList, OrderCheckFail, ChkIdle
<1>6. ASSUME NEW o \in OrderIds, OrderCheckRecord(o) PROVE Delivered'
  <2>1. order' = order /\ order[o].action = "Mint" /\ chk'.o = o
    <3>1. chk \in Checking
      BY DEF Base, TypeOK, Checking
    <3> QED
      BY <1>6, <3>1 DEF OrderCheckRecord, Checking
  <2>2. SuccessServed /\ MintAtHand
    BY <2>1 DEF SuccessServed, MintAtHand
  <2> QED
    BY <1>1, <2>2, SameVersions, DeliveredKept
<1>7. CASE OrderCheckMint
  <2> DEFINE o == chk.o
  <2>1. o \in OrderIds /\ order[o].action = "Mint"
    BY <1>7, BoundsTyped DEF OrderCheckMint, Base, TypeOK, OrderIds, Delivered
  <2>2. chk'.o = 0
    BY <1>7 DEF OrderCheckMint, CheckDone, ChkIdle
  <2>3. CASE synced[order[o].acc] = 0
    BY <1>4, <1>7, <2>2, <2>3 DEF OrderCheckMint
  <2>4. CASE synced[order[o].acc] # 0
    <3>1. /\ UpdateOrderStatus(o, MintOutcome(chk.seen))
          /\ MintOutcome(chk.seen) \in {"Success", "Fail"}
      BY <1>7, <2>4 DEF OrderCheckMint, MintOutcome
    <3>2. Served(o)
      <4>1. order[o].acc \in Accounts
        BY <1>2, <2>1 DEF Order
      <4>2. synced[order[o].acc] \in Nat /\ chain[order[o].acc] \in Nat
        BY <4>1 DEF Base, TypeOK, Versions
      <4>3. synced[order[o].acc] <= chain[order[o].acc]
        BY <4>1 DEF Delivered
      <4> QED
        BY <2>1, <2>4, <4>2, <4>3 DEF Served
    <3> QED
      BY <1>3, <2>1, <2>2, <3>1, <3>2
  <2> QED
    BY <2>3, <2>4
<1>8. ASSUME NEW o \in OrderIds, OrderCheckRenew(o) PROVE Delivered'
  <2> DEFINE rs == GetSmtRecordByOrderId(o)
             new == IF rec[Max(rs)].type = "Closed" THEN "Fail" ELSE "Success"
  <2>1. chk'.o = 0
    BY <1>8 DEF OrderCheckRenew, CheckDone, ChkIdle
  <2>2. CASE synced[order[o].acc] = 0 \/ RenewIsOpen(rs)
    BY <1>4, <1>8, <2>1, <2>2 DEF OrderCheckRenew
  <2>3. CASE ~ (synced[order[o].acc] = 0 \/ RenewIsOpen(rs))
    <3>1. UpdateOrderStatus(o, new)
      BY <1>8, <2>3 DEF OrderCheckRenew
    <3>2. Max(rs) \in rs /\ Max(rs) \in RecIds
      <4>1. rs # {} /\ rs \in SUBSET RecIds
        BY <2>3 DEF RenewIsOpen, GetSmtRecordByOrderId
      <4> HIDE DEF rs
      <4> QED
        BY <4>1, LatestExists
    <3>3. ASSUME new = "Success" PROVE Served(o)
      <4>1. rec[Max(rs)].type = "Chain"
        BY <1>2, <2>3, <3>2, <3>3 DEF RenewIsOpen, Record
      <4>2. Reached(Max(rs))
        BY <3>2, <4>1 DEF Delivered
      <4>3. order[o].acc \in Accounts
        BY <1>2 DEF Order
      <4>4. synced[order[o].acc] \in Nat /\ chain[order[o].acc] \in Nat
            /\ synced[order[o].acc] <= chain[order[o].acc]
        BY <4>3 DEF Base, TypeOK, Versions, Delivered
      <4>5. chain[order[o].acc] # 0
        BY <2>3, <4>4
      <4> QED
        BY <3>2, <4>1, <4>2, <4>5 DEF Served, RecordsOfOrder
    <3> QED
      BY <1>3, <2>1, <3>1, <3>3
  <2> QED
    BY <2>2, <2>3
<1> QED
  BY <1>5, <1>6, <1>7, <1>8 DEF Check

LEMMA DeliveredPiped ==
    ASSUME Base, Base', Delivered, Pipeline
    PROVE  Delivered'
<1>1. UNCHANGED <<order, chk>>
  BY DEF Pipeline, OtherRecord, SyncAccount, RecordCommits, RecordToChain, RecordToClosed,
         PipeUnchanged, memory
<1>2. /\ synced \in [Accounts -> Versions] /\ chain \in [Accounts -> Versions]
      /\ rec \in [RecIds -> Record]
      /\ \A a \in Accounts : synced[a] <= chain[a] /\ synced[a] \in Nat /\ chain[a] \in Nat
  BY DEF Base, TypeOK, Versions, Delivered
<1>3. VersionsKept
  <2>1. ASSUME NEW a \in Accounts, SyncAccount(a) PROVE VersionsKept
    <3>1. /\ chain' = chain /\ synced[a] < chain[a]
          /\ \A b \in Accounts : synced'[b] = IF b = a THEN synced[a] + 1 ELSE synced[b]
      BY <1>2, <2>1 DEF SyncAccount
    <3> QED
      BY <1>2, <3>1 DEF VersionsKept
  <2>2. ASSUME NEW r \in RecIds, RecordCommits(r) PROVE VersionsKept
    <3>1. /\ synced' = synced
          /\ \A b \in Accounts : chain'[b] = IF b = rec[r].acc THEN chain[b] + 1 ELSE chain[b]
      BY <1>2, <2>2 DEF RecordCommits
    <3> QED
      BY <1>2, <3>1 DEF VersionsKept
  <2>3. CASE UNCHANGED <<synced, chain>>
    BY <1>2, <2>3 DEF VersionsKept
  <2> QED
    BY <2>1, <2>2, <2>3 DEF Pipeline, OtherRecord, RecordToChain, RecordToClosed
<1>4. RecordsKept
  <2> SUFFICES ASSUME NEW s \in RecIds
               PROVE  /\ rec'[s].type = "Chain" => rec'[s].onChain \/ rec'[s].open
                      /\ rec'[s].onChain \/ rec'[s].open => rec'[s].ver <= chain'[rec'[s].acc]
                      /\ rec[s].type = "Chain" => rec'[s].type = "Chain" /\ rec'[s] = rec[s]
    BY DEF RecordsKept
  <2>1. /\ rec[s] \in Record /\ rec[s].acc \in Accounts /\ rec[s].ver \in Nat
        /\ rec[s].type = "Chain" => rec[s].onChain \/ rec[s].open
        /\ rec[s].onChain \/ rec[s].open => rec[s].ver <= chain[rec[s].acc]
    BY <1>2 DEF Delivered, Reached, Record, Asked
  <2>2. /\ chain[rec[s].acc] \in Nat /\ chain'[rec[s].acc] \in Nat
        /\ chain[rec[s].acc] <= chain'[rec[s].acc]
    BY <1>3, <2>1 DEF VersionsKept, Base, TypeOK, Versions
  <2>3. NoRecord.type = "Default" /\ ~ NoRecord.onChain /\ ~ NoRecord.open
    BY DEF NoRecord
  <2>4. CASE rec'[s] = rec[s]
    BY <2>1, <2>2, <2>4
  <2>5. ASSUME NEW a \in Accounts, OtherRecord(a), rec'[s] # rec[s]
        PROVE  /\ rec[s] = NoRecord /\ rec'[s].type = "Default"
               /\ ~ rec'[s].onChain /\ ~ rec'[s].open
    <3> DEFINE v == synced[a] + 1
               new == [NoRecord EXCEPT !.acc = a, !.ver = v,
                                       !.action = IF v = 1 THEN "Mint" ELSE "Edit"]
    <3>1. rec' = [rec EXCEPT ![nRec + 1] = new]
      BY <2>5 DEF OtherRecord
    <3>2. new.type = "Default" /\ ~ new.onChain /\ ~ new.open
      BY DEF NoRecord
    <3> HIDE DEF new
    <3>3. s = nRec + 1 /\ rec'[s] = new
      BY <1>2, <2>5, <3>1
    <3>4. s > nRec
      BY <3>3, BoundsTyped DEF Base, TypeOK
    <3> QED
      BY <3>2, <3>3, <3>4 DEF Base, UnusedIds
  <2>6. ASSUME NEW r \in RecIds, RecordCommits(r), rec'[s] # rec[s]
        PROVE  /\ rec[s].type = "Default" /\ rec'[s].type = "Default"
               /\ rec'[s].ver <= chain'[rec'[s].acc]
    <3>1. /\ rec[s].type = "Default" /\ rec'[s] = [rec[s] EXCEPT !.onChain = TRUE]
          /\ rec[s].ver = chain[rec[s].acc] + 1
          /\ chain' = [chain EXCEPT ![rec[s].acc] = chain[rec[s].acc] + 1]
      BY <1>2, <2>6 DEF RecordCommits
    <3>2. rec'[s].type = "Default" /\ rec'[s].acc = rec[s].acc /\ rec'[s].ver = rec[s].ver
      BY <2>1, <3>1 DEF Record
    <3>3. chain'[rec[s].acc] = chain[rec[s].acc] + 1
      BY <1>2, <2>1, <3>1
    <3> QED
      BY <2>1, <2>2, <3>1, <3>2, <3>3
  <2>7. ASSUME NEW r \in RecIds, RecordToChain(r), rec'[s] # rec[s]
        PROVE  /\ rec[s].type # "Chain" /\ (rec'[s].onChain \/ rec'[s].open)
               /\ rec'[s].ver <= chain'[rec'[s].acc]
    <3>1. /\ rec[s].type # "Chain" /\ (rec[s].onChain \/ rec[s].open)
          /\ rec'[s] = [rec[s] EXCEPT !.type = "Chain"] /\ chain' = chain
      BY <1>2, <2>7 DEF RecordToChain
    <3>2. /\ rec'[s].acc = rec[s].acc /\ rec'[s].ver = rec[s].ver
          /\ rec'[s].onChain = rec[s].onChain /\ rec'[s].open = rec[s].open
      BY <2>1, <3>1 DEF Record
    <3> QED
      BY <2>1, <3>1, <3>2
  <2>8. ASSUME NEW r \in RecIds, NEW open \in BOOLEAN, RecordToClosed(r, open), rec'[s] # rec[s]
        PROVE  /\ rec[s].type # "Chain" /\ rec'[s].type # "Chain"
               /\ rec'[s].onChain \/ rec'[s].open => rec'[s].ver <= chain'[rec'[s].acc]
    <3>1. \/ /\ rec[s].type = "Default" /\ ~ rec[s].onChain
             /\ rec'[s] = [rec[s] EXCEPT !.type = "Closed", !.open = open]
             /\ open => synced[rec[s].acc] >= rec[s].ver
          \/ rec[s].type = "Closed" /\ rec'[s] = NoRecord
      BY <2>8 DEF RecordToClosed
    <3>2. CASE rec[s].type = "Closed" /\ rec'[s] = NoRecord
      BY <2>3, <3>2
    <3>3. CASE /\ rec[s].type = "Default" /\ ~ rec[s].onChain
               /\ rec'[s] = [rec[s] EXCEPT !.type = "Closed", !.open = open]
               /\ open => synced[rec[s].acc] >= rec[s].ver
      <4>1. /\ rec'[s].type = "Closed" /\ ~ rec'[s].onChain /\ rec'[s].open = open
            /\ rec'[s].acc = rec[s].acc /\ rec'[s].ver = rec[s].ver
        BY <2>1, <3>3 DEF Record
      <4>2. chain' = chain
        BY <2>8 DEF RecordToClosed
      <4>3. synced[rec[s].acc] \in Nat /\ synced[rec[s].acc] <= chain[rec[s].acc]
        BY <1>2, <2>1
      <4>4. open => rec[s].ver <= chain[rec[s].acc]
        BY <2>1, <2>2, <3>3, <4>3
      <4> QED
        BY <3>3, <4>1, <4>2, <4>4
    <3> QED
      BY <3>1, <3>2, <3>3
  <2>9. ASSUME NEW a \in Accounts, SyncAccount(a) PROVE rec'[s] = rec[s]
    BY <2>9 DEF SyncAccount
  <2>10. CASE \E r \in RecIds : RecordToChain(r) \/ RecordCommits(r)
    BY <2>1, <2>4, <2>6, <2>7, <2>10
  <2>11. CASE \E r \in RecIds, open \in BOOLEAN : RecordToClosed(r, open)
    BY <2>4, <2>8, <2>11
  <2>12. CASE \E a \in Accounts : OtherRecord(a) \/ SyncAccount(a)
    BY <2>3, <2>4, <2>5, <2>9, <2>12
  <2> QED
    BY <2>10, <2>11, <2>12 DEF Pipeline
<1> QED
  BY <1>1, <1>3, <1>4, SameOrders, DeliveredKept

LEMMA DeliveredStep ==
    ASSUME Base, Delivered, [Next]_vars
    PROVE  Delivered'
<1>1. Base'
  BY BaseStep
<1>2. ASSUME UNCHANGED <<synced, chain, rec>>,
             \A o \in OrderIds : \/ order'[o] = order[o]
                                 \/ order'[o] = [order[o] EXCEPT !.old = TRUE]
                                 \/ order'[o] = [order[o] EXCEPT !.status = "Fail"],
             chk'.o \in {0, chk.o}
      PROVE  Delivered'
  BY <1>1, <1>2, SameVersions, SameOrders, DeliveredKept
<1>3. CASE UNCHANGED <<synced, chain, rec, order, chk>>
  BY <1>2, <1>3
<1>4. CASE Orders
  <2>1. CASE \E d \in Addrs : OrderCreate(d) \/ CouponOrderCreate(d)
    BY <1>1, <2>1, DeliveredPlaced
  <2>2. CASE ~ \E d \in Addrs : OrderCreate(d) \/ CouponOrderCreate(d)
    BY <1>3, <1>4, <2>2
    DEF Orders, OrderCheck, OrderLock, OrderFail, CouponOrderCheck, CouponOrderRead, env
  <2> QED
    BY <2>1, <2>2
<1>5. CASE Confirm
  <2>1. CASE \E w \in Confirmers : ConfirmWrite(w)
    BY <1>1, <2>1, DeliveredConfirmed
  <2>2. CASE ~ \E w \in Confirmers : ConfirmWrite(w)
    BY <1>3, <1>5, <2>2 DEF Confirm, ConfirmRead, ConfirmFail, env
  <2> QED
    BY <2>1, <2>2
<1>6. CASE Check \/ OrderCheckFail
  BY <1>1, <1>6, DeliveredChecked
<1>7. CASE Refund \/ RefundFail
  BY <1>3, <1>7 DEF Refund, RefundFail, RefundList, RefundOrder,
     UpdateRefundStatusToRefundIng, RfdUnchanged, env
<1>8. CASE Notices
  <2>1. UNCHANGED <<synced, chain, rec, chk>>
    BY <1>8 DEF Notices, NoticeRefunded, PollRefunded, UpdateRefundStatusToRefunded,
       UpdatePayHashStatusToFailByDispute, env, memory
  <2>2. \/ order' = order
        \/ \E o : order' = [order EXCEPT ![o].status = "Fail"]
    BY <1>8 DEF Notices, NoticeRefunded, PollRefunded, UpdateRefundStatusToRefunded,
       UpdatePayHashStatusToFailByDispute
  <2>3. order \in [OrderIds -> Order]
    BY DEF Base, TypeOK
  <2>4. \A o \in OrderIds : order'[o] = order[o] \/ order'[o] = [order[o] EXCEPT !.status = "Fail"]
    BY <2>2, <2>3
  <2> QED
    BY <1>2, <2>1, <2>4
<1>9. CASE Clients \/ Unipay
  BY <1>3, <1>9 DEF Clients, Unipay, MakePayment, doAutoOrderHash, UniSettle, UniRefund,
     UniUnchanged, env, memory
<1>10. CASE Pipeline
  BY <1>1, <1>10, DeliveredPiped
<1>11. CASE Environment
  <2>1. UNCHANGED <<synced, chain, rec>> /\ chk'.o \in {0, chk.o}
    BY <1>11 DEF Environment, GrowOld, LockExpire, Crash, ChkIdle, env, memory
  <2>2. order' = order \/ \E o : order' = [order EXCEPT ![o].old = TRUE]
    BY <1>11 DEF Environment, GrowOld, LockExpire, Crash
  <2>3. order \in [OrderIds -> Order]
    BY DEF Base, TypeOK
  <2>4. \A o \in OrderIds : order'[o] = order[o] \/ order'[o] = [order[o] EXCEPT !.old = TRUE]
    BY <2>2, <2>3
  <2> QED
    BY <1>2, <2>1, <2>4
<1>12. CASE UNCHANGED vars
  BY <1>3, <1>12 DEF vars
<1> QED
  BY <1>4, <1>5, <1>6, <1>7, <1>8, <1>9, <1>10, <1>11, <1>12 DEF Next

\* An order that is a success got what it was for: its account is on chain, and the
\* record of a renewal too, or the account is past the version that the record, closed
\* as stale and turned into a chain record with its task, asked for.
THEOREM SuccessIsServed == Spec => []SuccessIsOnChain
<1>1. Init => Delivered
  BY DeliveredInit
<1>2. Base /\ Delivered /\ [Next]_vars => Delivered'
  BY DeliveredStep
<1>3. Base /\ Delivered => SuccessIsOnChain
  <2> SUFFICES ASSUME Base, Delivered, NEW o \in OrderIds,
                      order[o].status = "Success", order[o].action # "CouponCreate"
               PROVE  /\ chain[order[o].acc] # 0
                      /\ order[o].action = "Renew" =>
                           \E r \in RecordsOfOrder(o) :
                               /\ rec[r].type = "Chain"
                               /\ rec[r].onChain \/ rec[r].open
                               /\ chain[rec[r].acc] >= rec[r].ver
    BY DEF SuccessIsOnChain
  <2>1. Served(o)
    BY DEF Delivered
  <2>2. ASSUME order[o].action = "Renew"
        PROVE  \E r \in RecordsOfOrder(o) :
                 /\ rec[r].type = "Chain"
                 /\ rec[r].onChain \/ rec[r].open
                 /\ chain[rec[r].acc] >= rec[r].ver
    <3>1. PICK r \in RecordsOfOrder(o) : rec[r].type = "Chain" /\ Reached(r)
      BY <2>1, <2>2 DEF Served
    <3>2. r \in RecIds
      BY DEF RecordsOfOrder, GetSmtRecordByOrderId
    <3>3. rec[r].acc \in Accounts /\ rec[r].ver \in Nat
      BY <3>2 DEF Base, TypeOK, Record, Asked
    <3>4. chain[rec[r].acc] \in Nat
      BY <3>3 DEF Base, TypeOK, Versions
    <3> QED
      BY <3>1, <3>3, <3>4 DEF Reached
  <2> QED
    BY <2>1, <2>2 DEF Served
<1> QED
  BY <1>1, <1>2, <1>3, BaseAlways, PTL DEF Spec

-----------------------------------------------------------------------------
(* What is refunded, while no order is replaced *)

\* A record that has ended without a change on chain.
Lost(r) == rec[r].type # "Default" /\ ~ rec[r].onChain

Failed(o) ==
    /\ order[o].pay = "Paid" /\ order[o].status = "Fail"
    /\ \A r \in RecordsOfOrder(o) : Lost(r)

\* Only payments of failed orders are marked.  The orders that doOrderCheck has in
\* its list are paid and not a success, and a mint about to fail has no open record.
\* No order is overwritten.
Settled ==
    /\ \A h \in Hashes : pay[h].refund # "Default" => pay[h].status # "Absent"
    /\ \A h \in Hashes, o \in OrderIds :
         pay[h].refund # "Default" /\ pay[h].order = o => Failed(o)
    /\ \A o \in chk.list : order[o].pay = "Paid" /\ order[o].status \in {"Default", "Fail"}
    /\ \A o \in OrderIds : chk.o = o =>
         /\ o \in chk.list
         /\ chk.seen \in {"none", "Closed"} => \A r \in RecordsOfOrder(o) : Lost(r)
    /\ \A r \in RecIds : rec[r].type = "Closed" => ~ rec[r].onChain
    /\ \A o \in OrderIds : ~ order[o].raced
    /\ \A d \in Addrs : make[d].pc \notin {"read", "save"}

LEMMA SettledInit == Init => Settled
<1> SUFFICES ASSUME Init PROVE Settled
  OBVIOUS
<1>1. \A h \in Hashes : pay[h].refund = "Default"
  BY DEF Init, NoPayment
<1>2. chk.list = {} /\ chk.o \notin OrderIds /\ \A d \in Addrs : make[d].pc = "idle"
  BY BoundsTyped DEF Init, ChkIdle, MakeIdle
<1>3. /\ \A r \in RecIds : rec[r].type = "Default"
      /\ \A o \in OrderIds : ~ order[o].raced
  BY DEF Init, NoRecord, NoOrder
<1> QED
  BY <1>1, <1>2, <1>3 DEF Settled

\* What a step has to keep of a paid order and of a payment that is marked.
PaidKept == \A o \in OrderIds : order[o].pay = "Paid" =>
    /\ order'[o].pay = "Paid"
    /\ order'[o].status \in {order[o].status, "Fail"}
    /\ \A r \in RecordsOfOrder(o)' : r \in RecordsOfOrder(o) /\ (Lost(r) => Lost(r)')
MarksKept == \A h \in Hashes : pay'[h].refund # "Default" =>
    /\ pay[h].refund # "Default" /\ pay'[h].status # "Absent" /\ pay'[h].order = pay[h].order
ClosedKept == \A r \in RecIds : rec'[r].type = "Closed" => ~ rec'[r].onChain
NoneRaced == \A o \in OrderIds : ~ order'[o].raced
NoneReplaced == \A d \in Addrs : make'[d].pc \notin {"read", "save"}

LEMMA SettledKept ==
    ASSUME Base, Settled, PaidKept, MarksKept, ClosedKept, NoneRaced, NoneReplaced,
           chk' \in {chk, ChkIdle}
    PROVE  Settled'
<1>1. ASSUME NEW h \in Hashes, NEW o \in OrderIds,
             pay'[h].refund # "Default", pay'[h].order = o
      PROVE  Failed(o)'
  <2>1. Failed(o)
    BY <1>1 DEF Settled, MarksKept
  <2> QED
    BY <2>1 DEF Failed, PaidKept
<1>2. ChkIdle.list = {} /\ ChkIdle.o \notin OrderIds
  BY BoundsTyped DEF ChkIdle
<1>3. ASSUME NEW o \in chk'.list
      PROVE  order'[o].pay = "Paid" /\ order'[o].status \in {"Default", "Fail"}
  <2>1. o \in chk.list /\ o \in OrderIds
    BY <1>2 DEF Base, TypeOK
  <2> QED
    BY <2>1 DEF Settled, PaidKept
<1>4. ASSUME NEW o \in OrderIds, chk'.o = o
      PROVE  /\ o \in chk'.list
             /\ chk'.seen \in {"none", "Closed"} => \A r \in RecordsOfOrder(o)' : Lost(r)'
  <2>1. chk' = chk
    BY <1>2, <1>4
  <2>2. /\ o \in chk.list
        /\ chk.seen \in {"none", "Closed"} => \A r \in RecordsOfOrder(o) : Lost(r)
    BY <1>4, <2>1 DEF Settled
  <2>3. order[o].pay = "Paid"
    BY <2>2 DEF Settled
  <2> QED
    BY <2>1, <2>2, <2>3 DEF PaidKept
<1>5. \A h \in Hashes : pay'[h].refund # "Default" => pay'[h].status # "Absent"
  BY DEF MarksKept
<1> QED
  BY <1>1, <1>3, <1>4, <1>5 DEF Settled, ClosedKept, NoneRaced, NoneReplaced

LEMMA SamePaid ==
    ASSUME Base, UNCHANGED rec,
           \A o \in OrderIds : \/ order'[o] = order[o] \/ order[o].pay = "Unpaid"
                               \/ order'[o] = [order[o] EXCEPT !.old = TRUE]
                               \/ order'[o] = [order[o] EXCEPT !.status = "Fail"]
    PROVE  PaidKept
<1>1. ASSUME NEW o \in OrderIds, order[o].pay = "Paid"
      PROVE  order'[o].pay = "Paid" /\ order'[o].status \in {order[o].status, "Fail"}
  <2>1. order[o] \in Order
    BY DEF Base, TypeOK
  <2> QED
    BY <1>1, <2>1 DEF Order
<1>2. \A r \in RecIds : Lost(r)' = Lost(r)
  BY DEF Lost
<1> QED
  BY <1>1, <1>2, SameRecords DEF PaidKept, RecordsOfOrder, GetSmtRecordByOrderId

LEMMA SameFlags ==
    ASSUME Base, Settled, UNCHANGED rec,
           \A o \in OrderIds : \/ order'[o] = order[o]
                               \/ order'[o] = [order[o] EXCEPT !.old = TRUE]
                               \/ order'[o] = [order[o] EXCEPT !.status = "Fail"]
    PROVE  ClosedKept /\ NoneRaced
<1>1. \A o \in OrderIds : order[o] \in Order
  BY DEF Base, TypeOK
<1>2. \A o \in OrderIds : order'[o].raced = order[o].raced
  BY <1>1 DEF Order
<1> QED
  BY <1>2 DEF Settled, ClosedKept, NoneRaced

LEMMA SameMarks ==
    ASSUME Base, Settled,
           \A h \in Hashes :
              \/ pay'[h] = pay[h]
              \/ pay'[h] = [pay[h] EXCEPT !.old = TRUE]
              \/ pay'[h].refund = "Default"
              \/ \E s \in {"Refunding", "Refunded"} :
                   pay[h].refund # "Default" /\ pay'[h] = [pay[h] EXCEPT !.refund = s]
              \/ \E s \in {"Dispute", "Rejected"} : pay'[h] = [pay[h] EXCEPT !.status = s]
    PROVE  MarksKept
<1> SUFFICES ASSUME NEW h \in Hashes, pay'[h].refund # "Default"
             PROVE  /\ pay[h].refund # "Default" /\ pay'[h].status # "Absent"
                    /\ pay'[h].order = pay[h].order
  BY DEF MarksKept
<1>1. pay[h] \in Payment /\ (pay[h].refund # "Default" => pay[h].status # "Absent")
  BY DEF Base, TypeOK, Settled
<1> QED
  BY <1>1 DEF Payment

LEMMA SettledOrders ==
    ASSUME Base, Settled, "CouponCreate" \notin ActionTypes, Orders
    PROVE  Settled'
<1>1. PICK d \in Addrs :
        \/ \E action \in ActionTypes, a \in Accounts, c \in Coupons \cup {NoCoupon} :
             OrderCheck(d, action, a, c)
        \/ OrderLock(d) \/ OrderCreate(d) \/ OrderFail(d)
        \/ CouponOrderRead(d) \/ CouponOrderCreate(d)
  BY DEF Orders
<1>2. ~ CouponOrderRead(d) /\ ~ CouponOrderCreate(d)
  BY DEF Settled, CouponOrderRead, CouponOrderCreate
<1>3. UNCHANGED <<rec, chk>>
  BY <1>1, <1>2 DEF OrderCheck, OrderLock, OrderCreate, OrderFail
<1>4. NoneReplaced
  <2>1. /\ make \in [Addrs -> Making]
        /\ \A e \in Addrs : make[e].pc \notin {"read", "save"} /\ MakeIdle.pc = "idle"
    BY MakeIdleTyped DEF Base, TypeOK, Making, Settled
  <2>2. CASE make' = [make EXCEPT ![d] = MakeIdle]
    BY <2>1, <2>2 DEF NoneReplaced
  <2>3. CASE make' = [make EXCEPT ![d].pc = "create"]
    <3>1. make[d] \in Making
      BY <2>1
    <3>2. make'[d].pc = "create" /\ \A e \in Addrs : e # d => make'[e] = make[e]
      BY <2>1, <2>3, <3>1 DEF Making
    <3> QED
      BY <2>1, <3>2 DEF NoneReplaced
  <2>4. ASSUME NEW action \in ActionTypes, NEW a \in Accounts, NEW c \in Coupons \cup {NoCoupon},
               OrderCheck(d, action, a, c)
        PROVE  NoneReplaced
    <3> DEFINE m == [MakeIdle EXCEPT !.pc = IF c = NoCoupon THEN "create" ELSE "lock",
                                     !.action = action, !.acc = a, !.coupon = c]
    <3>1. m.pc \in {"create", "lock"}
      BY DEF MakeIdle
    <3>2. make' = [make EXCEPT ![d] = m]
      BY <2>4 DEF OrderCheck
    <3> HIDE DEF m
    <3>3. \A e \in Addrs : make'[e] = IF e = d THEN m ELSE make[e]
      BY <2>1, <3>2
    <3> QED
      BY <2>1, <3>1, <3>3 DEF NoneReplaced
  <2> QED
    BY <1>1, <1>2, <2>2, <2>3, <2>4 DEF OrderLock, OrderCreate, OrderFail
<1>5. PaidKept
  <2>1. \A o \in OrderIds : order'[o] = order[o] \/ order[o].pay = "Unpaid"
    <3>1. CASE OrderCreate(d)
      <4>1. order \in [OrderIds -> Order] /\ order[nOrder + 1].pay = "Unpaid"
        BY <3>1, PlacedPayments
      <4>2. \A o \in OrderIds : o # nOrder + 1 => order'[o] = order[o]
        BY <3>1, <4>1 DEF OrderCreate
      <4> QED
        BY <4>1, <4>2
    <3>2. CASE ~ OrderCreate(d)
      BY <1>1, <1>2, <3>2 DEF OrderCheck, OrderLock, OrderFail
    <3> QED
      BY <3>1, <3>2
  <2> QED
    BY <1>3, <2>1, SamePaid
<1>6. MarksKept
  <2>1. \A h \in Hashes : pay'[h] = pay[h] \/ pay'[h].refund = "Default"
    <3>1. \/ pay' = pay
          \/ \E g \in Hashes : pay' = [pay EXCEPT ![g] = [NoPayment EXCEPT !.order = nOrder + 1,
                                                                         !.status = "Pending"]]
      BY <1>1, <1>2 DEF OrderCheck, OrderLock, OrderCreate, OrderFail, StorePayment
    <3>2. pay \in [Hashes -> Payment]
      BY DEF Base, TypeOK
    <3>3. [NoPayment EXCEPT !.order = nOrder + 1, !.status = "Pending"].refund = "Default"
      BY DEF NoPayment
    <3> QED
      BY <3>1, <3>2, <3>3
  <2> QED
    BY <2>1, SameMarks
<1>7. ClosedKept /\ NoneRaced
  <2>1. \A o \in OrderIds : ~ order'[o].raced
    <3>1. CASE OrderCreate(d)
      <4> DEFINE new == [NoOrder EXCEPT !.action = make[d].action, !.acc = make[d].acc,
                                        !.addr = d, !.coupon = make[d].coupon]
      <4>1. order \in [OrderIds -> Order] /\ order' = [order EXCEPT ![nOrder + 1] = new]
        BY <3>1 DEF OrderCreate, Base, TypeOK
      <4>2. ~ new.raced
        BY DEF NoOrder
      <4> HIDE DEF new
      <4> QED
        BY <4>1, <4>2 DEF Settled
    <3>2. CASE ~ OrderCreate(d)
      BY <1>1, <1>2, <3>2 DEF OrderCheck, OrderLock, OrderFail, Settled
    <3> QED
      BY <3>1, <3>2
  <2> QED
    BY <1>3, <2>1 DEF Settled, ClosedKept, NoneRaced
<1> QED
  BY <1>3, <1>4, <1>5, <1>6, <1>7, SettledKept

LEMMA SettledConfirmed ==
    ASSUME Base, Settled, NEW w \in Confirmers, ConfirmWrite(w)
    PROVE  Settled'
<1> DEFINE h == conf[w].h
           o == uni[h].order
<1>1. Confirmed(h, o)
  BY ConfirmWriteConfirms
<1>2. chk' = chk /\ make' = make
  BY DEF ConfirmWrite
<1>3. PaidKept
  <2> SUFFICES ASSUME NEW p \in OrderIds, order[p].pay = "Paid"
               PROVE  /\ order'[p].pay = "Paid" /\ order'[p].status = order[p].status
                      /\ \A r \in RecordsOfOrder(p)' :
                           r \in RecordsOfOrder(p) /\ rec'[r] = rec[r]
    BY DEF PaidKept, Lost
  <2>1. order'[p] = order[p]
    <3>1. order \in [OrderIds -> Order] /\ order' = [order EXCEPT ![o] = PaidOrder(order[o])]
      BY <1>1 DEF Base, TypeOK, ConfirmWrite, Confirmed
    <3>2. p = o => PaidOrder(order[o]) = order[p]
      BY DEF PaidOrder
    <3> HIDE DEF o
    <3> QED
      BY <3>1, <3>2
  <2> HIDE DEF h, o
  <2>2. CASE UNCHANGED rec
    <3>1. RecordsOfOrder(p)' = RecordsOfOrder(p)
      BY <2>2, SameRecords
    <3> QED
      BY <2>1, <2>2, <3>1
  <2>3. ASSUME order[o].pay = "Unpaid", NEW r \in RecIds, rec'[r].order = o,
               \A s \in RecIds : s # r => rec'[s] = rec[s]
        PROVE  \A s \in RecordsOfOrder(p)' :
                 s \in RecordsOfOrder(p) /\ rec'[s] = rec[s]
    <3>1. p # o
      BY <2>3
    <3> QED
      BY <2>3, <3>1 DEF RecordsOfOrder, GetSmtRecordByOrderId
  <2>4. \A r \in RecordsOfOrder(p)' :
          r \in RecordsOfOrder(p) /\ rec'[r] = rec[r]
    BY <1>1, <2>2, <2>3 DEF Confirmed, RecordsOfOrder, GetSmtRecordByOrderId
  <2> QED
    BY <2>1, <2>4
<1>4. MarksKept
  <2> SUFFICES ASSUME NEW g \in Hashes, pay'[g].refund # "Default"
               PROVE  /\ pay[g].refund # "Default" /\ pay'[g].status # "Absent"
                      /\ pay'[g].order = pay[g].order
    BY DEF MarksKept
  <2>1. pay[g] \in Payment /\ (pay[g].refund # "Default" => pay[g].status # "Absent")
    BY DEF Base, TypeOK, Settled
  <2>2. \/ g = h /\ pay'[g] = [pay[g] EXCEPT !.order = o, !.status = "Confirmed", !.old = FALSE]
        \/ pay'[g] = [pay[g] EXCEPT !.status = "Rejected"]
        \/ pay'[g] = pay[g]
    BY DEF ConfirmWrite
  <2>3. pay[g].status # "Absent" => pay[g].order = uni[g].order
    BY OrderOfPayment
  <2> HIDE DEF h
  <2>4. pay[g].refund # "Default" /\ pay'[g].status # "Absent"
    BY <2>1, <2>2 DEF Payment
  <2>5. pay'[g].order = pay[g].order
    BY <2>1, <2>2, <2>3, <2>4 DEF Payment
  <2> QED
    BY <2>4, <2>5
<1>5. ClosedKept /\ NoneRaced
  <2>1. \A r \in RecIds : rec'[r] = rec[r] \/ rec'[r].type = "Default"
    BY <1>1 DEF Confirmed
  <2> QED
    BY <1>1, <2>1 DEF Confirmed, Settled, ClosedKept, NoneRaced
<1> QED
  BY <1>2, <1>3, <1>4, <1>5, SettledKept DEF Settled, NoneReplaced

\* An order of the list is settled: it fails only if it has no open record.
LEMMA SettledUpdated ==
    ASSUME Base, Settled, UNCHANGED ChkUnchanged,
           NEW o \in chk.list, NEW new \in {"Success", "Fail"}, UpdateOrderStatus(o, new),
           new = "Fail" => \A r \in RecordsOfOrder(o) : Lost(r),
           CheckDone(o)
    PROVE  Settled'
<1>1. /\ order \in [OrderIds -> Order] /\ pay \in [Hashes -> Payment] /\ o \in OrderIds
      /\ order[o].pay = "Paid" /\ order[o].status \in {"Default", "Fail"}
  BY DEF Base, TypeOK, Settled
<1>2. UNCHANGED <<rec, make>> /\ chk'.o = 0 /\ chk'.list = chk.list \ {o}
  BY DEF ChkUnchanged, CheckDone, ChkIdle
<1>3. ASSUME NEW p \in OrderIds, order[p].status # "Default" \/ p # o
      PROVE  order'[p] = order[p]
  BY <1>1, <1>3 DEF UpdateOrderStatus
<1>4. new = "Fail" => order'[o].pay = "Paid" /\ order'[o].status = "Fail"
  <2>1. \/ order'[o] = order[o] /\ order[o].status = "Fail"
        \/ order'[o] = [order[o] EXCEPT !.status = new]
    BY <1>1 DEF UpdateOrderStatus
  <2>2. order[o] \in Order
    BY <1>1
  <2> QED
    BY <1>1, <2>1, <2>2 DEF Order
<1>5. ASSUME NEW h \in Hashes, NEW p \in OrderIds, pay'[h].refund # "Default",
             pay'[h].order = p
      PROVE  Failed(p)' /\ pay'[h].status # "Absent"
  <2>1. CASE pay'[h] = pay[h]
    <3>1. pay'[h].status # "Absent" /\ Failed(p)
      BY <1>5, <2>1 DEF Settled
    <3>2. order'[p] = order[p]
      BY <1>3, <3>1 DEF Failed
    <3>3. Failed(p)'
      BY <1>2, <3>1, <3>2, SameRecords DEF Failed, Lost
    <3> QED
      BY <3>1, <3>3
  <2>2. CASE pay'[h] # pay[h]
    <3>1. /\ new = "Fail" /\ pay[h].order = o /\ pay[h].status = "Confirmed"
          /\ pay'[h] = [pay[h] EXCEPT !.refund = "UnRefund"]
      BY <2>2 DEF UpdateOrderStatus
    <3>2. pay[h] \in Payment
      BY <1>1
    <3>3. pay'[h].order = o /\ pay'[h].status = "Confirmed"
      BY <3>1, <3>2 DEF Payment
    <3>4. p = o
      BY <1>5, <3>3
    <3>5. Failed(p)'
      BY <1>2, <1>4, <3>1, <3>4, SameRecords DEF Failed, Lost
    <3> QED
      BY <3>3, <3>5
  <2> QED
    BY <2>1, <2>2
<1>6. \A h \in Hashes : pay'[h].refund # "Default" => pay'[h].status # "Absent"
  <2>1. \A h \in Hashes : pay'[h] = pay[h] \/ (/\ pay[h].status = "Confirmed"
                                              /\ pay'[h] = [pay[h] EXCEPT !.refund = "UnRefund"])
    BY DEF UpdateOrderStatus
  <2>2. ASSUME NEW h \in Hashes, pay'[h].refund # "Default" PROVE pay'[h].status # "Absent"
    <3>1. pay[h] \in Payment
      BY <1>1
    <3> QED
      BY <2>1, <2>2, <3>1 DEF Payment, Settled
  <2> QED
    BY <2>2
<1>7. \A p \in chk'.list : order'[p].pay = "Paid" /\ order'[p].status \in {"Default", "Fail"}
  BY <1>2, <1>3 DEF Settled, Base, TypeOK
<1>8. \A p \in OrderIds : ~ order'[p].raced
  BY UpdateOrderStatusKeeps, <1>1 DEF Settled
<1> QED
  BY <1>2, <1>5, <1>6, <1>7, <1>8, BoundsTyped DEF Settled

LEMMA SettledChecked ==
    ASSUME Base, Settled, Bought, Check
    PROVE  Settled'
<1>1. UNCHANGED <<rec, make>>
  BY DEF Check, OrderCheckList, OrderCheckRecord, OrderCheckMint, OrderCheckRenew, ChkUnchanged
<1>2. chk \in Checking /\ rec \in [RecIds -> Record]
  BY DEF Base, TypeOK, Checking
<1>3. ASSUME NEW o \in OrderIds, GetSmtRecordByOrderId(o) # {} =>
                                   rec[Max(GetSmtRecordByOrderId(o))].type = "Closed"
      PROVE  \A r \in RecordsOfOrder(o) : Lost(r)
  <2> SUFFICES ASSUME NEW r \in RecordsOfOrder(o) PROVE Lost(r)
    OBVIOUS
  <2> DEFINE rs == GetSmtRecordByOrderId(o)
  <2>1. rs \in SUBSET RecIds /\ r \in rs /\ rs = RecordsOfOrder(o)
    BY DEF GetSmtRecordByOrderId, RecordsOfOrder
  <2> HIDE DEF rs
  <2>2. Max(rs) \in rs
    BY <2>1, LatestExists
  <2>3. Max(rs) = r
    BY <2>1, <2>2 DEF Bought, Settled
  <2> QED
    BY <1>3, <2>1, <2>3 DEF rs, Settled, Lost
<1>4. ASSUME UNCHANGED <<order, pay>>,
             \A o \in chk'.list : order[o].pay = "Paid" /\ order[o].status \in {"Default", "Fail"},
             \A o \in OrderIds : chk'.o = o =>
               /\ o \in chk'.list
               /\ chk'.seen \in {"none", "Closed"} => \A r \in RecordsOfOrder(o) : Lost(r)
      PROVE  Settled'
  <2>1. \A o \in OrderIds : RecordsOfOrder(o)' = RecordsOfOrder(o)
    BY <1>1, SameRecords
  <2>2. ASSUME NEW o \in OrderIds, Failed(o) PROVE Failed(o)'
    BY <1>1, <1>4, <2>1, <2>2 DEF Failed, Lost
  <2>3. ASSUME NEW h \in Hashes, NEW o \in OrderIds, pay'[h].refund # "Default",
               pay'[h].order = o
        PROVE  Failed(o)'
    BY <1>4, <2>2, <2>3 DEF Settled
  <2>4. ASSUME NEW o \in OrderIds, chk'.o = o
        PROVE  /\ o \in chk'.list
               /\ chk'.seen \in {"none", "Closed"} => \A r \in RecordsOfOrder(o)' : Lost(r)'
    BY <1>1, <1>4, <2>1, <2>4 DEF Lost
  <2>5. \A h \in Hashes : pay'[h].refund # "Default" => pay'[h].status # "Absent"
    BY <1>4 DEF Settled
  <2> QED
    BY <1>1, <1>4, <2>3, <2>4, <2>5 DEF Settled
<1>5. CASE OrderCheckList
  <2>1. chk'.o = 0 /\ chk'.list = GetNeedCheckOrderList /\ UNCHANGED <<order, pay>>
    BY <1>5 DEF OrderCheckList, ChkIdle
  <2> QED
    BY <1>4, <2>1, BoundsTyped DEF GetNeedCheckOrderList, Oldest, Unsettled
<1>6. ASSUME NEW o \in OrderIds, OrderCheckRecord(o) PROVE Settled'
  <2> DEFINE rs == GetSmtRecordByOrderId(o)
  <2>1. /\ chk'.o = o /\ chk'.list = chk.list /\ o \in chk.list
        /\ chk'.seen = IF rs = {} THEN "none" ELSE rec[Max(rs)].type
        /\ UNCHANGED <<order, pay>>
    BY <1>2, <1>6 DEF OrderCheckRecord, Checking
  <2>2. chk'.seen \in {"none", "Closed"} => \A r \in RecordsOfOrder(o) : Lost(r)
    <3>1. ASSUME rs # {} PROVE rec[Max(rs)].type \in {"Default", "Closed", "Chain"}
      <4>1. Max(rs) \in RecIds
        BY <3>1, LatestExists DEF GetSmtRecordByOrderId
      <4> QED
        BY <1>2, <4>1 DEF Record
    <3> QED
      BY <1>3, <2>1, <3>1
  <2> QED
    BY <1>4, <2>1, <2>2 DEF Settled
<1>7. CASE OrderCheckMint
  <2> DEFINE o == chk.o
             new == MintOutcome(chk.seen)
  <2>1. o \in OrderIds /\ o \in chk.list
    BY <1>2, <1>7, BoundsTyped DEF OrderCheckMint, Settled, Checking, OrderIds
  <2>2. CASE synced[order[o].acc] = 0
    <3>1. UNCHANGED <<order, pay>> /\ chk'.o = 0 /\ chk'.list = chk.list \ {o}
      BY <1>7, <2>2 DEF OrderCheckMint, CheckDone, ChkIdle
    <3> QED
      BY <1>4, <3>1, BoundsTyped DEF Settled
  <2>3. CASE synced[order[o].acc] # 0
    <3>1. UpdateOrderStatus(o, new) /\ CheckDone(o) /\ UNCHANGED ChkUnchanged
      BY <1>7, <2>3 DEF OrderCheckMint
    <3>2. /\ new \in {"Success", "Fail"}
          /\ new = "Fail" => \A r \in RecordsOfOrder(o) : Lost(r)
      BY <2>1 DEF MintOutcome, Settled
    <3> HIDE DEF new, o
    <3> QED
      BY <2>1, <3>1, <3>2, SettledUpdated
  <2> QED
    BY <2>2, <2>3
<1>8. ASSUME NEW o \in OrderIds, OrderCheckRenew(o) PROVE Settled'
  <2> DEFINE rs == GetSmtRecordByOrderId(o)
             new == IF rec[Max(rs)].type = "Closed" THEN "Fail" ELSE "Success"
  <2>1. o \in chk.list
    BY <1>8 DEF OrderCheckRenew
  <2>2. CASE synced[order[o].acc] = 0 \/ RenewIsOpen(rs)
    <3>1. UNCHANGED <<order, pay>> /\ chk'.o = 0 /\ chk'.list = chk.list \ {o}
      BY <1>8, <2>2 DEF OrderCheckRenew, CheckDone, ChkIdle
    <3> QED
      BY <1>4, <3>1, BoundsTyped DEF Settled
  <2>3. CASE ~ (synced[order[o].acc] = 0 \/ RenewIsOpen(rs))
    <3>1. UpdateOrderStatus(o, new) /\ CheckDone(o) /\ UNCHANGED ChkUnchanged
      BY <1>8, <2>3 DEF OrderCheckRenew
    <3>2. new = "Fail" => \A r \in RecordsOfOrder(o) : Lost(r)
      BY <1>3
    <3>3. new \in {"Success", "Fail"}
      OBVIOUS
    <3> HIDE DEF new
    <3> QED
      BY <2>1, <3>1, <3>2, <3>3, SettledUpdated
  <2> QED
    BY <2>2, <2>3
<1> QED
  BY <1>5, <1>6, <1>7, <1>8 DEF Check

LEMMA SettledPiped ==
    ASSUME Base, Settled, Pipeline
    PROVE  Settled'
<1>1. UNCHANGED <<order, pay, chk, make>>
  BY DEF Pipeline, OtherRecord, SyncAccount, RecordCommits, RecordToChain, RecordToClosed,
         PipeUnchanged, memory
<1>2. rec \in [RecIds -> Record]
  BY DEF Base, TypeOK
<1>3. ASSUME NEW r \in RecIds, rec'[r].action # "Absent", rec'[r].order # 0
      PROVE  /\ rec[r].action # "Absent" /\ rec'[r].order = rec[r].order
             /\ Lost(r) => Lost(r)'
  <2>1. rec[r] \in Record
    BY <1>2
  <2>2. NoRecord.action = "Absent"
    BY DEF NoRecord
  <2>3. CASE rec'[r] = rec[r]
    BY <1>3, <2>3 DEF Lost
  <2>4. ASSUME NEW a \in Accounts, OtherRecord(a), rec'[r] # rec[r] PROVE FALSE
    <3> DEFINE v == synced[a] + 1
               new == [NoRecord EXCEPT !.acc = a, !.ver = v,
                                       !.action = IF v = 1 THEN "Mint" ELSE "Edit"]
    <3>1. rec' = [rec EXCEPT ![nRec + 1] = new]
      BY <2>4 DEF OtherRecord
    <3>2. new.order = 0
      BY DEF NoRecord
    <3> HIDE DEF new
    <3> QED
      BY <1>2, <1>3, <2>4, <3>1, <3>2
  <2>5. ASSUME NEW s \in RecIds, RecordCommits(s) \/ RecordToChain(s), rec'[r] # rec[r]
        PROVE  /\ rec'[r].order = rec[r].order /\ rec'[r].action = rec[r].action
               /\ Lost(r) => Lost(r)'
    <3>1. \/ rec[r].type = "Default" /\ rec'[r] = [rec[r] EXCEPT !.onChain = TRUE]
          \/ rec'[r] = [rec[r] EXCEPT !.type = "Chain"]
      BY <1>2, <2>5 DEF RecordCommits, RecordToChain
    <3> QED
      BY <2>1, <3>1 DEF Record, Lost
  <2>6. ASSUME NEW s \in RecIds, NEW open \in BOOLEAN, RecordToClosed(s, open), rec'[r] # rec[r]
        PROVE  /\ rec'[r].order = rec[r].order /\ rec'[r].action = rec[r].action
               /\ Lost(r) => Lost(r)'
    <3>1. \/ /\ rec[r].type = "Default"
             /\ rec'[r] = [rec[r] EXCEPT !.type = "Closed", !.open = open]
          \/ rec'[r] = NoRecord
      BY <2>6 DEF RecordToClosed
    <3> QED
      BY <1>3, <2>1, <2>2, <3>1 DEF Record, Lost
  <2>7. ASSUME NEW a \in Accounts, SyncAccount(a) PROVE rec'[r] = rec[r]
    BY <2>7 DEF SyncAccount
  <2> QED
    BY <1>3, <2>3, <2>4, <2>5, <2>6, <2>7 DEF Pipeline
<1>4. PaidKept
  <2> SUFFICES ASSUME NEW o \in OrderIds, order[o].pay = "Paid", NEW r \in RecordsOfOrder(o)'
               PROVE  r \in RecordsOfOrder(o) /\ (Lost(r) => Lost(r)')
    BY <1>1 DEF PaidKept
  <2>1. r \in RecIds /\ rec'[r].action # "Absent" /\ rec'[r].order = o /\ o # 0
    BY BoundsTyped DEF RecordsOfOrder, GetSmtRecordByOrderId
  <2> QED
    BY <1>3, <2>1 DEF RecordsOfOrder, GetSmtRecordByOrderId
<1>5. MarksKept
  BY <1>1, SameMarks
<1>6. ClosedKept
  <2> SUFFICES ASSUME NEW r \in RecIds, rec'[r].type = "Closed" PROVE ~ rec'[r].onChain
    BY DEF ClosedKept
  <2>1. rec[r] \in Record /\ (rec[r].type = "Closed" => ~ rec[r].onChain)
    BY <1>2 DEF Settled
  <2>2. CASE rec'[r] = rec[r]
    BY <2>1, <2>2
  <2>3. ASSUME NEW a \in Accounts, OtherRecord(a), rec'[r] # rec[r] PROVE FALSE
    <3> DEFINE v == synced[a] + 1
               new == [NoRecord EXCEPT !.acc = a, !.ver = v,
                                       !.action = IF v = 1 THEN "Mint" ELSE "Edit"]
    <3>1. rec' = [rec EXCEPT ![nRec + 1] = new]
      BY <2>3 DEF OtherRecord
    <3>2. new.type = "Default"
      BY DEF NoRecord
    <3> HIDE DEF new
    <3> QED
      BY <1>2, <2>3, <3>1, <3>2
  <2>4. ASSUME NEW s \in RecIds, RecordCommits(s) \/ RecordToChain(s), rec'[r] # rec[r]
        PROVE  FALSE
    <3>1. \/ rec[r].type = "Default" /\ rec'[r] = [rec[r] EXCEPT !.onChain = TRUE]
          \/ rec'[r] = [rec[r] EXCEPT !.type = "Chain"]
      BY <1>2, <2>4 DEF RecordCommits, RecordToChain
    <3> QED
      BY <2>1, <3>1 DEF Record
  <2>5. ASSUME NEW s \in RecIds, NEW open \in BOOLEAN, RecordToClosed(s, open), rec'[r] # rec[r]
        PROVE  ~ rec'[r].onChain
    <3>1. \/ /\ ~ rec[r].onChain
             /\ rec'[r] = [rec[r] EXCEPT !.type = "Closed", !.open = open]
          \/ rec'[r] = NoRecord
      BY <2>5 DEF RecordToClosed
    <3>2. [rec[r] EXCEPT !.type = "Closed", !.open = open].onChain = rec[r].onChain
      BY <2>1 DEF Record
    <3>3. ~ NoRecord.onChain
      BY DEF NoRecord
    <3>4. CASE rec'[r] = NoRecord
      BY <3>3, <3>4
    <3>5. CASE rec'[r] = [rec[r] EXCEPT !.type = "Closed", !.open = open] /\ ~ rec[r].onChain
      BY <3>2, <3>5
    <3> QED
      BY <3>1, <3>4, <3>5
  <2>6. ASSUME NEW a \in Accounts, SyncAccount(a) PROVE rec'[r] = rec[r]
    BY <2>6 DEF SyncAccount
  <2> QED
    BY <2>2, <2>3, <2>4, <2>5, <2>6 DEF Pipeline
<1>7. NoneRaced
  BY <1>1 DEF Settled, NoneRaced
<1> QED
  BY <1>1, <1>4, <1>5, <1>6, <1>7, SettledKept DEF Settled, NoneReplaced

\* The steps that leave the records alone.
LEMMA SettledSame ==
    ASSUME Base, Settled, UNCHANGED <<rec, make>>, chk' \in {chk, ChkIdle},
           \A o \in OrderIds : \/ order'[o] = order[o]
                               \/ order'[o] = [order[o] EXCEPT !.old = TRUE]
                               \/ order'[o] = [order[o] EXCEPT !.status = "Fail"],
           \A h \in Hashes :
              \/ pay'[h] = pay[h]
              \/ pay'[h] = [pay[h] EXCEPT !.old = TRUE]
              \/ pay'[h].refund = "Default"
              \/ \E s \in {"Refunding", "Refunded"} :
                   pay[h].refund # "Default" /\ pay'[h] = [pay[h] EXCEPT !.refund = s]
              \/ \E s \in {"Dispute", "Rejected"} : pay'[h] = [pay[h] EXCEPT !.status = s]
    PROVE  Settled'
<1>1. PaidKept
  BY SamePaid
<1>2. MarksKept
  BY SameMarks
<1>3. NoneReplaced
  BY DEF Settled, NoneReplaced
<1>4. ClosedKept /\ NoneRaced
  BY SameFlags
<1> QED
  BY <1>1, <1>2, <1>3, <1>4, SettledKept

LEMMA SettledRefunded ==
    ASSUME Base, Settled, Refund \/ RefundFail
    PROVE  Settled'
<1>1. UNCHANGED <<order, rec, make, chk>>
  BY DEF Refund, RefundFail, RefundList, RefundOrder, UpdateRefundStatusToRefundIng, RfdUnchanged
<1>2. ASSUME NEW h \in Hashes
      PROVE  \/ pay'[h] = pay[h]
             \/ \E s \in {"Refunding", "Refunded"} :
                  pay[h].refund # "Default" /\ pay'[h] = [pay[h] EXCEPT !.refund = s]
  <2>1. pay' = pay \/ UpdateRefundStatusToRefundIng
    BY DEF Refund, RefundFail, RefundList, RefundOrder
  <2>2. ASSUME UpdateRefundStatusToRefundIng
        PROVE  \/ pay'[h] = pay[h]
               \/ pay[h].refund = "UnRefund" /\ pay'[h] = [pay[h] EXCEPT !.refund = "Refunding"]
    BY <2>2 DEF UpdateRefundStatusToRefundIng
  <2> QED
    BY <2>1, <2>2
<1> QED
  BY <1>1, <1>2, SettledSame

LEMMA SettledNotified ==
    ASSUME Base, Settled, Notices
    PROVE  Settled'
<1>1. UNCHANGED <<rec, make, chk>>
  BY DEF Notices, NoticeRefunded, PollRefunded, UpdateRefundStatusToRefunded,
         UpdatePayHashStatusToFailByDispute, memory
<1>2. order \in [OrderIds -> Order] /\ pay \in [Hashes -> Payment]
  BY DEF Base, TypeOK
<1>3. ASSUME NEW g \in Hashes, UpdateRefundStatusToRefunded(g) PROVE Settled'
  <2>1. /\ order' = order
        /\ pay[g].refund = "Refunding" /\ pay' = [pay EXCEPT ![g].refund = "Refunded"]
    BY <1>3 DEF UpdateRefundStatusToRefunded
  <2>2. \A h \in Hashes :
          \/ pay'[h] = pay[h]
          \/ \E s \in {"Refunding", "Refunded"} :
               pay[h].refund # "Default" /\ pay'[h] = [pay[h] EXCEPT !.refund = s]
    BY <1>2, <2>1
  <2> QED
    BY <1>1, <2>1, <2>2, SettledSame
<1>4. ASSUME NEW g \in Hashes, UpdatePayHashStatusToFailByDispute(g) PROVE Settled'
  <2>1. \A o \in OrderIds : order'[o] = order[o] \/ order'[o] = [order[o] EXCEPT !.status = "Fail"]
    BY <1>2, <1>4 DEF UpdatePayHashStatusToFailByDispute
  <2>2. \A h \in Hashes :
          \/ pay'[h] = pay[h]
          \/ \E s \in {"Dispute", "Rejected"} : pay'[h] = [pay[h] EXCEPT !.status = s]
    BY <1>2, <1>4 DEF UpdatePayHashStatusToFailByDispute
  <2> QED
    BY <1>1, <2>1, <2>2, SettledSame
<1> QED
  BY <1>3, <1>4 DEF Notices, NoticeRefunded, PollRefunded

LEMMA SettledStep ==
    ASSUME Base, Bought, Settled, "CouponCreate" \notin ActionTypes, [Next]_vars
    PROVE  Settled'
<1>1. CASE UNCHANGED <<order, pay, rec, make, chk>>
  BY <1>1, SettledSame
<1>2. CASE Orders
  BY <1>2, SettledOrders
<1>3. CASE Confirm
  <2>1. CASE \E w \in Confirmers : ConfirmWrite(w)
    BY <2>1, SettledConfirmed
  <2>2. CASE ~ \E w \in Confirmers : ConfirmWrite(w)
    BY <1>1, <1>3, <2>2 DEF Confirm, ConfirmRead, ConfirmFail
  <2> QED
    BY <2>1, <2>2
<1>4. CASE Check
  BY <1>4, SettledChecked
<1>5. CASE OrderCheckFail
  BY <1>5, SettledSame DEF OrderCheckFail, ChkUnchanged
<1>6. CASE Refund \/ RefundFail
  BY <1>6, SettledRefunded
<1>7. CASE Notices
  BY <1>7, SettledNotified
<1>8. CASE Clients
  <2>1. UNCHANGED <<order, rec, make, chk>>
    BY <1>8 DEF Clients, MakePayment, doAutoOrderHash, UniUnchanged, memory
  <2>2. pay' = pay \/ \E h \in Hashes : \E o : pay' = [pay EXCEPT ![h] =
                        [NoPayment EXCEPT !.order = o, !.status = "Pending"]]
    BY <1>8 DEF Clients, MakePayment, doAutoOrderHash, UniUnchanged
  <2>3. \A o : [NoPayment EXCEPT !.order = o, !.status = "Pending"].refund = "Default"
    BY DEF NoPayment
  <2>4. pay \in [Hashes -> Payment]
    BY DEF Base, TypeOK
  <2>5. \A h \in Hashes : pay'[h] = pay[h] \/ pay'[h].refund = "Default"
    BY <2>2, <2>3, <2>4
  <2> QED
    BY <2>1, <2>5, SettledSame
<1>9. CASE Unipay
  BY <1>1, <1>9 DEF Unipay, UniSettle, UniRefund, UniUnchanged, memory
<1>10. CASE Pipeline
  BY <1>10, SettledPiped
<1>11. CASE Environment
  <2>1. CASE Crash
    <3>1. UNCHANGED <<order, pay, rec>> /\ chk' = ChkIdle
      BY <2>1 DEF Crash
    <3>2. PaidKept /\ MarksKept /\ ClosedKept /\ NoneRaced
      BY <3>1, SamePaid, SameMarks, SameFlags
    <3>3. NoneReplaced
      BY <2>1, MakeIdleTyped DEF Crash, NoneReplaced
    <3> QED
      BY <3>1, <3>2, <3>3, SettledKept
  <2>2. CASE \E k \in LockKeys : LockExpire(k)
    BY <1>1, <2>2 DEF LockExpire, memory
  <2>3. ASSUME NEW p \in OrderIds, GrowOld(p) PROVE Settled'
    <3>1. UNCHANGED <<rec, make, chk>> /\ order' = [order EXCEPT ![p].old = TRUE]
      BY <2>3 DEF GrowOld, memory
    <3>2. order \in [OrderIds -> Order]
      BY DEF Base, TypeOK
    <3>3. \A o \in OrderIds : order'[o] = order[o] \/ order'[o] = [order[o] EXCEPT !.old = TRUE]
      BY <3>1, <3>2
    <3>4. \A h \in Hashes : pay'[h] = pay[h] \/ pay'[h] = [pay[h] EXCEPT !.old = TRUE]
      BY <2>3 DEF GrowOld
    <3> QED
      BY <3>1, <3>3, <3>4, SettledSame
  <2> QED
    BY <1>11, <2>1, <2>2, <2>3 DEF Environment
<1>12. CASE UNCHANGED vars
  BY <1>1, <1>12 DEF vars
<1> QED
  BY <1>2, <1>3, <1>4, <1>5, <1>6, <1>7, <1>8, <1>9, <1>10, <1>11, <1>12 DEF Next

\* Where no order is replaced, a payment that is marked for refund belongs to an order
\* that failed for good: its record, if there still is one, has ended without a change
\* on chain, also if it is turned into a chain record, and no other payment, notice or
\* later round of the check gives the order a new one.
THEOREM RefundedIsNotServed ==
    ASSUME "CouponCreate" \notin ActionTypes
    PROVE  Spec => []RefundedNotServed
<1>1. Init => Settled
  BY SettledInit
<1>2. Base /\ Bought /\ Settled /\ [Next]_vars => Settled'
  BY SettledStep
<1>3. Base /\ Settled => RefundedNotServed
  <2> SUFFICES ASSUME Base, Settled, NEW h \in Hashes, pay[h].refund # "Default"
               PROVE  /\ order[pay[h].order].status = "Fail"
                      /\ \A r \in RecordsOfOrder(pay[h].order) :
                           rec[r].type # "Default" /\ ~ rec[r].onChain
    BY DEF RefundedNotServed
  <2>1. pay[h].order \in OrderIds
    BY OrderOfPayment DEF Settled
  <2>2. Failed(pay[h].order)
    BY <2>1 DEF Settled
  <2> QED
    BY <2>2 DEF Failed, Lost
<1> QED
  BY <1>1, <1>2, <1>3, BaseAlways, BoughtAlways, PTL DEF Spec
=============================================================================
