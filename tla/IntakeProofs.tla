----------------------------- MODULE IntakeProofs -----------------------------
(* Proofs about the intake of changes: what waits for the chain can be applied, *)
(* is allowed and is signed by whoever may, and mints are inserted whole.       *)
EXTENDS Intake, FiniteSetTheorems, TLAPS

-----------------------------------------------------------------------------
(* The inductive invariant, without any assumption on who is prompt *)

Mints == {"create", "renew"}

\* The changes that are cached by each kind of handler.
SubsOf(kind) ==
    IF kind = "mint" THEN Mints ELSE IF kind = "edit" THEN EditKeys ELSE Approvals

\* A list holds one change of an account at most.
OneEach(list) == \A r, q \in list : r.acc = q.acc => r = q

\* What is cached under a key, and what a handler is about to insert.
CacheOk(k) ==
    /\ OneEach(cache[k].list)
    /\ \A r \in cache[k].list :
         r.type = "Default" /\ r.key = k /\ r.sub \in SubsOf(cache[k].kind)
FlightOk(f) ==
    /\ OneEach(f.list)
    /\ f.kind = "mint" => f.key \in Keys
    /\ \A r \in f.list :
         /\ r.type = "Default"
         /\ f.kind = "recycle" <=> r.sub = "recycle"
         /\ f.kind = "mint" => r.sub \in Mints /\ r.key = f.key
         /\ f.kind = "plain" => r.sub # "renew" /\ (r.sub = "create" => r.key = 0)
ListsOk == /\ \A k \in Keys : CacheOk(k)
           /\ \A f \in flight : FlightOk(f)

\* A signature renews an account once.
RenewsOf(a) == {r \in WaitingOf(a) : r.sub = "renew"}
RenewsOk == \A a \in Accounts :
              /\ \A r \in RenewsOf(a) : r.key \in mintSign
              /\ \A r, q \in RenewsOf(a) : r.key = q.key => r = q

\* The signatures that may renew an account yet.  So it is never registered for
\* longer than all signatures together.
Left(a) == (Keys \ mintSign) \cup {r.key : r \in RenewsOf(a)}
MaxExp == Year * (MaxSigns + 1) + MaxDay
ExpOk == \A a \in Accounts : leaf[a].exp + Year * Cardinality(Left(a)) <= MaxExp

KeyInv == TypeOK /\ ListsOk /\ RenewsOk /\ ExpOk

-----------------------------------------------------------------------------
(* ... and when the margins of the code are kept *)

\* All changes that are not applied yet.
Cached == UNION {cache[k].list : k \in Keys}
Flying == UNION {f.list : f \in flight}
Pending == Cached \cup Flying \cup Waiting

Numbered(r) == /\ r.nonce <= info[r.acc].nonce + 1
               /\ r.over = r.nonce
               /\ r.sub = "create" => r.nonce = 0
               /\ r.sub # "create" => r.nonce >= 1
PendingNumbered == \A r \in Pending : Numbered(r)
OneWaits == \A r, q \in Waiting : r.acc = q.acc /\ r.nonce = q.nonce => r = q

\* An account is recycled once.
Recycled == Recycles \cup {r \in Flying : r.sub = "recycle"}
OneRecycle == OneEach(Recycled)

\* An account that may be recycled: nothing else can be asked for.
Over(l) == l.exp < day - Grace
Dead(a) == leaf[a].nonce >= 0 /\ Over(leaf[a])
DeadOk(a) ==
    /\ Exists(a) /\ Over(info[a])
    /\ \A r \in Cached : r.acc # a
    /\ \A r \in Flying : r.acc = a => r.sub = "recycle"
    /\ \A r \in WaitingOf(a) : r.nonce <= leaf[a].nonce => r.sub = "recycle"

\* An account that was recycled, which the syncer does not know yet; any other
\* one is as the syncer knows it until its nonce grows.
Lost(a) == leaf[a].nonce = -1 /\ Exists(a)
LostOk(a) ==
    /\ Over(info[a])
    /\ \A r \in Pending : r.acc # a
    /\ GetRecycleSmtRecord(a) # {}
KnownOk(a) ==
    /\ info[a].nonce <= leaf[a].nonce
    /\ info[a].nonce = leaf[a].nonce => info[a] = leaf[a]
AccountsOk == \A a \in Accounts : /\ Dead(a) => DeadOk(a)
                                  /\ IF Lost(a) THEN LostOk(a) ELSE KnownOk(a)

\* What the properties say, of changes that do not wait yet as well.
PendingAllowed == \A r \in Pending : IsNext(r) => Allowed(r, leaf[r.acc])
FlyingEntitled == \A r \in Flying \cup Waiting : IsNext(r) => Entitled(r, leaf[r.acc])

PromptInv == /\ PendingNumbered /\ OneWaits /\ OneRecycle /\ AccountsOk
             /\ PendingAllowed /\ FlyingEntitled
-----------------------------------------------------------------------------
(* Types *)

LEMMA BoundsKnown ==
    /\ Year \in Nat /\ Grace \in Nat /\ Week \in Nat /\ Month \in Nat /\ Protect \in Nat
    /\ MaxSigns \in Nat /\ MaxParent \in Nat /\ MaxDay \in Nat \ {0} /\ MaxNonce \in Nat \ {0}
    /\ MaxDelay \in 0..255 /\ Fresh \subseteq Accounts
    /\ \A p \in People : \E q \in People : q # p
    /\ MaxExp \in Nat /\ Year <= MaxExp
<1>1. /\ Year \in Nat /\ Grace \in Nat /\ Week \in Nat /\ Month \in Nat /\ Protect \in Nat
      /\ MaxSigns \in Nat /\ MaxParent \in Nat /\ MaxDay \in Nat \ {0} /\ MaxNonce \in Nat \ {0}
      /\ MaxDelay \in 0..255 /\ Fresh \subseteq Accounts
      /\ \A p \in People : \E q \in People : q # p
  BY IntakeAssumption DEF IntakeAssumption
<1>2. Year * (MaxSigns + 1) = Year * MaxSigns + Year /\ Year * MaxSigns \in Nat
  BY <1>1
<1>3. QED
  BY <1>1, <1>2 DEF MaxExp

LEMMA AccountTyped ==
    ASSUME TypeOK, NEW a \in Accounts
    PROVE  /\ info[a] \in Account /\ leaf[a] \in Account
           /\ info[a].nonce \in -1..MaxNonce /\ leaf[a].nonce \in -1..MaxNonce
           /\ info[a].exp \in 0..MaxExp /\ leaf[a].exp \in 0..MaxExp
           /\ day \in 0..MaxDay
           /\ MaxNonce \in Nat \ {0} /\ MaxExp \in Nat /\ MaxDay \in Nat \ {0} /\ Grace \in Nat
<1>1. info[a] \in Account /\ leaf[a] \in Account /\ day \in 0..MaxDay
  BY DEF TypeOK, Days
<1>2. QED
  BY <1>1, BoundsKnown DEF Account, MaxExp

LEMMA NewRecordTyped ==
    ASSUME NEW a \in Accounts, NEW n \in 0..MaxNonce + 1, NEW sub \in SubActions
    PROVE  /\ NewRecord(a, n, sub) \in Record
           /\ \A r : r = NewRecord(a, n, sub) =>
                /\ r.acc = a /\ r.nonce = n /\ r.sub = sub /\ r.over = n /\ r.key = 0
                /\ r.type = "Default"
<1>1. NoApproval \in Approval
  BY BoundsKnown DEF NoApproval, Approval, Days, Byte
<1>2. QED
  BY <1>1, BoundsKnown DEF NewRecord, Record

-----------------------------------------------------------------------------
(* What the properties ask of a change, and what it does, case by case *)

LEMMA AllowedCases ==
    ASSUME NEW r, NEW l
    PROVE  /\ r.sub \in EditKeys \cup {"create_approval"} => (Allowed(r, l) <=> l.status = "normal")
           /\ r.sub = "delay_approval" =>
                (Allowed(r, l) <=>
                   /\ l.status = "approval"
                   /\ r.appr.seal > l.appr.seal
                   /\ [r.appr EXCEPT !.seal = l.appr.seal, !.delay = l.appr.delay] = l.appr)
           /\ r.sub = "revoke_approval" =>
                (Allowed(r, l) <=> l.status = "approval" /\ day > l.appr.prot)
           /\ r.sub = "fulfill_approval" => (Allowed(r, l) <=> l.status = "approval")
           /\ r.sub = "recycle" => (Allowed(r, l) <=> Over(l))
           /\ r.sub \in Mints => Allowed(r, l)
<1>1. CASE r.sub \in EditKeys \cup {"create_approval"}
  BY <1>1 DEF Allowed, EditKeys, Mints
<1>2. CASE r.sub = "delay_approval"
  BY <1>2 DEF Allowed, EditKeys, Mints
<1>3. CASE r.sub = "revoke_approval"
  BY <1>3 DEF Allowed, EditKeys, Mints
<1>4. CASE r.sub \in {"fulfill_approval", "recycle"} \cup Mints
  BY <1>4 DEF Allowed, EditKeys, Mints, Over
<1>5. QED
  BY <1>1, <1>2, <1>3, <1>4 DEF Mints, EditKeys

LEMMA EntitledCases ==
    ASSUME NEW r, NEW l
    PROVE  /\ r.sub \in {"owner", "manager", "create_approval", "delay_approval"} =>
                (Entitled(r, l) <=> r.by = l.owner)
           /\ r.sub = "records" => (Entitled(r, l) <=> r.by = l.manager)
           /\ r.sub = "revoke_approval" => (Entitled(r, l) <=> r.by = "platform")
           /\ r.sub = "fulfill_approval" =>
                (Entitled(r, l) <=> r.by = l.owner \/ (r.by = Nobody /\ day >= l.appr.seal))
           /\ r.sub \in Mints \cup {"recycle"} => Entitled(r, l)
<1>1. CASE r.sub \in {"owner", "manager", "create_approval", "delay_approval"}
  BY <1>1 DEF Entitled, Mints
<1>2. CASE r.sub \in {"records", "revoke_approval", "fulfill_approval"}
  BY <1>2 DEF Entitled, Mints
<1>3. CASE r.sub \in Mints \cup {"recycle"}
  BY <1>3 DEF Entitled, Mints
<1>4. QED
  BY <1>1, <1>2, <1>3 DEF Mints

\* What every change does to the nonce, the expiry and the type of an account.
LEMMA AppliedAccount ==
    ASSUME NEW r \in Record, NEW l \in Account, l.nonce < MaxNonce, day \in 0..MaxDay
    PROVE  \A m : m = GetCurrentSubAccountNew(r, l) =>
             /\ r.sub = "recycle" => m = NoAccount
             /\ r.sub # "recycle" => m.nonce = l.nonce + 1
             /\ r.sub = "create" => m.exp = day + Year
             /\ r.sub = "renew" => m.exp = l.exp + Year
             /\ r.sub \notin Mints \cup {"recycle"} => m.exp = l.exp
             /\ m.exp <= MaxExp => m \in Account
<1> SUFFICES ASSUME NEW m, m = GetCurrentSubAccountNew(r, l)
             PROVE  /\ r.sub = "recycle" => m = NoAccount
                    /\ r.sub # "recycle" => m.nonce = l.nonce + 1
                    /\ r.sub = "create" => m.exp = day + Year
                    /\ r.sub = "renew" => m.exp = l.exp + Year
                    /\ r.sub \notin Mints \cup {"recycle"} => m.exp = l.exp
                    /\ m.exp <= MaxExp => m \in Account
  OBVIOUS
<1>1. PICK next : next = [l EXCEPT !.nonce = @ + 1]
  OBVIOUS
<1>2. /\ next.nonce = l.nonce + 1 /\ next.exp = l.exp
      /\ next \in Account
  BY <1>1, BoundsKnown DEF Account
<1>3. r.sub \in SubActions /\ r.to \in People \cup {Nobody} /\ r.appr \in Approval
  BY DEF Record
<1>4. CASE r.sub = "create"
  <2>1. m = [next EXCEPT !.owner = r.to, !.manager = r.to, !.exp = day + Year]
    BY <1>1, <1>4 DEF GetCurrentSubAccountNew, Approvals
  <2>2. /\ m.exp = day + Year /\ m.nonce = l.nonce + 1
        /\ m.exp \in 0..MaxExp => m \in Account
    BY <1>2, <1>3, <2>1 DEF Account, MaxExp
  <2>3. m.exp <= MaxExp => m \in Account
    BY <2>2, BoundsKnown
  <2>4. QED
    BY <1>4, <2>2, <2>3 DEF Mints
<1>5. CASE r.sub = "renew"
  <2>1. m = [next EXCEPT !.exp = @ + Year]
    BY <1>1, <1>5 DEF GetCurrentSubAccountNew, Approvals
  <2>2. m.exp = l.exp + Year /\ m.nonce = l.nonce + 1
    BY <1>2, <2>1 DEF Account
  <2>3. m.exp <= MaxExp => m \in Account
    BY <1>2, <2>1, <2>2, BoundsKnown DEF Account, MaxExp
  <2>4. QED
    BY <1>5, <2>2, <2>3 DEF Mints
<1>6. CASE r.sub = "recycle"
  <2>1. m = NoAccount
    BY <1>6 DEF GetCurrentSubAccountNew, Approvals
  <2>2. NoApproval \in Approval
    BY BoundsKnown DEF NoApproval, Approval, Days, Byte
  <2>3. m \in Account
    BY <2>1, <2>2, BoundsKnown DEF NoAccount, Account, MaxExp
  <2>4. QED
    BY <1>6, <2>1, <2>3 DEF Mints
<1>7. CASE r.sub \in EditKeys
  <2>1. m \in {[next EXCEPT !.owner = r.to, !.manager = r.to], [next EXCEPT !.manager = r.to], next}
    BY <1>1, <1>7 DEF GetCurrentSubAccountNew, Approvals, EditKeys
  <2>2. m \in Account /\ m.nonce = next.nonce /\ m.exp = next.exp
    BY <1>2, <1>3, <2>1 DEF Account
  <2>3. QED
    BY <1>2, <1>7, <2>2 DEF EditKeys, Mints
<1>8. CASE r.sub \in Approvals
  <2>1. m = ApprovalChange(r, next)
    BY <1>1, <1>8 DEF GetCurrentSubAccountNew, Approvals
  <2>2. m \in {[next EXCEPT !.status = "approval", !.appr = r.appr], [next EXCEPT !.appr = r.appr],
              [next EXCEPT !.status = "normal", !.appr = NoApproval],
              [next EXCEPT !.status = "normal", !.appr = NoApproval,
                           !.owner = next.appr.to, !.manager = next.appr.to]}
    BY <2>1, <1>8 DEF ApprovalChange, Approvals
  <2>3. NoApproval \in Approval /\ next.appr.to \in People \cup {Nobody}
    BY <1>2, BoundsKnown DEF NoApproval, Approval, Days, Byte, Account
  <2>4. m \in Account /\ m.nonce = next.nonce /\ m.exp = next.exp
    BY <1>2, <1>3, <2>2, <2>3 DEF Account
  <2>5. QED
    BY <1>2, <1>8, <2>4 DEF Approvals, Mints
<1>9. QED
  BY <1>3, <1>4, <1>5, <1>6, <1>7, <1>8 DEF SubActions

-----------------------------------------------------------------------------
(* First calls *)

Requested(r) ==
    /\ r \in Record /\ r.type = "Default"
    /\ r.over = r.nonce /\ r.nonce = info[r.acc].nonce + 1
    /\ IF r.sub = "create" THEN ~ Exists(r.acc) ELSE Exists(r.acc) /\ ~ Over(info[r.acc])
    /\ Allowed(r, info[r.acc])
Asked(kind, list) ==
    /\ OneEach(list)
    /\ \A r \in list : Requested(r) /\ r.sub \in SubsOf(kind)

CreateRecord(a, p) == [NewRecord(a, 0, "create") EXCEPT !.to = p]
EditRecord(a, edit, to, address) ==
    [NewRecord(a, info[a].nonce + 1, edit) EXCEPT !.to = to, !.by = address]

LEMMA CreateAsks ==
    ASSUME TypeOK, NEW as \in SUBSET Accounts, NEW p \in People, doSubAccountCheckList(as)
    PROVE  \A r \in doMinSignInfo(as, p) :
             Requested(r) /\ r.sub = "create" /\ r.key = 0 /\ r = CreateRecord(r.acc, p)
<1>1. doMinSignInfo(as, p) = {CreateRecord(a, p) : a \in as}
  BY DEF doMinSignInfo, CreateRecord
<1> SUFFICES ASSUME NEW a \in as, NEW r, r = CreateRecord(a, p)
             PROVE  Requested(r) /\ r.sub = "create" /\ r.key = 0 /\ r = CreateRecord(r.acc, p)
  BY <1>1
<1>2. 0 \in 0..MaxNonce + 1 /\ "create" \in SubActions
  BY BoundsKnown DEF SubActions
<1>3. /\ r \in Record /\ r.acc = a /\ r.nonce = 0 /\ r.sub = "create" /\ r.over = 0 /\ r.key = 0
      /\ r.type = "Default"
  <2>1. \A q \in Record : [q EXCEPT !.to = p] \in Record
    BY DEF Record
  <2>2. NewRecord(a, 0, "create") \in Record /\ a \in Accounts
    BY <1>2, NewRecordTyped
  <2>3. QED
    BY <2>1, <2>2 DEF NewRecord, CreateRecord
<1>4. ~ Exists(a) /\ info[a].nonce + 1 = 0
  <2>1. a \in Accounts
    OBVIOUS
  <2>2. ~ Exists(a)
    BY DEF doSubAccountCheckList
  <2>3. info[a].nonce \in -1..MaxNonce /\ MaxNonce \in Nat
    BY <2>1, AccountTyped
  <2>4. QED
    BY <2>2, <2>3 DEF Exists
<1>5. Allowed(r, info[a])
  BY <1>3, AllowedCases DEF Mints
<1>6. QED
  BY <1>3, <1>4, <1>5 DEF Requested

LEMMA RenewAsks ==
    ASSUME TypeOK, NEW as \in SUBSET Accounts, doSubAccountRenewCheckList(as)
    PROVE  \A r \in doRenewSignInfo(as) :
             /\ Requested(r) /\ r.sub = "renew"
             /\ r = NewRecord(r.acc, info[r.acc].nonce + 1, "renew")
<1> SUFFICES ASSUME NEW a \in as, NEW r, r = NewRecord(a, info[a].nonce + 1, "renew")
             PROVE  Requested(r) /\ r.sub = "renew" /\ r.acc = a
  BY DEF doRenewSignInfo
<1>1. a \in Accounts
  OBVIOUS
<1>2. Exists(a) /\ day - info[a].exp <= Grace
  BY DEF doSubAccountRenewCheckList
<1>3. info[a].nonce + 1 \in 0..MaxNonce + 1 /\ "renew" \in SubActions
  BY <1>1, AccountTyped, BoundsKnown DEF SubActions
<1>4. /\ r \in Record /\ r.acc = a /\ r.nonce = info[a].nonce + 1 /\ r.sub = "renew"
      /\ r.over = r.nonce /\ r.type = "Default"
  BY <1>1, <1>3, NewRecordTyped
<1>5. ~ Over(info[a])
  BY <1>1, <1>2, AccountTyped, BoundsKnown DEF Over
<1>6. Allowed(r, info[a])
  BY <1>4, AllowedCases DEF Mints
<1>7. QED
  BY <1>1, <1>2, <1>4, <1>5, <1>6 DEF Requested

LEMMA EditAsks ==
    ASSUME TypeOK, NEW a \in Accounts, NEW edit \in EditKeys, NEW to \in People \cup {Nobody},
           NEW address \in People, EditCheck(a, edit, to, address)
    PROVE  \A r : r = EditRecord(a, edit, to, address) => Requested(r) /\ r.sub = edit
<1> SUFFICES ASSUME NEW r, r = EditRecord(a, edit, to, address)
             PROVE  Requested(r) /\ r.sub = edit
  OBVIOUS
<1>1. Exists(a) /\ info[a].status = "normal" /\ ~ IsExpired(a)
  BY DEF EditCheck
<1>2. info[a].nonce + 1 \in 0..MaxNonce + 1 /\ edit \in SubActions
  BY AccountTyped DEF SubActions
<1>3. /\ r \in Record /\ r.acc = a /\ r.nonce = info[a].nonce + 1 /\ r.sub = edit
      /\ r.over = r.nonce /\ r.type = "Default"
  <2>1. \A q \in Record : [q EXCEPT !.to = to, !.by = address] \in Record
    BY DEF Record
  <2>2. NewRecord(a, info[a].nonce + 1, edit) \in Record
    BY <1>2, NewRecordTyped
  <2>3. QED
    BY <2>1, <2>2 DEF NewRecord, EditRecord
<1>4. ~ Over(info[a])
  BY <1>1, AccountTyped DEF Over, IsExpired
<1>5. Allowed(r, info[a])
  BY <1>1, <1>3, AllowedCases
<1>6. edit # "create"
  BY DEF EditKeys
<1>7. QED
  BY <1>1, <1>3, <1>4, <1>5, <1>6 DEF Requested

LEMMA ApprovalAsks ==
    ASSUME TypeOK, NEW a \in Accounts, NEW sub \in Approvals, NEW appr \in Approval,
           Exists(a), day + Week <= info[a].exp
    PROVE  \A r : r = ApprovalRecord(a, sub, appr) =>
             /\ r.sub = sub /\ r.appr = appr /\ r.acc = a
             /\ Allowed(r, info[a]) => Requested(r)
<1> SUFFICES ASSUME NEW r, r = ApprovalRecord(a, sub, appr)
             PROVE  /\ r.sub = sub /\ r.appr = appr /\ r.acc = a
                    /\ Allowed(r, info[a]) => Requested(r)
  OBVIOUS
<1>1. info[a].nonce + 1 \in 0..MaxNonce + 1 /\ sub \in SubActions
  BY AccountTyped DEF SubActions
<1>2. /\ r \in Record /\ r.acc = a /\ r.nonce = info[a].nonce + 1 /\ r.sub = sub
      /\ r.over = r.nonce /\ r.type = "Default" /\ r.appr = appr
  <2>1. \A q \in Record : [q EXCEPT !.appr = appr] \in Record
    BY DEF Record
  <2>2. NewRecord(a, info[a].nonce + 1, sub) \in Record
    BY <1>1, NewRecordTyped
  <2>3. QED
    BY <2>1, <2>2 DEF NewRecord, ApprovalRecord
<1>3. ~ Over(info[a])
  BY AccountTyped, BoundsKnown DEF Over
<1>4. sub # "create"
  BY DEF Approvals
<1>5. QED
  BY <1>2, <1>3, <1>4 DEF Requested

LEMMA EnableAsks ==
    ASSUME TypeOK, NEW a \in Accounts, NEW prot \in Days, NEW seal \in Days, NEW to \in People,
           doApprovalEnableCheck(a, prot, seal, to), day + Week <= info[a].exp
    PROVE  \A r : r = ApprovalRecord(a, "create_approval",
                        [prot |-> prot, seal |-> seal, delay |-> MaxDelay, to |-> to]) =>
             Requested(r) /\ r.sub = "create_approval"
<1>1. [prot |-> prot, seal |-> seal, delay |-> MaxDelay, to |-> to] \in Approval
  BY BoundsKnown DEF Approval, Byte
<1>2. Exists(a) /\ info[a].status = "normal" /\ "create_approval" \in Approvals
  BY DEF doApprovalEnableCheck, Approvals
<1>3. PICK appr \in Approval :
        appr = [prot |-> prot, seal |-> seal, delay |-> MaxDelay, to |-> to]
  BY <1>1
<1>4. ASSUME NEW r, r = ApprovalRecord(a, "create_approval", appr)
      PROVE  Requested(r) /\ r.sub = "create_approval"
  <2>1. r.sub = "create_approval" /\ (Allowed(r, info[a]) => Requested(r))
    BY <1>2, <1>4, ApprovalAsks
  <2>2. Allowed(r, info[a])
    BY <1>2, <2>1, AllowedCases
  <2>3. QED
    BY <2>1, <2>2
<1>5. QED
  BY <1>3, <1>4

LEMMA DelayAsks ==
    ASSUME TypeOK, NEW a \in Accounts, NEW seal \in Days,
           doApprovalDelayCheck(a, seal), day + Week <= info[a].exp
    PROVE  \A r : r = ApprovalRecord(a, "delay_approval",
                        [info[a].appr EXCEPT !.delay = (@ - 1) % 256, !.seal = seal]) =>
             Requested(r) /\ r.sub = "delay_approval"
<1>1. PICK old : old = info[a].appr
  OBVIOUS
<1>2. PICK new : new = [old EXCEPT !.delay = (@ - 1) % 256, !.seal = seal]
  OBVIOUS
<1>3. old \in Approval
  BY <1>1, AccountTyped DEF Account
<1>4. (old.delay - 1) % 256 \in Byte
  BY <1>3 DEF Approval, Byte
<1>5. new \in Approval /\ new.seal = seal
  BY <1>2, <1>3, <1>4 DEF Approval
<1>6. [new EXCEPT !.seal = old.seal, !.delay = old.delay] = old
  BY <1>2, <1>3 DEF Approval
<1>7. Exists(a) /\ info[a].status = "approval" /\ seal > old.seal /\ "delay_approval" \in Approvals
  BY <1>1 DEF doApprovalDelayCheck, PendingApproval, Approvals
<1>8. ASSUME NEW r, r = ApprovalRecord(a, "delay_approval", new)
      PROVE  Requested(r) /\ r.sub = "delay_approval"
  <2>1. /\ r.sub = "delay_approval" /\ r.appr = new
        /\ Allowed(r, info[a]) => Requested(r)
    BY <1>5, <1>7, <1>8, ApprovalAsks
  <2>2. Allowed(r, info[a])
    BY <1>1, <1>5, <1>6, <1>7, <2>1, AllowedCases
  <2>3. QED
    BY <2>1, <2>2
<1>9. QED
  BY <1>1, <1>2, <1>8

LEMMA EndAsks ==
    ASSUME TypeOK, NEW a \in Accounts, NEW sub \in {"revoke_approval", "fulfill_approval"},
           Exists(a), PendingApproval(a), day + Week <= info[a].exp,
           sub = "revoke_approval" => day > info[a].appr.prot
    PROVE  \A r : r = ApprovalRecord(a, sub, NoApproval) => Requested(r) /\ r.sub = sub
<1>1. NoApproval \in Approval
  BY BoundsKnown DEF NoApproval, Approval, Days, Byte
<1>2. sub \in Approvals /\ info[a].status = "approval"
  BY DEF Approvals, PendingApproval
<1>3. ASSUME NEW r, r = ApprovalRecord(a, sub, NoApproval)
      PROVE  Requested(r) /\ r.sub = sub
  <2>1. r.sub = sub /\ (Allowed(r, info[a]) => Requested(r))
    BY <1>1, <1>2, <1>3, ApprovalAsks
  <2>2. Allowed(r, info[a])
    BY <1>2, <2>1, AllowedCases
  <2>3. QED
    BY <2>1, <2>2
<1>4. QED
  BY <1>3

LEMMA PrepareAsks ==
    ASSUME TypeOK, Prepare
    PROVE  \E kind \in {"mint", "edit", "approval"}, list \in SUBSET Record, signed \in BOOLEAN :
             Asked(kind, list) /\ SetSignTxCache(kind, list, signed)
<1> DEFINE Kept == \E kind \in {"mint", "edit", "approval"}, list \in SUBSET Record, signed \in BOOLEAN :
                     Asked(kind, list) /\ SetSignTxCache(kind, list, signed)
<1>1. ASSUME NEW as \in SUBSET Accounts, NEW p \in People, doSubAccountCreateNew(as, p)
      PROVE  Kept
  <2>1. PICK list : list = doMinSignInfo(as, p)
    OBVIOUS
  <2>2. SetSignTxCache("mint", list, TRUE)
    BY <1>1, <2>1 DEF doSubAccountCreateNew, SetSignTxCache
  <2>3. \A r \in list : Requested(r) /\ r.sub = "create"
    BY <1>1, <2>1, CreateAsks DEF doSubAccountCreateNew
  <2>4. OneEach(list)
    BY <1>1, <2>1, CreateAsks DEF OneEach, doSubAccountCreateNew
  <2>5. Asked("mint", list) /\ list \in SUBSET Record
    BY <2>3, <2>4 DEF Asked, Requested, SubsOf, Mints
  <2>6. QED
    BY <2>2, <2>5
<1>2. ASSUME NEW as \in SUBSET Accounts, doSubAccountRenew(as)
      PROVE  Kept
  <2>1. PICK list : list = doRenewSignInfo(as)
    OBVIOUS
  <2>2. SetSignTxCache("mint", list, TRUE)
    BY <1>2, <2>1 DEF doSubAccountRenew, SetSignTxCache
  <2>3. \A r \in list : Requested(r) /\ r.sub = "renew"
    BY <1>2, <2>1, RenewAsks DEF doSubAccountRenew
  <2>4. OneEach(list)
    BY <1>2, <2>1, RenewAsks DEF OneEach, doSubAccountRenew
  <2>5. Asked("mint", list) /\ list \in SUBSET Record
    BY <2>3, <2>4 DEF Asked, Requested, SubsOf, Mints
  <2>6. QED
    BY <2>2, <2>5
<1>3. ASSUME NEW r, Requested(r), r.sub \in EditKeys, SetSignTxCache("edit", {r}, TRUE)
      PROVE  Kept
  <2>1. Asked("edit", {r}) /\ {r} \in SUBSET Record
    BY <1>3 DEF Asked, Requested, SubsOf, OneEach
  <2>2. QED
    BY <1>3, <2>1
<1>4. ASSUME NEW r, NEW signed \in BOOLEAN, Requested(r), r.sub \in Approvals,
             SetSignTxCache("approval", {r}, signed)
      PROVE  Kept
  <2>1. Asked("approval", {r}) /\ {r} \in SUBSET Record
    BY <1>4 DEF Asked, Requested, SubsOf, OneEach
  <2>2. QED
    BY <1>4, <2>1
<1> HIDE DEF Kept
<1>5. ASSUME NEW a \in Accounts, NEW edit \in EditKeys, NEW to \in People \cup {Nobody},
             NEW address \in People, doSubAccountEditNew(a, edit, to, address)
      PROVE  Kept
  <2>1. PICK r : r = EditRecord(a, edit, to, address)
    OBVIOUS
  <2>2. Requested(r) /\ r.sub \in EditKeys
    <3>1. EditCheck(a, edit, to, address)
      BY <1>5 DEF doSubAccountEditNew
    <3>2. Requested(r) /\ r.sub = edit
      BY <2>1, <3>1, EditAsks
    <3>3. QED
      BY <3>2
  <2>3. SetSignTxCache("edit", {r}, TRUE)
    BY <1>5, <2>1 DEF doSubAccountEditNew, SetSignTxCache, EditRecord
  <2>4. QED
    BY <1>3, <2>2, <2>3
<1>6. ASSUME NEW a \in Accounts, NEW prot \in Days, NEW seal \in Days, NEW to \in People,
             doApprovalEnableSubAccount(a, prot, seal, to)
      PROVE  Kept
  <2>1. PICK r : r = ApprovalRecord(a, "create_approval",
                       [prot |-> prot, seal |-> seal, delay |-> MaxDelay, to |-> to])
    OBVIOUS
  <2>2. Requested(r) /\ r.sub \in Approvals
    BY <1>6, <2>1, EnableAsks DEF doApprovalEnableSubAccount, PrepareApproval, Approvals
  <2>3. SetSignTxCache("approval", {r}, TRUE)
    BY <1>6, <2>1 DEF doApprovalEnableSubAccount, PrepareApproval, SetSignTxCache
  <2>4. QED
    BY <1>4, <2>2, <2>3
<1>7. ASSUME NEW a \in Accounts, NEW seal \in Days, doApprovalDelaySubAccount(a, seal)
      PROVE  Kept
  <2>1. PICK r : r = ApprovalRecord(a, "delay_approval",
                       [info[a].appr EXCEPT !.delay = (@ - 1) % 256, !.seal = seal])
    OBVIOUS
  <2>2. Requested(r) /\ r.sub \in Approvals
    BY <1>7, <2>1, DelayAsks DEF doApprovalDelaySubAccount, PrepareApproval, Approvals
  <2>3. SetSignTxCache("approval", {r}, TRUE)
    BY <1>7, <2>1 DEF doApprovalDelaySubAccount, PrepareApproval, SetSignTxCache
  <2>4. QED
    BY <1>4, <2>2, <2>3
<1>8. ASSUME NEW a \in Accounts, doApprovalRevokeSubAccount(a)
      PROVE  Kept
  <2>1. PICK r : r = ApprovalRecord(a, "revoke_approval", NoApproval)
    OBVIOUS
  <2>2. Requested(r) /\ r.sub \in Approvals
    BY <1>8, <2>1, EndAsks
       DEF doApprovalRevokeSubAccount, doApprovalRevokeCheck, PrepareApproval, Approvals
  <2>3. SetSignTxCache("approval", {r}, TRUE)
    BY <1>8, <2>1 DEF doApprovalRevokeSubAccount, PrepareApproval, SetSignTxCache
  <2>4. QED
    BY <1>4, <2>2, <2>3
<1>9. ASSUME NEW a \in Accounts, NEW address \in People, doApprovalFulfillSubAccount(a, address)
      PROVE  Kept
  <2>1. PICK r : r = ApprovalRecord(a, "fulfill_approval", NoApproval)
    OBVIOUS
  <2>2. Requested(r) /\ r.sub \in Approvals
    BY <1>9, <2>1, EndAsks
       DEF doApprovalFulfillSubAccount, doApprovalFulfillCheck, PrepareApproval, Approvals
  <2>3. CASE day < info[a].appr.seal
    <3>1. SetSignTxCache("approval", {r}, TRUE)
      BY <1>9, <2>1, <2>3 DEF doApprovalFulfillSubAccount, PrepareApproval, SetSignTxCache
    <3>2. QED
      BY <1>4, <2>2, <3>1
  <2>4. CASE ~ (day < info[a].appr.seal)
    <3>1. (day < info[a].appr.seal) = FALSE
      BY <2>4
    <3>2. SetSignTxCache("approval", {r}, FALSE)
      BY <1>9, <2>1, <3>1 DEF doApprovalFulfillSubAccount, PrepareApproval, SetSignTxCache
    <3>3. QED
      BY <1>4, <2>2, <3>2
  <2>5. QED
    BY <2>3, <2>4
<1>10. "owner" \in EditKeys /\ "manager" \in EditKeys /\ "records" \in EditKeys
  BY DEF EditKeys
<1>11. Kept
  BY <1>1, <1>2, <1>5, <1>6, <1>7, <1>8, <1>9, <1>10 DEF Prepare
<1>12. QED
  BY <1>11 DEF Kept

-----------------------------------------------------------------------------
(* Second calls, and what needs no signature *)

\* The record inserted for a cached one differs from it in its signer only.
Same(r, q) == /\ r.acc = q.acc /\ r.nonce = q.nonce /\ r.sub = q.sub /\ r.appr = q.appr
              /\ r.key = q.key /\ r.over = q.over /\ r.type = q.type

Sent(k, kind, list) ==
    /\ \A r \in list : Entitled(r, info[r.acc]) /\ \E q \in cache[k].list : Same(r, q)
    /\ OneEach(list)
    /\ IF kind = "mint" THEN cache[k].kind = "mint" ELSE cache[k].kind # "mint"

LEMMA CreateFlies ==
    ASSUME TypeOK, NEW k \in Keys, CacheOk(k), doSubActionCreate(k)
    PROVE  \E list \in SUBSET Record : Fly("mint", k, list) /\ used' = used /\ Sent(k, "mint", list)
<1>1. PICK old : old = cache[k].list
  OBVIOUS
<1>2. PICK manager \in Managers : manager = parent.manager
  BY DEF TypeOK
<1>3. PICK list : list = {[r EXCEPT !.by = manager] : r \in old}
  OBVIOUS
<1>4. old \subseteq Record /\ cache[k].kind = "mint" /\ \A r \in old : r.sub \in Mints
  BY <1>1 DEF TypeOK, Entry, doSubActionCreate, Send, CacheOk, SubsOf
<1>5. \A q \in Record : /\ [q EXCEPT !.by = manager] \in Record
                        /\ \A r : r = [q EXCEPT !.by = manager] => Same(r, q)
  BY DEF Record, Same
<1>6. \A r \in list : \E q \in old : r = [q EXCEPT !.by = manager]
  BY <1>3
<1> HIDE <1>3
<1>7. \A r \in list : r \in Record /\ \E q \in old : Same(r, q) /\ r = [q EXCEPT !.by = manager]
  BY <1>4, <1>5, <1>6
<1>8. \A r \in list : Entitled(r, info[r.acc])
  BY <1>4, <1>7, EntitledCases DEF Same
<1>9. OneEach(list)
  BY <1>1, <1>7 DEF CacheOk, OneEach, Same
<1>10. Fly("mint", k, list) /\ used' = used
  BY <1>1, <1>2, <1>3 DEF doSubActionCreate, Fly
<1>11. QED
  BY <1>1, <1>4, <1>7, <1>8, <1>9, <1>10 DEF Sent

LEMMA EditFlies ==
    ASSUME TypeOK, NEW k \in Keys, CacheOk(k), doSubActionEdit(k)
    PROVE  \E list \in SUBSET Record : Fly("plain", k, list) /\ used' = used /\ Sent(k, "plain", list)
<1>1. PICK q \in cache[k].list :
        /\ EditCheck(q.acc, q.sub, q.to, q.by)
        /\ ~ SignMsgDiff(q)
        /\ Fly("plain", k, {[q EXCEPT !.nonce = info[q.acc].nonce + 1]})
  BY DEF doSubActionEdit
<1>2. q \in Record /\ cache[k].kind = "edit" /\ q.sub \in EditKeys
  BY DEF TypeOK, Entry, doSubActionEdit, Send, CacheOk, SubsOf
<1>3. [q EXCEPT !.nonce = info[q.acc].nonce + 1] = q
  <2>1. q.nonce = info[q.acc].nonce + 1
    BY <1>1 DEF SignMsgDiff
  <2>2. QED
    BY <1>2, <2>1 DEF Record
<1>4. Fly("plain", k, {q}) /\ used' = used
  BY <1>1, <1>3 DEF Fly, doSubActionEdit
<1>5. Entitled(q, info[q.acc])
  <2>1. q.by = IF q.sub = "records" THEN info[q.acc].manager ELSE info[q.acc].owner
    BY <1>1 DEF EditCheck
  <2>2. QED
    BY <1>2, <2>1, EntitledCases DEF EditKeys
<1>6. Sent(k, "plain", {q})
  BY <1>2, <1>5 DEF Sent, Same, OneEach
<1>7. QED
  BY <1>2, <1>4, <1>6

LEMMA ApprovalFlies ==
    ASSUME TypeOK, NEW k \in Keys, CacheOk(k), doSubActionApproval(k)
    PROVE  \E list \in SUBSET Record : Fly("plain", k, list) /\ used' = used /\ Sent(k, "plain", list)
<1>1. PICK q \in cache[k].list : Fly("plain", k, {[q EXCEPT !.by = ApprovalSigner(q)]})
  BY DEF doSubActionApproval
<1>2. q \in Record /\ cache[k].kind = "approval" /\ q.sub \in Approvals
  BY DEF TypeOK, Entry, doSubActionApproval, Send, CacheOk, SubsOf
<1>3. PICK r : r = [q EXCEPT !.by = ApprovalSigner(q)]
  OBVIOUS
<1>4. PICK signer : signer = ApprovalSigner(q)
  OBVIOUS
<1>5. signer \in People \cup {Nobody, "platform"}
  BY <1>2, <1>4, AccountTyped DEF ApprovalSigner, Record, Account
<1>6. r \in Record /\ r.by = signer /\ Same(r, q)
  BY <1>2, <1>3, <1>4, <1>5 DEF Record, Same
<1>7. Fly("plain", k, {r}) /\ used' = used
  BY <1>1, <1>3 DEF Fly, doSubActionApproval
<1>8. Entitled(r, info[q.acc])
  BY <1>2, <1>4, <1>6, EntitledCases DEF ApprovalSigner, Approvals, Same
<1>9. Sent(k, "plain", {r})
  BY <1>2, <1>6, <1>8 DEF Sent, OneEach, Same
<1>10. QED
  BY <1>6, <1>7, <1>9

LEMMA SendKeyFlies ==
    ASSUME TypeOK, NEW k \in Keys, CacheOk(k), SendKey(k)
    PROVE  \E kind \in {"mint", "plain"}, list \in SUBSET Record :
             Fly(kind, k, list) /\ used' = used /\ Sent(k, kind, list)
BY CreateFlies, EditFlies, ApprovalFlies DEF SendKey

LEMMA MintFlies ==
    ASSUME TypeOK, NEW as \in SUBSET Accounts, NEW p \in People, doInternalSubAccountMintNew(as, p)
    PROVE  \E list \in SUBSET Record :
             /\ Fly("plain", 0, list)
             /\ used' \in [signs : 0..MaxSigns, parent : 0..MaxParent]
             /\ OneEach(list)
             /\ \A r \in list : Requested(r) /\ r.sub = "create" /\ r.key = 0
<1>1. PICK list : list = getRecordListNew(as, p)
  OBVIOUS
<1>2. list = doMinSignInfo(as, p) /\ doSubAccountCheckList(as)
  BY <1>1 DEF getRecordListNew, doMinSignInfo, doInternalSubAccountMintNew
<1>3. \A r \in list : /\ Requested(r) /\ r.sub = "create" /\ r.key = 0
                      /\ r = CreateRecord(r.acc, p)
  BY <1>2, CreateAsks
<1>4. OneEach(list) /\ list \in SUBSET Record
  BY <1>3 DEF OneEach, Requested
<1>5. Fly("plain", 0, list)
  BY <1>1 DEF doInternalSubAccountMintNew, Fly
<1>6. used' \in [signs : 0..MaxSigns, parent : 0..MaxParent]
  BY BoundsKnown DEF doInternalSubAccountMintNew, TypeOK
<1>7. QED
  BY <1>3, <1>4, <1>5, <1>6

Recyclable(r) == /\ r.type = "Default" /\ r.sub = "recycle" /\ r.key = 0
                 /\ r.over = r.nonce /\ r.nonce = info[r.acc].nonce + 1
                 /\ Exists(r.acc) /\ Over(info[r.acc]) /\ GetRecycleSmtRecord(r.acc) = {}

LEMMA RecycleFlies ==
    ASSUME TypeOK, NEW as, as \subseteq NeedToRecycle, Recycle(as)
    PROVE  \E list \in SUBSET Record :
             /\ Fly("recycle", 0, list) /\ used' = used
             /\ Prompt => \A f \in flight : f.kind # "recycle"
             /\ OneEach(list)
             /\ \A r \in list : Recyclable(r)
<1>1. PICK list : list = {NewRecord(a, info[a].nonce + 1, "recycle") : a \in as}
  OBVIOUS
<1>2. \A r \in list : \E a \in as : r = NewRecord(a, info[a].nonce + 1, "recycle")
  BY <1>1
<1>3. ASSUME NEW r \in list
      PROVE  /\ r \in Record /\ Recyclable(r)
             /\ r = NewRecord(r.acc, info[r.acc].nonce + 1, "recycle")
  <2>1. PICK a \in as : r = NewRecord(a, info[a].nonce + 1, "recycle")
    BY <1>2
  <2>2. /\ a \in Accounts /\ Exists(a) /\ info[a].exp < day - Grace
        /\ GetRecycleSmtRecord(a) = {}
    BY DEF NeedToRecycle
  <2>3. info[a].nonce + 1 \in 0..MaxNonce + 1 /\ "recycle" \in SubActions
    BY <2>2, AccountTyped DEF SubActions, Exists
  <2>4. /\ r \in Record /\ r.acc = a /\ r.nonce = info[a].nonce + 1 /\ r.sub = "recycle"
        /\ r.over = r.nonce /\ r.key = 0 /\ r.type = "Default"
    BY <2>1, <2>2, <2>3, NewRecordTyped
  <2>5. QED
    BY <2>1, <2>2, <2>4 DEF Recyclable, Over
<1>4. OneEach(list) /\ list \in SUBSET Record
  BY <1>3 DEF OneEach
<1>5. /\ Fly("recycle", 0, list) /\ used' = used
      /\ Prompt => \A f \in flight : f.kind # "recycle"
  BY <1>1 DEF Recycle, Fly
<1>6. QED
  BY <1>3, <1>4, <1>5

\* All inserts that handlers set out to do.
Flies(kind, key, list) ==
    /\ OneEach(list)
    /\ \/ key \in Keys /\ kind \in {"mint", "plain"} /\ Sent(key, kind, list)
       \/ kind = "plain" /\ key = 0 /\ \A r \in list : Requested(r) /\ r.sub = "create" /\ r.key = 0
       \/ /\ kind = "recycle" /\ key = 0 /\ \A r \in list : Recyclable(r)
          /\ Prompt => \A f \in flight : f.kind # "recycle"

LEMMA HandlersFly ==
    ASSUME TypeOK, \A k \in Keys : CacheOk(k),
           (\E k \in Keys : SendKey(k)) \/ Direct \/ recycleSubAccount
    PROVE  \E kind \in {"mint", "plain", "recycle"}, key \in 0..MaxSigns, list \in SUBSET Record :
             /\ Fly(kind, key, list) /\ Flies(kind, key, list)
             /\ used' \in [signs : 0..MaxSigns, parent : 0..MaxParent]
<1> DEFINE Found == \E kind \in {"mint", "plain", "recycle"}, key \in 0..MaxSigns,
                       list \in SUBSET Record :
                      /\ Fly(kind, key, list) /\ Flies(kind, key, list)
                      /\ used' \in [signs : 0..MaxSigns, parent : 0..MaxParent]
<1>1. ASSUME NEW k \in Keys, SendKey(k)
      PROVE  Found
  <2>1. PICK kind \in {"mint", "plain"}, list \in SUBSET Record :
          Fly(kind, k, list) /\ used' = used /\ Sent(k, kind, list)
    BY <1>1, SendKeyFlies
  <2>2. used' \in [signs : 0..MaxSigns, parent : 0..MaxParent] /\ k \in 0..MaxSigns
    BY <2>1, BoundsKnown DEF TypeOK, Keys
  <2>3. OneEach(list) /\ Flies(kind, k, list)
    BY <2>1 DEF Sent, Flies
  <2>4. QED
    BY <2>1, <2>2, <2>3
<1>2. ASSUME NEW as \in SUBSET Accounts, NEW p \in People, doInternalSubAccountMintNew(as, p)
      PROVE  Found
  <2>1. PICK list \in SUBSET Record :
          /\ Fly("plain", 0, list)
          /\ used' \in [signs : 0..MaxSigns, parent : 0..MaxParent]
          /\ OneEach(list)
          /\ \A r \in list : Requested(r) /\ r.sub = "create" /\ r.key = 0
    BY <1>2, MintFlies
  <2>2. Flies("plain", 0, list) /\ 0 \in 0..MaxSigns
    BY <2>1, BoundsKnown DEF Flies
  <2>3. QED
    BY <2>1, <2>2
<1>3. ASSUME NEW as, as \subseteq NeedToRecycle, Recycle(as)
      PROVE  Found
  <2>1. PICK list \in SUBSET Record :
          /\ Fly("recycle", 0, list) /\ used' = used
          /\ Prompt => \A f \in flight : f.kind # "recycle"
          /\ OneEach(list)
          /\ \A r \in list : Recyclable(r)
    BY <1>3, RecycleFlies
  <2>2. Flies("recycle", 0, list) /\ 0 \in 0..MaxSigns
    BY <2>1, BoundsKnown DEF Flies
  <2>3. used' \in [signs : 0..MaxSigns, parent : 0..MaxParent]
    BY <2>1 DEF TypeOK
  <2>4. QED
    BY <2>1, <2>2, <2>3
<1> HIDE DEF Found
<1>4. ASSUME recycleSubAccount
      PROVE  Found
  <2>1. PICK as : as = NeedToRecycle
    OBVIOUS
  <2>2. Recycle(as)
    BY <1>4, <2>1 DEF recycleSubAccount, Recycle, Fly
  <2>3. QED
    BY <1>3, <2>1, <2>2
<1>5. ASSUME NEW all, doRecycleAccount(all)
      PROVE  Found
  <2>1. PICK as : as = all \cap NeedToRecycle
    OBVIOUS
  <2>2. Recycle(as)
    BY <1>5, <2>1 DEF doRecycleAccount, Recycle, Fly
  <2>3. QED
    BY <1>3, <2>1, <2>2
<1>6. Found
  BY <1>1, <1>2, <1>4, <1>5 DEF Direct
<1>7. QED
  BY <1>6 DEF Found

-----------------------------------------------------------------------------
(* Inserts *)

Lands(f, rows, signs) ==
    /\ rows \subseteq Fits(f.list)
    /\ \/ signs = {} /\ (f.kind = "mint" => rows = {})
       \/ f.kind = "mint" /\ signs = {f.key} /\ f.key \notin mintSign /\ rows = f.list

LEMMA InsertLands ==
    ASSUME NEW f, Insert(f)
    PROVE  \E rows, signs : Landed(f, rows, signs) /\ Lands(f, rows, signs)
<1>1. CASE f.kind = "mint" /\ CreateMinSignInfo(f)
  <2>1. CASE f.key \in mintSign \/ Fits(f.list) # f.list
    BY <1>1, <2>1 DEF CreateMinSignInfo, Lands
  <2>2. CASE ~ (f.key \in mintSign \/ Fits(f.list) # f.list)
    <3>1. Landed(f, f.list, {f.key})
      BY <1>1, <2>2 DEF CreateMinSignInfo
    <3>2. PICK rows, signs : rows = f.list /\ signs = {f.key}
      OBVIOUS
    <3>3. Lands(f, rows, signs)
      BY <1>1, <2>2, <3>2 DEF Lands
    <3>4. Landed(f, rows, signs)
      BY <3>1, <3>2
    <3>5. QED
      BY <3>3, <3>4
  <2>3. QED
    BY <2>1, <2>2
<1>2. CASE f.kind = "plain" /\ CreateSmtRecordList(f)
  <2>1. PICK rows : rows = IF Fits(f.list) = f.list THEN f.list ELSE {}
    OBVIOUS
  <2>2. Landed(f, rows, {})
    BY <1>2, <2>1 DEF CreateSmtRecordList, Landed
  <2>3. Lands(f, rows, {})
    BY <1>2, <2>1 DEF Lands
  <2>4. QED
    BY <2>2, <2>3
<1>3. CASE f.kind = "recycle" /\ CreateRecycleSmtRecordList(f)
  <2>1. PICK rows : rows = Fits(f.list)
    OBVIOUS
  <2>2. Landed(f, rows, {})
    BY <1>3, <2>1 DEF CreateRecycleSmtRecordList, Landed
  <2>3. Lands(f, rows, {})
    BY <1>3, <2>1 DEF Lands
  <2>4. QED
    BY <2>2, <2>3
<1>4. QED
  BY <1>1, <1>2, <1>3 DEF Insert

-----------------------------------------------------------------------------
(* Expiry *)

LEMMA Years ==
    ASSUME NEW m \in Nat, NEW n \in Nat, m <= n
    PROVE  /\ Year * m \in Nat /\ Year * n \in Nat /\ Year * m <= Year * n
           /\ Year * (m + 1) = Year * m + Year
<1>1. PICK d \in Nat : n = m + d
  <2>1. n - m \in Nat /\ n = m + (n - m)
    OBVIOUS
  <2>2. QED
    BY <2>1
<1>2. Year * n = Year * m + Year * d
  BY <1>1, BoundsKnown
<1>3. Year * m \in Nat /\ Year * d \in Nat
  BY BoundsKnown
<1>4. Year * (m + 1) = Year * m + Year
  BY BoundsKnown
<1>5. QED
  BY <1>2, <1>3, <1>4

LEMMA LeftKnown ==
    ASSUME TypeOK, RenewsOk, NEW a \in Accounts
    PROVE  /\ Left(a) \subseteq Keys /\ IsFiniteSet(Left(a))
           /\ Cardinality(Left(a)) \in Nat /\ Cardinality(Left(a)) <= MaxSigns
<1>1. Left(a) \subseteq Keys
  BY DEF Left, RenewsOk, TypeOK
<1>2. IsFiniteSet(Keys) /\ Cardinality(Keys) = MaxSigns
  BY FS_Interval, BoundsKnown DEF Keys
<1>3. QED
  BY <1>1, <1>2, FS_Subset, FS_CardinalityType

LEMMA LeftShrinks ==
    ASSUME NEW old, NEW new, IsFiniteSet(old), new \subseteq old
    PROVE  /\ IsFiniteSet(new)
           /\ Cardinality(new) \in Nat /\ Cardinality(old) \in Nat
           /\ Year * Cardinality(new) \in Nat
           /\ Year * Cardinality(new) <= Year * Cardinality(old)
<1>1. /\ IsFiniteSet(new) /\ Cardinality(new) <= Cardinality(old)
      /\ Cardinality(new) \in Nat /\ Cardinality(old) \in Nat
  BY FS_Subset, FS_CardinalityType
<1>2. QED
  BY <1>1, Years

LEMMA LeftLoses ==
    ASSUME NEW old, NEW new, NEW k \in old, IsFiniteSet(old), new \subseteq old \ {k}
    PROVE  /\ Cardinality(new) \in Nat /\ Cardinality(old) \in Nat
           /\ Year * Cardinality(new) + Year <= Year * Cardinality(old)
<1>1. /\ IsFiniteSet(old \ {k}) /\ Cardinality(old \ {k}) = Cardinality(old) - 1
      /\ Cardinality(old) \in Nat
  BY FS_RemoveElement, FS_CardinalityType
<1>2. /\ Cardinality(new) \in Nat /\ Cardinality(old \ {k}) \in Nat
      /\ Year * Cardinality(new) <= Year * Cardinality(old \ {k})
  BY <1>1, LeftShrinks
<1>3. PICK n \in Nat : n = Cardinality(old \ {k})
  BY <1>2
<1>4. Cardinality(old) = n + 1 /\ Year * (n + 1) = Year * n + Year
  BY <1>1, <1>3, Years
<1>5. PICK m : m = Cardinality(new)
  OBVIOUS
<1>6. Year * m \in Int /\ Year * n \in Int /\ Year * m <= Year * n
  BY <1>2, <1>3, <1>5, BoundsKnown
<1>7. QED
  BY <1>1, <1>2, <1>4, <1>5, <1>6, BoundsKnown

-----------------------------------------------------------------------------
(* KeyInv holds at first *)

LEMMA AccountIs ==
    Account = [nonce : -1..MaxNonce, owner : People \cup {Nobody}, manager : People \cup {Nobody},
               exp : 0..MaxExp, status : {"normal", "approval"}, appr : Approval]
BY DEF Account, MaxExp

LEMMA FirstAccounts ==
    ASSUME NEW p \in People, NEW l \in {NoAccount, Registered(p), UnderApproval(p)}
    PROVE  /\ l \in Account /\ NoAccount \in Account
           /\ l.exp <= Year /\ NoAccount.exp <= Year
<1>1. NoApproval \in Approval
  BY BoundsKnown DEF NoApproval, Approval, Days, Byte
<1>2. NoAccount \in Account /\ NoAccount.exp = 0 /\ NoAccount.exp <= Year
  BY <1>1, BoundsKnown DEF NoAccount, Account, MaxExp
<1>3. Registered(p) \in Account /\ Registered(p).exp = Year
  <2>1. Year \in 0..MaxExp /\ 0 \in -1..MaxNonce
    BY BoundsKnown
  <2>2. QED
    BY <1>2, <2>1, AccountIs DEF Registered
<1>4. UnderApproval(p) \in Account /\ UnderApproval(p).exp = Year
  <2>1. PICK q \in People : q = CHOOSE x \in People : x # p
    BY BoundsKnown
  <2>2. PICK appr : appr = [prot |-> 0, seal |-> 1, delay |-> MaxDelay, to |-> q]
    OBVIOUS
  <2>3. appr \in Approval
    BY <2>2, BoundsKnown DEF Approval, Days, Byte
  <2>4. UnderApproval(p) =
          [Registered(p) EXCEPT !.nonce = 1, !.status = "approval", !.appr = appr]
    BY <2>1, <2>2 DEF UnderApproval
  <2>5. 1 \in -1..MaxNonce
    BY BoundsKnown
  <2>6. QED
    BY <1>3, <2>3, <2>4, <2>5, AccountIs
<1>5. QED
  BY <1>2, <1>3, <1>4, BoundsKnown

LEMMA KeyInvInit == Init => KeyInv
<1> SUFFICES ASSUME Init
             PROVE  KeyInv
  OBVIOUS
<1>1. PICK p \in People : \E l \in {NoAccount, Registered(p), UnderApproval(p)} :
        leaf = [a \in Accounts |-> IF a \in Fresh THEN NoAccount ELSE l]
  BY DEF Init
<1>2. PICK l \in {NoAccount, Registered(p), UnderApproval(p)} :
        leaf = [a \in Accounts |-> IF a \in Fresh THEN NoAccount ELSE l]
  BY <1>1
<1>3. \A a \in Accounts : leaf[a] \in Account /\ leaf[a].exp <= Year
  <2>1. \A m \in {l, NoAccount} : m \in Account /\ m.exp <= Year
    BY <1>2, FirstAccounts
  <2>2. \A a \in Accounts : leaf[a] \in {l, NoAccount}
    BY <1>2
  <2>3. QED
    BY <2>1, <2>2
<1>4. TypeOK
  <2>1. leaf \in [Accounts -> Account] /\ info = leaf
    BY <1>2, <1>3 DEF Init
  <2>2. NoEntry \in Entry
    BY DEF NoEntry, Entry
  <2>3. used \in [signs : 0..MaxSigns, parent : 0..MaxParent] /\ day \in Days
    BY BoundsKnown DEF Init, Days
  <2>4. cache \in [Keys -> Entry]
    BY <2>2 DEF Init
  <2>5. parent \in [manager : Managers, script : BOOLEAN] /\ recs = {} /\ mintSign = {} /\ flight = {}
    BY DEF Init
  <2>6. QED
    BY <2>1, <2>3, <2>4, <2>5 DEF TypeOK
<1>5. ListsOk
  BY DEF Init, ListsOk, CacheOk, FlightOk, OneEach, NoEntry
<1>6. RenewsOk
  BY DEF Init, RenewsOk, RenewsOf, WaitingOf, Waiting
<1>7. ASSUME NEW a \in Accounts
      PROVE  leaf[a].exp + Year * Cardinality(Left(a)) <= MaxExp
  <2>1. /\ Cardinality(Left(a)) \in Nat /\ Cardinality(Left(a)) <= MaxSigns
    BY <1>4, <1>6, LeftKnown
  <2>2. PICK n \in Nat : n = Cardinality(Left(a))
    BY <2>1
  <2>3. Year * n <= Year * MaxSigns /\ Year * n \in Nat /\ Year * (MaxSigns + 1) = Year * MaxSigns + Year
    BY <2>1, <2>2, Years, BoundsKnown
  <2>4. leaf[a].exp \in Int /\ leaf[a].exp <= Year /\ Year * MaxSigns \in Nat
    BY <1>3, <1>4, AccountTyped, BoundsKnown
  <2>5. QED
    BY <2>2, <2>3, <2>4, BoundsKnown DEF MaxExp
<1>8. QED
  BY <1>4, <1>5, <1>6, <1>7 DEF KeyInv, ExpOk

-----------------------------------------------------------------------------
(* Every step keeps KeyInv *)

LEMMA RenewsStay ==
    ASSUME KeyInv, UNCHANGED <<leaf, recs, mintSign>>
    PROVE  RenewsOk' /\ ExpOk'
BY DEF KeyInv, RenewsOk, ExpOk, RenewsOf, WaitingOf, Waiting, Left

\* What is cached under a new key.
LEMMA CachedUnder ==
    ASSUME TypeOK, NEW kind, NEW list \in SUBSET Record, NEW signed, Asked(kind, list),
           SetSignTxCache(kind, list, signed)
    PROVE  \E n \in Keys, new \in SUBSET Record :
             /\ cache' = [cache EXCEPT ![n] = [kind |-> kind, signed |-> signed, list |-> new]]
             /\ OneEach(new)
             /\ \A r \in new : Requested(r) /\ r.key = n /\ r.sub \in SubsOf(kind)
<1>1. PICK n : n = used.signs + 1
  OBVIOUS
<1>2. n \in Keys
  BY <1>1, BoundsKnown DEF SetSignTxCache, TypeOK, Keys
<1>3. PICK new : new = {[r EXCEPT !.key = n] : r \in list}
  OBVIOUS
<1>4. \A r \in new : \E q \in list : r = [q EXCEPT !.key = n]
  BY <1>3
<1>5. \A q \in Record : [q EXCEPT !.key = n] \in Record
  BY <1>2, BoundsKnown DEF Record, Keys
<1>6. \A q \in Record : \A r : r = [q EXCEPT !.key = n] =>
        /\ r.key = n /\ r.acc = q.acc /\ r.nonce = q.nonce /\ r.sub = q.sub /\ r.appr = q.appr
        /\ r.over = q.over /\ r.type = q.type
  BY DEF Record
<1>7. ASSUME NEW r \in new, NEW q \in list, r = [q EXCEPT !.key = n]
      PROVE  Requested(r) /\ r.key = n /\ r.sub \in SubsOf(kind) /\ r.acc = q.acc
  <2>1. Requested(q) /\ q.sub \in SubsOf(kind) /\ q \in Record
    BY DEF Asked
  <2>2. r \in Record
    BY <1>5, <1>7
  <2>3. /\ r.key = n /\ r.acc = q.acc /\ r.nonce = q.nonce /\ r.sub = q.sub /\ r.appr = q.appr
        /\ r.over = q.over /\ r.type = q.type
    BY <1>6, <1>7, <2>1
  <2>4. Allowed(r, info[r.acc])
    BY <2>1, <2>3 DEF Requested, Allowed
  <2>5. QED
    BY <2>1, <2>2, <2>3, <2>4 DEF Requested
<1>8. OneEach(new)
  BY <1>4, <1>7 DEF Asked, OneEach
<1>9. cache' = [cache EXCEPT ![n] = [kind |-> kind, signed |-> signed, list |-> new]]
  BY <1>1, <1>3 DEF SetSignTxCache
<1>10. new \in SUBSET Record
  BY <1>4, <1>5
<1>11. QED
  BY <1>2, <1>4, <1>7, <1>8, <1>9, <1>10

LEMMA KeyInvPrepare ==
    ASSUME KeyInv, Prepare
    PROVE  KeyInv'
<1>1. TypeOK
  BY DEF KeyInv
<1>2. PICK kind \in {"mint", "edit", "approval"}, list \in SUBSET Record, signed \in BOOLEAN :
        Asked(kind, list) /\ SetSignTxCache(kind, list, signed)
  BY <1>1, PrepareAsks
<1>3. /\ used.signs < MaxSigns /\ used' = [used EXCEPT !.signs = @ + 1]
      /\ UNCHANGED <<leaf, info, recs, mintSign, flight, parent, day>>
  BY <1>2 DEF SetSignTxCache
<1>4. PICK n \in Keys, new \in SUBSET Record :
        /\ cache' = [cache EXCEPT ![n] = [kind |-> kind, signed |-> signed, list |-> new]]
        /\ OneEach(new)
        /\ \A r \in new : Requested(r) /\ r.key = n /\ r.sub \in SubsOf(kind)
  BY <1>1, <1>2, CachedUnder
<1>5. TypeOK'
  <2>1. cache' \in [Keys -> Entry]
    BY <1>1, <1>4 DEF TypeOK, Entry
  <2>2. used' \in [signs : 0..MaxSigns, parent : 0..MaxParent]
    BY <1>1, <1>3, BoundsKnown DEF TypeOK
  <2>3. QED
    BY <1>1, <1>3, <2>1, <2>2 DEF TypeOK
<1>6. ListsOk'
  <2>1. ASSUME NEW k \in Keys
        PROVE  CacheOk(k)'
    <3>1. cache'[k] = IF k = n THEN [kind |-> kind, signed |-> signed, list |-> new] ELSE cache[k]
      BY <1>1, <1>4 DEF TypeOK
    <3>2. CASE k = n
      BY <1>4, <3>1, <3>2 DEF CacheOk, Requested
    <3>3. CASE k # n
      BY <3>1, <3>3 DEF KeyInv, ListsOk, CacheOk
    <3>4. QED
      BY <3>2, <3>3
  <2>2. QED
    BY <1>3, <2>1 DEF KeyInv, ListsOk
<1>7. QED
  BY <1>3, <1>5, <1>6, RenewsStay DEF KeyInv

LEMMA KeyInvFly ==
    ASSUME KeyInv, (\E k \in Keys : SendKey(k)) \/ Direct \/ recycleSubAccount
    PROVE  KeyInv'
<1>1. TypeOK /\ \A k \in Keys : CacheOk(k)
  BY DEF KeyInv, ListsOk
<1>2. PICK kind \in {"mint", "plain", "recycle"}, key \in 0..MaxSigns, list \in SUBSET Record :
        /\ Fly(kind, key, list) /\ Flies(kind, key, list)
        /\ used' \in [signs : 0..MaxSigns, parent : 0..MaxParent]
  BY <1>1, HandlersFly
<1>3. PICK f : f = [kind |-> kind, key |-> key, list |-> list]
  OBVIOUS
<1>4. /\ flight' = flight \cup {f}
      /\ UNCHANGED <<leaf, info, recs, mintSign, cache, parent, day>>
  BY <1>2, <1>3 DEF Fly
<1>5. TypeOK'
  BY <1>1, <1>2, <1>3, <1>4 DEF TypeOK
<1>6. FlightOk(f)
  <2>1. OneEach(list)
    BY <1>2 DEF Flies
  <2>2. CASE key \in Keys /\ kind \in {"mint", "plain"} /\ Sent(key, kind, list)
    <3>1. ASSUME NEW r \in list
          PROVE  /\ r.type = "Default" /\ r.sub # "recycle"
                 /\ kind = "mint" => r.sub \in Mints /\ r.key = key
                 /\ kind = "plain" => r.sub \notin Mints
      <4>1. PICK q \in cache[key].list : Same(r, q)
        BY <2>2 DEF Sent
      <4>2. q.type = "Default" /\ q.key = key /\ q.sub \in SubsOf(cache[key].kind)
        BY <1>1, <2>2 DEF CacheOk
      <4>3. kind = "mint" <=> cache[key].kind = "mint"
        BY <2>2 DEF Sent
      <4>4. QED
        BY <2>2, <4>1, <4>2, <4>3 DEF Same, SubsOf, Mints, EditKeys, Approvals
    <3>2. QED
      BY <1>3, <2>1, <2>2, <3>1 DEF FlightOk, Mints
  <2>3. CASE kind = "plain" /\ key = 0 /\ \A r \in list : Requested(r) /\ r.sub = "create" /\ r.key = 0
    BY <1>3, <2>1, <2>3 DEF FlightOk, Requested
  <2>4. CASE kind = "recycle" /\ \A r \in list : Recyclable(r)
    BY <1>3, <2>1, <2>4 DEF FlightOk, Recyclable
  <2>5. QED
    BY <1>2, <2>2, <2>3, <2>4 DEF Flies
<1>7. ListsOk'
  <2>1. \A k \in Keys : CacheOk(k)'
    BY <1>1, <1>4 DEF CacheOk
  <2>2. \A g \in flight' : FlightOk(g)
    BY <1>4, <1>6 DEF KeyInv, ListsOk
  <2>3. QED
    BY <2>1, <2>2 DEF ListsOk, FlightOk
<1>8. QED
  BY <1>4, <1>5, <1>7, RenewsStay DEF KeyInv

LEMMA KeyInvInsert ==
    ASSUME KeyInv, NEW f \in flight, Insert(f)
    PROVE  KeyInv'
<1>1. PICK rows, signs : Landed(f, rows, signs) /\ Lands(f, rows, signs)
  BY InsertLands
<1>2. /\ flight' = flight \ {f} /\ recs' = recs \cup rows /\ mintSign' = mintSign \cup signs
      /\ UNCHANGED <<leaf, info, cache, parent, day, used>>
  BY <1>1 DEF Landed
<1>3. TypeOK /\ ListsOk /\ RenewsOk /\ ExpOk /\ FlightOk(f)
  BY DEF KeyInv, ListsOk
<1>4. f.list \in SUBSET Record /\ rows \subseteq f.list
  BY <1>1, <1>3 DEF TypeOK, Lands, Fits
<1>5. TypeOK'
  <2>1. signs \subseteq Keys
    BY <1>1, <1>3 DEF Lands, FlightOk
  <2>2. QED
    BY <1>2, <1>3, <1>4, <2>1 DEF TypeOK
<1>6. ListsOk'
  BY <1>2, <1>3 DEF ListsOk, CacheOk, FlightOk
<1>7. ASSUME NEW r \in rows, r.sub = "renew"
      PROVE  r \in f.list /\ signs = {r.key} /\ r.key \in Keys \ mintSign
  <2>1. r \in f.list /\ f.kind \in {"mint", "plain", "recycle"}
    BY <1>3, <1>4 DEF TypeOK
  <2>2. f.kind = "mint"
    BY <1>3, <1>7, <2>1 DEF FlightOk
  <2>3. signs = {f.key} /\ f.key \notin mintSign
    BY <1>1, <2>2 DEF Lands
  <2>4. QED
    BY <1>3, <2>1, <2>2, <2>3 DEF FlightOk
<1>8. \A a \in Accounts : \A r \in RenewsOf(a)' :
        \/ r \in RenewsOf(a)
        \/ r \in rows /\ r.sub = "renew" /\ r.acc = a
  BY <1>2 DEF RenewsOf, WaitingOf, Waiting
<1>9. RenewsOk'
  <2>1. ASSUME NEW a \in Accounts, NEW r \in RenewsOf(a)'
        PROVE  r.key \in mintSign'
    BY <1>2, <1>3, <1>7, <1>8, <2>1 DEF RenewsOk
  <2>2. ASSUME NEW a \in Accounts, NEW r \in RenewsOf(a)', NEW q \in RenewsOf(a)', r.key = q.key
        PROVE  r = q
    <3>1. CASE r \in RenewsOf(a) /\ q \in RenewsOf(a)
      BY <1>3, <2>2, <3>1 DEF RenewsOk
    <3>2. CASE r \notin RenewsOf(a) /\ q \notin RenewsOf(a)
      <4>1. r \in f.list /\ q \in f.list /\ r.acc = q.acc
        BY <1>7, <1>8, <3>2
      <4>2. QED
        BY <1>3, <4>1 DEF FlightOk, OneEach
    <3>3. CASE ~ (r \in RenewsOf(a) <=> q \in RenewsOf(a))
      BY <1>3, <1>7, <1>8, <2>2, <3>3 DEF RenewsOk
    <3>4. QED
      BY <3>1, <3>2, <3>3
  <2>3. QED
    BY <2>1, <2>2 DEF RenewsOk
<1>10. ASSUME NEW a \in Accounts
       PROVE  leaf'[a].exp + Year * Cardinality(Left(a)') <= MaxExp
  <2>1. PICK new : new = Left(a)'
    OBVIOUS
  <2>2. new \subseteq Left(a)
    <3>1. \A k \in new : k \in Keys \ mintSign' \/ \E r \in RenewsOf(a)' : k = r.key
      BY <2>1 DEF Left
    <3>2. QED
      BY <1>2, <1>7, <1>8, <3>1 DEF Left
  <2>3. PICK m, n : m = Cardinality(new) /\ n = Cardinality(Left(a))
    OBVIOUS
  <2>4. /\ m \in Nat /\ n \in Nat /\ Year * m \in Nat /\ Year * m <= Year * n
    BY <1>3, <2>2, <2>3, LeftKnown, LeftShrinks
  <2>5. leaf[a].exp + Year * n <= MaxExp /\ leaf' = leaf
    BY <1>2, <1>3, <2>3 DEF ExpOk
  <2>6. leaf[a].exp + Year * m <= MaxExp
    BY <1>3, <2>4, <2>5, AccountTyped, BoundsKnown
  <2>7. QED
    BY <2>1, <2>3, <2>5, <2>6
<1>11. QED
  BY <1>5, <1>6, <1>9, <1>10 DEF KeyInv, ExpOk

\* Records that are closed or confirmed leave the others as they are.
LEMMA RenewsLeave ==
    ASSUME KeyInv, NEW r \in Waiting, NEW chain, \A q \in chain : q.type = "Chain",
           recs' = (recs \ {r}) \cup chain, mintSign' = mintSign
    PROVE  /\ \A a \in Accounts : RenewsOf(a)' = RenewsOf(a) \ {r}
           /\ \A a \in Accounts : Left(a)' \subseteq Left(a)
           /\ RenewsOk'
<1>1. \A a \in Accounts : RenewsOf(a)' = RenewsOf(a) \ {r}
  <2>1. Waiting' = Waiting \ {r}
    BY DEF Waiting
  <2>2. QED
    BY <2>1 DEF RenewsOf, WaitingOf
<1>2. \A a \in Accounts : Left(a)' \subseteq Left(a)
  BY <1>1 DEF Left
<1>3. RenewsOk'
  BY <1>1 DEF KeyInv, RenewsOk
<1>4. QED
  BY <1>1, <1>2, <1>3

LEMMA KeyInvCloseStale ==
    ASSUME KeyInv, NEW r \in Waiting, CloseStale(r)
    PROVE  KeyInv'
<1>1. recs' = recs \ {r} /\ UNCHANGED <<leaf, info, mintSign, cache, flight, parent, day, used>>
  BY DEF CloseStale
<1>2. TypeOK /\ ListsOk /\ RenewsOk /\ ExpOk
  BY DEF KeyInv
<1>3. RenewsOk' /\ \A a \in Accounts : Left(a)' \subseteq Left(a)
  <2>1. PICK chain : chain = {}
    OBVIOUS
  <2>2. recs' = (recs \ {r}) \cup chain /\ \A q \in chain : q.type = "Chain"
    BY <1>1, <2>1
  <2>3. QED
    BY <1>1, <2>2, RenewsLeave
<1>4. TypeOK' /\ ListsOk'
  BY <1>1, <1>2 DEF TypeOK, ListsOk, CacheOk, FlightOk
<1>5. ASSUME NEW a \in Accounts
      PROVE  leaf'[a].exp + Year * Cardinality(Left(a)') <= MaxExp
  <2>1. PICK new : new = Left(a)'
    OBVIOUS
  <2>2. PICK m, n : m = Cardinality(new) /\ n = Cardinality(Left(a))
    OBVIOUS
  <2>3. /\ m \in Nat /\ n \in Nat /\ Year * m \in Nat /\ Year * m <= Year * n
    BY <1>2, <1>3, <2>1, <2>2, LeftKnown, LeftShrinks
  <2>4. leaf[a].exp + Year * n <= MaxExp /\ leaf' = leaf
    BY <1>1, <1>2, <2>2 DEF ExpOk
  <2>5. leaf[a].exp + Year * m <= MaxExp
    BY <1>2, <2>3, <2>4, AccountTyped, BoundsKnown
  <2>6. QED
    BY <2>1, <2>2, <2>4, <2>5
<1>6. QED
  BY <1>3, <1>4, <1>5 DEF KeyInv, ExpOk

LEMMA KeyInvConfirm ==
    ASSUME KeyInv, NEW r \in Waiting, Confirm(r)
    PROVE  KeyInv'
<1>1. PICK chain : chain = {[q EXCEPT !.type = "Chain"] : q \in {r} \cap Recycles}
  OBVIOUS
<1>2. PICK m : m = GetCurrentSubAccountNew(r, leaf[r.acc])
  OBVIOUS
<1>3. /\ leaf' = [leaf EXCEPT ![r.acc] = m] /\ recs' = (recs \ {r}) \cup chain
      /\ leaf[r.acc].nonce < MaxNonce
      /\ UNCHANGED <<info, mintSign, cache, flight, parent, day, used>>
  BY <1>1, <1>2 DEF Confirm
<1>4. TypeOK /\ ListsOk /\ RenewsOk /\ ExpOk
  BY DEF KeyInv
<1>5. r \in Record /\ r.acc \in Accounts
  BY <1>4 DEF TypeOK, Waiting, Record
<1>6. chain \subseteq Record /\ \A q \in chain : q.type = "Chain"
  <2>1. \A q \in chain : q = [r EXCEPT !.type = "Chain"]
    BY <1>1
  <2>2. [r EXCEPT !.type = "Chain"] \in Record /\ [r EXCEPT !.type = "Chain"].type = "Chain"
    BY <1>5 DEF Record
  <2>3. QED
    BY <2>1, <2>2
<1>7. /\ RenewsOk'
      /\ \A a \in Accounts : RenewsOf(a)' = RenewsOf(a) \ {r} /\ Left(a)' \subseteq Left(a)
  BY <1>3, <1>6, RenewsLeave
<1>8. /\ r.sub = "recycle" => m = NoAccount
      /\ r.sub = "create" => m.exp = day + Year
      /\ r.sub = "renew" => m.exp = leaf[r.acc].exp + Year
      /\ r.sub \notin Mints \cup {"recycle"} => m.exp = leaf[r.acc].exp
      /\ m.exp <= MaxExp => m \in Account
  BY <1>2, <1>3, <1>4, <1>5, AccountTyped, AppliedAccount
<1>9. ASSUME NEW a \in Accounts
      PROVE  leaf'[a].exp + Year * Cardinality(Left(a)') <= MaxExp /\ leaf'[a] \in Account
  <2>1. PICK new : new = Left(a)'
    OBVIOUS
  <2>2. PICK c, n : c = Cardinality(new) /\ n = Cardinality(Left(a))
    OBVIOUS
  <2>3. /\ c \in Nat /\ n \in Nat /\ Year * c \in Nat /\ Year * n \in Nat /\ Year * c <= Year * n
        /\ n <= MaxSigns
    <3>1. /\ c \in Nat /\ n \in Nat /\ Year * c \in Nat /\ Year * c <= Year * n /\ n <= MaxSigns
      BY <1>4, <1>7, <2>1, <2>2, LeftKnown, LeftShrinks
    <3>2. QED
      BY <3>1, BoundsKnown
  <2>4. leaf[a].exp + Year * n <= MaxExp /\ leaf[a].exp \in Nat /\ day \in 0..MaxDay
    BY <1>4, <2>2, AccountTyped DEF ExpOk
  <2>5. PICK e : e = leaf'[a].exp
    OBVIOUS
  <2>6. leaf'[a] = IF a = r.acc THEN m ELSE leaf[a]
    BY <1>3, <1>4 DEF TypeOK
  <2>7. e \in Nat /\ e + Year * c <= MaxExp
    <3>1. CASE a = r.acc /\ r.sub = "recycle"
      <4>1. e = 0
        BY <1>8, <2>5, <2>6, <3>1 DEF NoAccount
      <4>2. QED
        BY <2>3, <2>4, <4>1, BoundsKnown
    <3>2. CASE a = r.acc /\ r.sub = "create"
      <4>1. e = day + Year
        BY <1>8, <2>5, <2>6, <3>2
      <4>2. Year * n <= Year * MaxSigns /\ Year * (MaxSigns + 1) = Year * MaxSigns + Year
        BY <2>3, Years, BoundsKnown
      <4>3. PICK x, y, z : x = Year * c /\ y = Year * n /\ z = Year * MaxSigns
        OBVIOUS
      <4>4. x \in Nat /\ y \in Nat /\ z \in Nat /\ x <= y /\ y <= z /\ MaxExp = z + Year + MaxDay
        BY <2>3, <4>2, <4>3, BoundsKnown DEF MaxExp
      <4>5. e + x <= MaxExp /\ e \in Nat
        BY <2>4, <4>1, <4>4, BoundsKnown
      <4>6. QED
        BY <4>3, <4>5
    <3>3. CASE a = r.acc /\ r.sub = "renew"
      <4>1. e = leaf[a].exp + Year
        BY <1>8, <2>5, <2>6, <3>3
      <4>2. r.key \in Left(a) /\ new \subseteq Left(a) \ {r.key}
        <5>1. r \in RenewsOf(a)
          BY <3>3 DEF RenewsOf, WaitingOf
        <5>2. r.key \in mintSign /\ \A q \in RenewsOf(a) : q.key = r.key => q = r
          BY <1>4, <5>1 DEF RenewsOk
        <5>3. \A k \in new : k \in Keys \ mintSign \/ \E q \in RenewsOf(a) \ {r} : k = q.key
          BY <1>3, <1>7, <2>1 DEF Left
        <5>4. QED
          BY <5>1, <5>2, <5>3 DEF Left
      <4>3. Year * c + Year <= Year * n
        BY <1>4, <2>2, <4>2, LeftKnown, LeftLoses
      <4>4. PICK x, y : x = Year * c /\ y = Year * n
        OBVIOUS
      <4>5. x \in Nat /\ y \in Nat /\ x + Year <= y /\ leaf[a].exp + y <= MaxExp
        BY <2>3, <2>4, <4>3, <4>4
      <4>6. e + x <= MaxExp /\ e \in Nat
        BY <2>4, <4>1, <4>5, BoundsKnown
      <4>7. QED
        BY <4>4, <4>6
    <3>4. CASE a # r.acc \/ r.sub \notin Mints \cup {"recycle"}
      <4>1. e = leaf[a].exp
        BY <1>8, <2>5, <2>6, <3>4
      <4>2. PICK x, y : x = Year * c /\ y = Year * n
        OBVIOUS
      <4>3. x \in Nat /\ y \in Nat /\ x <= y /\ leaf[a].exp + y <= MaxExp
        BY <2>3, <2>4, <4>2
      <4>4. QED
        BY <2>4, <4>1, <4>2, <4>3, BoundsKnown
    <3>5. QED
      BY <3>1, <3>2, <3>3, <3>4 DEF Mints
  <2>8. e <= MaxExp
    <3>1. PICK x : x = Year * c
      OBVIOUS
    <3>2. QED
      BY <2>3, <2>7, <3>1, BoundsKnown
  <2>9. leaf'[a] \in Account
    BY <1>4, <1>8, <2>5, <2>6, <2>8, AccountTyped
  <2>10. QED
    BY <2>1, <2>2, <2>5, <2>7, <2>9
<1>10. TypeOK'
  <2>1. leaf' \in [Accounts -> Account]
    BY <1>3, <1>4, <1>9 DEF TypeOK
  <2>2. recs' \subseteq Record
    BY <1>3, <1>4, <1>6 DEF TypeOK
  <2>3. QED
    BY <1>3, <1>4, <2>1, <2>2 DEF TypeOK
<1>11. ListsOk'
  BY <1>3, <1>4 DEF ListsOk, CacheOk, FlightOk
<1>12. QED
  BY <1>7, <1>9, <1>10, <1>11 DEF KeyInv, ExpOk

LEMMA KeyInvOther ==
    ASSUME KeyInv, (\E k \in Keys : Expire(k)) \/ Sync \/ ParentChange \/ NextDay \/ UNCHANGED vars
    PROVE  KeyInv'
<1>1. TypeOK /\ ListsOk
  BY DEF KeyInv
<1>2. UNCHANGED <<leaf, recs, mintSign, flight>>
  BY DEF Expire, Sync, ParentChange, NextDay, vars
<1>3. CASE \E k \in Keys : Expire(k)
  <2>1. PICK k \in Keys : Expire(k)
    BY <1>3
  <2>2. NoEntry \in Entry /\ NoEntry.list = {}
    BY DEF NoEntry, Entry
  <2>3. cache' = [cache EXCEPT ![k] = NoEntry] /\ UNCHANGED <<info, flight, parent, day, used>>
    BY <2>1 DEF Expire
  <2>4. cache' \in [Keys -> Entry]
    BY <1>1, <2>2, <2>3 DEF TypeOK
  <2>5. TypeOK'
    BY <1>1, <1>2, <2>3, <2>4 DEF TypeOK
  <2>6. \A c \in Keys : cache'[c] = cache[c] \/ cache'[c] = NoEntry
    BY <1>1, <2>3 DEF TypeOK
  <2>7. \A c \in Keys : CacheOk(c)'
    BY <1>1, <2>2, <2>6 DEF ListsOk, CacheOk, OneEach
  <2>8. ListsOk'
    BY <1>1, <2>3, <2>7 DEF ListsOk, FlightOk
  <2>9. QED
    BY <1>2, <2>5, <2>8, RenewsStay DEF KeyInv
<1>4. CASE Sync \/ UNCHANGED vars
  <2>1. TypeOK' /\ ListsOk'
    BY <1>1, <1>2, <1>4 DEF Sync, vars, TypeOK, ListsOk, CacheOk, FlightOk
  <2>2. QED
    BY <1>2, <2>1, RenewsStay DEF KeyInv
<1>5. CASE ParentChange
  <2>1. TypeOK'
    BY <1>1, <1>2, <1>5, BoundsKnown DEF ParentChange, TypeOK
  <2>2. ListsOk'
    BY <1>1, <1>2, <1>5 DEF ParentChange, ListsOk, CacheOk, FlightOk
  <2>3. QED
    BY <1>2, <2>1, <2>2, RenewsStay DEF KeyInv
<1>6. CASE NextDay
  <2>1. day' \in Days
    BY <1>1, <1>6, BoundsKnown DEF NextDay, TypeOK, Days
  <2>2. TypeOK' /\ ListsOk'
    BY <1>1, <1>2, <1>6, <2>1 DEF NextDay, TypeOK, ListsOk, CacheOk, FlightOk
  <2>3. QED
    BY <1>2, <2>2, RenewsStay DEF KeyInv
<1>7. QED
  BY <1>3, <1>4, <1>5, <1>6

LEMMA KeyInvNext == KeyInv /\ [Next]_vars => KeyInv'
<1> SUFFICES ASSUME KeyInv, [Next]_vars
             PROVE  KeyInv'
  OBVIOUS
<1>1. CASE Prepare
  BY <1>1, KeyInvPrepare
<1>2. CASE (\E k \in Keys : SendKey(k)) \/ Direct \/ recycleSubAccount
  BY <1>2, KeyInvFly
<1>3. CASE \E f \in flight : Insert(f)
  BY <1>3, KeyInvInsert
<1>4. CASE Pipeline
  BY <1>4, KeyInvConfirm, KeyInvCloseStale DEF Pipeline
<1>5. CASE (\E k \in Keys : Expire(k)) \/ Sync \/ ParentChange \/ NextDay \/ UNCHANGED vars
  BY <1>5, KeyInvOther
<1>6. QED
  BY <1>1, <1>2, <1>3, <1>4, <1>5 DEF Next

LEMMA KeyInvAlways == Spec => []KeyInv
BY KeyInvInit, KeyInvNext, PTL DEF Spec

\* Every record, leaf and sign key has its type; in particular no account is ever
\* registered for longer than all signatures together may pay for.
THEOREM IntakeTyped == Spec => []TypeOK
<1>1. KeyInv => TypeOK
  BY DEF KeyInv
<1>2. QED
  BY <1>1, KeyInvAlways, PTL

-----------------------------------------------------------------------------
(* Mints and renewals are inserted whole *)

MintStep ==
    \A k \in Keys :
      LET new == {r \in recs' \ recs : r.key = k /\ r.sub \in {"create", "renew"}}
      IN  IF k \in mintSign' \ mintSign
          THEN \E f \in flight : f.key = k /\ new = f.list
          ELSE new = {}

LEMMA InsertIsWhole ==
    ASSUME KeyInv, NEW f \in flight, Insert(f)
    PROVE  MintStep
<1>1. PICK rows, signs : Landed(f, rows, signs) /\ Lands(f, rows, signs)
  BY InsertLands
<1>2. recs' = recs \cup rows /\ mintSign' = mintSign \cup signs
  BY <1>1 DEF Landed
<1>3. FlightOk(f) /\ rows \subseteq f.list /\ f.kind \in {"mint", "plain", "recycle"}
  BY <1>1 DEF KeyInv, TypeOK, ListsOk, Lands, Fits
<1>4. \A r \in rows : r \notin recs
  <2>1. \A r \in rows : ~ Duplicate(r) /\ r.type = "Default"
    BY <1>1, <1>3 DEF Lands, Fits, FlightOk
  <2>2. QED
    BY <2>1 DEF Duplicate, Waiting
<1>5. PICK rest : rest = recs' \ recs
  OBVIOUS
<1>6. rest = rows
  BY <1>2, <1>4, <1>5
<1>7. CASE signs = {} /\ (f.kind = "mint" => rows = {})
  <2>1. \A r \in rows : r.sub \in {"create", "renew"} => r.key = 0
    BY <1>3, <1>7 DEF FlightOk
  <2>2. \A k \in Keys : k # 0 /\ k \notin mintSign' \ mintSign
    BY <1>2, <1>7, BoundsKnown DEF Keys
  <2>3. QED
    BY <1>5, <1>6, <2>1, <2>2 DEF MintStep
<1>8. CASE f.kind = "mint" /\ signs = {f.key} /\ f.key \notin mintSign /\ rows = f.list
  <2>1. \A r \in rows : r.sub \in {"create", "renew"} /\ r.key = f.key
    BY <1>3, <1>8 DEF FlightOk, Mints
  <2>2. \A k \in Keys : k \in mintSign' \ mintSign <=> k = f.key
    BY <1>2, <1>8
  <2>3. QED
    BY <1>5, <1>6, <1>8, <2>1, <2>2 DEF MintStep
<1>9. QED
  BY <1>1, <1>7, <1>8 DEF Lands

LEMMA MintSteps == KeyInv /\ [Next]_vars => [MintStep]_vars
<1> SUFFICES ASSUME KeyInv, Next
             PROVE  MintStep
  BY DEF MintStep
<1>1. ASSUME UNCHANGED mintSign, \A r \in recs' \ recs : r.sub = "recycle"
      PROVE  MintStep
  BY <1>1 DEF MintStep
<1>2. CASE \E f \in flight : Insert(f)
  BY <1>2, InsertIsWhole
<1>3. CASE Pipeline
  <2>1. PICK r \in Waiting : Confirm(r) \/ CloseStale(r)
    BY <1>3 DEF Pipeline
  <2>2. r \in Record
    BY DEF KeyInv, TypeOK, Waiting
  <2>3. \A q \in recs' \ recs : q.sub = "recycle"
    <3>1. \A q \in recs' \ recs : r \in Recycles /\ q = [r EXCEPT !.type = "Chain"]
      BY <2>1 DEF Confirm, CloseStale
    <3>2. [r EXCEPT !.type = "Chain"].sub = r.sub
      BY <2>2 DEF Record
    <3>3. QED
      BY <3>1, <3>2 DEF Recycles
  <2>4. UNCHANGED mintSign
    BY <2>1 DEF Confirm, CloseStale
  <2>5. QED
    BY <1>1, <2>3, <2>4
<1>4. CASE Prepare
  <2>1. UNCHANGED <<recs, mintSign>>
    BY <1>4, PrepareAsks DEF KeyInv, SetSignTxCache
  <2>2. QED
    BY <1>1, <2>1
<1>5. CASE (\E k \in Keys : SendKey(k)) \/ Direct \/ recycleSubAccount
  <2>1. UNCHANGED <<recs, mintSign>>
    BY <1>5, HandlersFly DEF KeyInv, ListsOk, Fly
  <2>2. QED
    BY <1>1, <2>1
<1>6. CASE (\E k \in Keys : Expire(k)) \/ Sync \/ ParentChange \/ NextDay
  <2>1. UNCHANGED <<recs, mintSign>>
    BY <1>6 DEF Expire, Sync, ParentChange, NextDay
  <2>2. QED
    BY <1>1, <2>1
<1>7. QED
  BY <1>2, <1>3, <1>4, <1>5, <1>6 DEF Next

\* The records of a mint or a renewal are inserted once, all of them and with the row
\* of the parent manager's signature, however often and by whomever the sign key is
\* sent and whatever goes on in between.
THEOREM MintsAreWhole == Spec => MintWhole
<1>1. KeyInv /\ [Next]_vars => [MintStep]_vars
  BY MintSteps
<1>2. QED
  BY <1>1, KeyInvAlways, PTL DEF Spec, MintWhole, MintStep

-----------------------------------------------------------------------------
(* Whatever is pending: steps that leave the accounts alone keep PromptInv *)

LEMMA PendingTyped ==
    ASSUME TypeOK
    PROVE  /\ Pending \subseteq Record /\ Flying \subseteq Record
           /\ Cached \subseteq Record /\ Waiting \subseteq Record
           /\ \A r \in Record : /\ r.acc \in Accounts /\ r.nonce \in Nat
                                /\ info[r.acc].nonce \in Int /\ leaf[r.acc].nonce \in Int
<1>1. \A r \in Record : r.acc \in Accounts /\ r.nonce \in Nat
  BY BoundsKnown DEF Record
<1>2. Cached \subseteq Record
  BY DEF TypeOK, Entry, Cached
<1>3. Flying \subseteq Record
  BY DEF TypeOK, Flying
<1>4. Waiting \subseteq Record
  BY DEF TypeOK, Waiting
<1>5. QED
  BY <1>1, <1>2, <1>3, <1>4, AccountTyped DEF Pending

\* What the accounts the syncer knows say of a change that the chain may take next.
LEMMA NextIsKnown ==
    ASSUME TypeOK, AccountsOk, NEW r \in Record, Numbered(r), ~ Lost(r.acc), IsNext(r)
    PROVE  info[r.acc] = leaf[r.acc]
<1>1. KnownOk(r.acc)
  BY PendingTyped DEF AccountsOk
<1>2. QED
  BY <1>1, PendingTyped DEF KnownOk, Numbered, IsNext

Welcome(r) == /\ r \in Record /\ Numbered(r) /\ ~ Lost(r.acc)
              /\ IsNext(r) => Allowed(r, leaf[r.acc])

LEMMA PendingWelcome ==
    ASSUME TypeOK, PromptInv
    PROVE  \A r \in Pending : Welcome(r)
<1> SUFFICES ASSUME NEW r \in Pending
             PROVE  Welcome(r)
  OBVIOUS
<1>1. r \in Record /\ r.acc \in Accounts
  BY PendingTyped
<1>2. ~ Lost(r.acc)
  BY <1>1 DEF PromptInv, AccountsOk, LostOk
<1>3. QED
  BY <1>1, <1>2 DEF PromptInv, PendingNumbered, PendingAllowed, Welcome

LEMMA RequestedWelcome ==
    ASSUME TypeOK, PromptInv, NEW r, Requested(r)
    PROVE  Welcome(r) /\ ~ Dead(r.acc)
<1>1. /\ r \in Record /\ r.acc \in Accounts /\ r.nonce \in Nat /\ r.nonce = info[r.acc].nonce + 1
      /\ info[r.acc].nonce \in Int /\ leaf[r.acc].nonce \in Int
  BY PendingTyped DEF Requested
<1>2. Numbered(r)
  BY <1>1 DEF Requested, Numbered, Exists
<1>3. ~ Dead(r.acc) /\ ~ Lost(r.acc)
  <2>1. PICK a \in Accounts : a = r.acc
    BY <1>1
  <2>2. Dead(a) => Exists(a) /\ Over(info[a])
    BY DEF PromptInv, AccountsOk, DeadOk
  <2>3. Lost(a) => Exists(a) /\ Over(info[a])
    BY DEF PromptInv, AccountsOk, LostOk, Lost
  <2>4. ~ (Exists(a) /\ Over(info[a]))
    BY <2>1 DEF Requested
  <2>5. QED
    BY <2>1, <2>2, <2>3, <2>4
<1>4. IsNext(r) => Allowed(r, leaf[r.acc])
  BY <1>1, <1>2, <1>3, NextIsKnown DEF PromptInv, Requested
<1>5. QED
  BY <1>1, <1>2, <1>3, <1>4 DEF Welcome

LEMMA RecyclableWelcome ==
    ASSUME TypeOK, PromptInv, NEW r \in Record, Recyclable(r)
    PROVE  Welcome(r)
<1>1. /\ r.acc \in Accounts /\ r.nonce \in Nat /\ r.nonce = info[r.acc].nonce + 1
      /\ info[r.acc].nonce \in Int /\ leaf[r.acc].nonce \in Int
  BY PendingTyped DEF Recyclable
<1>2. Numbered(r)
  BY <1>1 DEF Recyclable, Numbered, Exists
<1>3. ~ Lost(r.acc)
  BY <1>1 DEF Recyclable, PromptInv, AccountsOk, LostOk
<1>4. IsNext(r) => Allowed(r, leaf[r.acc])
  <2>1. IsNext(r) => info[r.acc] = leaf[r.acc]
    BY <1>2, <1>3, NextIsKnown DEF PromptInv
  <2>2. IsNext(r) => Over(leaf[r.acc])
    BY <2>1 DEF Recyclable
  <2>3. QED
    BY <2>2, AllowedCases DEF Recyclable
<1>5. QED
  BY <1>1, <1>2, <1>3, <1>4 DEF Welcome

\* What is allowed and who may sign for it only grows with time.
LEMMA LaterToo ==
    ASSUME TypeOK, day' \in Nat, day <= day', NEW r \in Record, NEW l \in Account
    PROVE  (Allowed(r, l) => Allowed(r, l)') /\ (Entitled(r, l) => Entitled(r, l)')
<1>1. /\ day \in Nat /\ Grace \in Nat /\ r.sub \in SubActions /\ l.exp \in Int
      /\ l.appr.prot \in Int /\ l.appr.seal \in Int
  <2>1. day \in Nat /\ Grace \in Nat /\ r.sub \in SubActions
    BY BoundsKnown DEF TypeOK, Days, Record
  <2>2. l.exp \in 0..MaxExp /\ l.appr \in Approval
    BY AccountIs
  <2>3. l.appr.prot \in 0..MaxDay /\ l.appr.seal \in 0..MaxDay
    BY <2>2 DEF Approval, Days
  <2>4. QED
    BY <2>1, <2>2, <2>3, BoundsKnown
<1>2. Allowed(r, l) => Allowed(r, l)'
  <2>1. CASE r.sub \in EditKeys \cup Mints \cup {"create_approval", "delay_approval", "fulfill_approval"}
    BY <2>1 DEF Allowed, EditKeys, Mints
  <2>2. CASE r.sub = "revoke_approval"
    <3>1. day > l.appr.prot => day' > l.appr.prot
      BY <1>1
    <3>2. QED
      BY <2>2, <3>1 DEF Allowed, EditKeys
  <2>3. CASE r.sub = "recycle"
    <3>1. l.exp < day - Grace => l.exp < day' - Grace
      BY <1>1
    <3>2. QED
      BY <2>3, <3>1 DEF Allowed, EditKeys
  <2>4. QED
    BY <1>1, <2>1, <2>2, <2>3 DEF SubActions, EditKeys, Mints, Approvals
<1>3. Entitled(r, l) => Entitled(r, l)'
  <2>1. CASE r.sub # "fulfill_approval"
    BY <1>1, <2>1 DEF Entitled, SubActions, EditKeys, Approvals
  <2>2. CASE r.sub = "fulfill_approval"
    <3>1. day >= l.appr.seal => day' >= l.appr.seal
      BY <1>1
    <3>2. QED
      BY <2>2, <3>1 DEF Entitled
  <2>3. QED
    BY <2>1, <2>2
<1>4. QED
  BY <1>2, <1>3

\* A step that leaves the accounts and the day alone may add what is welcome.
LEMMA QuietKeeps ==
    ASSUME TypeOK, PromptInv, UNCHANGED <<leaf, info, day>>,
           \A r \in Pending' : r \in Pending \/ Welcome(r),
           \A r \in (Flying \cup Waiting)' :
             r \in Flying \cup Waiting \/ (IsNext(r) => Entitled(r, leaf[r.acc])),
           \A a \in Accounts : Dead(a) =>
             /\ \A r \in Cached' : r.acc # a
             /\ \A r \in Flying' : r.acc = a => r.sub = "recycle"
             /\ \A r \in Waiting' : r.acc = a /\ r.nonce <= leaf[a].nonce => r.sub = "recycle",
           \A a \in Accounts : Lost(a) => GetRecycleSmtRecord(a)' # {},
           OneWaits', OneRecycle'
    PROVE  PromptInv'
<1>1. \A r \in Pending' : Welcome(r)
  BY PendingWelcome
<1>2. PendingNumbered'
  <2>1. \A r \in Pending' : Numbered(r)
    BY <1>1 DEF Welcome
  <2>2. QED
    BY <2>1 DEF PendingNumbered, Numbered
<1>3. PendingAllowed'
  <2>1. \A r \in Pending' : IsNext(r) => Allowed(r, leaf[r.acc])
    BY <1>1 DEF Welcome
  <2>2. QED
    BY <2>1 DEF PendingAllowed, Allowed, IsNext
<1>4. FlyingEntitled'
  <2>1. \A r \in (Flying \cup Waiting)' : IsNext(r) => Entitled(r, leaf[r.acc])
    BY DEF PromptInv, FlyingEntitled
  <2>2. QED
    BY <2>1 DEF FlyingEntitled, Entitled, IsNext
<1>5. ASSUME NEW a \in Accounts
      PROVE  (Dead(a) => DeadOk(a))' /\ (IF Lost(a) THEN LostOk(a) ELSE KnownOk(a))'
  <2>1. /\ Dead(a) => DeadOk(a)
        /\ IF Lost(a) THEN LostOk(a) ELSE KnownOk(a)
    BY DEF PromptInv, AccountsOk
  <2>2. (Dead(a)' <=> Dead(a)) /\ (Over(info[a])' <=> Over(info[a])) /\ (Exists(a)' <=> Exists(a))
    BY DEF Dead, Over, Exists
  <2>3. (Dead(a) => DeadOk(a))'
    BY <2>1, <2>2 DEF DeadOk, WaitingOf
  <2>4. (Lost(a)' <=> Lost(a)) /\ (KnownOk(a)' <=> KnownOk(a))
    BY <2>2 DEF Lost, KnownOk
  <2>5. Lost(a) => LostOk(a)'
    BY <1>1, <2>1, <2>2 DEF LostOk, Welcome
  <2>6. QED
    BY <2>1, <2>3, <2>4, <2>5
<1>6. AccountsOk'
  BY <1>5 DEF AccountsOk
<1>7. QED
  BY <1>2, <1>3, <1>4, <1>6 DEF PromptInv

\* ... and if it adds nothing, no more has to be shown.
LEMMA LessIsKept ==
    ASSUME TypeOK, PromptInv, UNCHANGED <<leaf, info, day>>,
           Cached' \subseteq Cached, Flying' \subseteq Flying,
           \A r \in recs' : r \in recs \/ r \in Flying,
           \A a \in Accounts : Lost(a) => GetRecycleSmtRecord(a) \subseteq recs',
           OneWaits'
    PROVE  PromptInv'
<1>1. Waiting' \subseteq Waiting \cup Flying
  BY DEF Waiting
<1>2. Pending' \subseteq Pending /\ (Flying \cup Waiting)' \subseteq Flying \cup Waiting
  BY <1>1 DEF Pending
<1>3. ASSUME NEW a \in Accounts, Dead(a)
      PROVE  /\ \A r \in Cached' : r.acc # a
             /\ \A r \in Flying' : r.acc = a => r.sub = "recycle"
             /\ \A r \in Waiting' : r.acc = a /\ r.nonce <= leaf[a].nonce => r.sub = "recycle"
  <2>1. DeadOk(a)
    BY <1>3 DEF PromptInv, AccountsOk
  <2>2. QED
    BY <1>1, <2>1 DEF DeadOk, WaitingOf
<1>4. ASSUME NEW a \in Accounts, Lost(a)
      PROVE  GetRecycleSmtRecord(a)' # {}
  <2>1. GetRecycleSmtRecord(a) # {}
    BY <1>4 DEF PromptInv, AccountsOk, LostOk
  <2>2. QED
    BY <1>4, <2>1 DEF GetRecycleSmtRecord, Recycles
<1>5. OneRecycle'
  <2>1. Recycled' \subseteq Recycled
    BY DEF Recycled, Recycles
  <2>2. QED
    BY <2>1 DEF PromptInv, OneRecycle, OneEach
<1>6. QED
  BY <1>2, <1>3, <1>4, <1>5, QuietKeeps

-----------------------------------------------------------------------------
(* Every step keeps PromptInv *)

LEMMA PromptInit == Init => PromptInv
<1> SUFFICES ASSUME Init
             PROVE  PromptInv
  OBVIOUS
<1>1. Cached = {} /\ Flying = {} /\ Waiting = {} /\ recs = {}
  BY DEF Init, Cached, Flying, Waiting, NoEntry
<1>2. Pending = {} /\ Recycled = {}
  BY <1>1 DEF Pending, Recycled, Recycles
<1>3. info = leaf
  BY DEF Init
<1>4. TypeOK
  BY KeyInvInit DEF KeyInv
<1>5. ASSUME NEW a \in Accounts
      PROVE  (Dead(a) => DeadOk(a)) /\ (IF Lost(a) THEN LostOk(a) ELSE KnownOk(a))
  <2>1. Dead(a) => DeadOk(a)
    BY <1>1, <1>3 DEF Dead, DeadOk, WaitingOf, Exists
  <2>2. ~ Lost(a) /\ KnownOk(a)
    BY <1>3, <1>4, AccountTyped DEF Lost, KnownOk, Exists
  <2>3. QED
    BY <2>1, <2>2
<1>6. QED
  BY <1>1, <1>2, <1>5
     DEF PromptInv, PendingNumbered, OneWaits, OneRecycle, OneEach, AccountsOk, PendingAllowed,
         FlyingEntitled

LEMMA PromptPrepare ==
    ASSUME KeyInv, PromptInv, Prepare
    PROVE  PromptInv'
<1>1. TypeOK
  BY DEF KeyInv
<1>2. PICK kind \in {"mint", "edit", "approval"}, list \in SUBSET Record, signed \in BOOLEAN :
        Asked(kind, list) /\ SetSignTxCache(kind, list, signed)
  BY <1>1, PrepareAsks
<1>3. UNCHANGED <<leaf, info, recs, flight, day>>
  BY <1>2 DEF SetSignTxCache
<1>4. PICK n \in Keys, new \in SUBSET Record :
        /\ cache' = [cache EXCEPT ![n] = [kind |-> kind, signed |-> signed, list |-> new]]
        /\ \A r \in new : Requested(r)
  BY <1>1, <1>2, CachedUnder
<1>5. Cached' \subseteq Cached \cup new
  <2>1. \A k \in Keys : cache'[k].list \subseteq Cached \cup new
    BY <1>1, <1>4 DEF TypeOK, Cached
  <2>2. QED
    BY <2>1 DEF Cached
<1>6. Flying' = Flying /\ Waiting' = Waiting
  BY <1>3 DEF Flying, Waiting
<1>7. \A r \in new : Welcome(r) /\ ~ Dead(r.acc)
  BY <1>1, <1>4, RequestedWelcome
<1>8. \A r \in Pending' : r \in Pending \/ Welcome(r)
  BY <1>5, <1>6, <1>7 DEF Pending
<1>9. ASSUME NEW a \in Accounts, Dead(a)
      PROVE  /\ \A r \in Cached' : r.acc # a
             /\ \A r \in Flying' : r.acc = a => r.sub = "recycle"
             /\ \A r \in Waiting' : r.acc = a /\ r.nonce <= leaf[a].nonce => r.sub = "recycle"
  <2>1. DeadOk(a)
    BY <1>9 DEF PromptInv, AccountsOk
  <2>2. QED
    BY <1>5, <1>6, <1>7, <1>9, <2>1 DEF DeadOk, WaitingOf
<1>10. ASSUME NEW a \in Accounts, Lost(a)
       PROVE  GetRecycleSmtRecord(a)' # {}
  BY <1>3, <1>10 DEF PromptInv, AccountsOk, LostOk, GetRecycleSmtRecord, Recycles
<1>11. OneWaits' /\ OneRecycle'
  BY <1>3, <1>6 DEF PromptInv, OneWaits, OneRecycle, OneEach, Recycled, Recycles
<1>12. (Flying \cup Waiting)' = Flying \cup Waiting
  BY <1>6
<1>13. QED
  BY <1>1, <1>3, <1>8, <1>9, <1>10, <1>11, <1>12, QuietKeeps

\* A handler that inserts something has the account as the chain will find it.
LEMMA SentWelcome ==
    ASSUME KeyInv, PromptInv, NEW key \in Keys, NEW kind, NEW list \in SUBSET Record,
           Sent(key, kind, list), NEW r \in list
    PROVE  /\ Welcome(r) /\ ~ Dead(r.acc) /\ r.sub # "recycle"
           /\ IsNext(r) => Entitled(r, leaf[r.acc])
<1>1. TypeOK /\ CacheOk(key)
  BY DEF KeyInv, ListsOk
<1>2. PICK q \in cache[key].list : Same(r, q)
  BY DEF Sent
<1>3. q \in Cached /\ q \in Pending
  BY DEF Cached, Pending
<1>4. Welcome(q)
  BY <1>1, <1>3, PendingWelcome
<1>5. r \in Record /\ r.acc \in Accounts
  BY <1>1, PendingTyped
<1>6. Welcome(r)
  <2>1. Numbered(r) /\ ~ Lost(r.acc) /\ (IsNext(r) <=> IsNext(q))
    BY <1>2, <1>4 DEF Same, Welcome, Numbered, IsNext
  <2>2. Allowed(q, leaf[q.acc]) => Allowed(r, leaf[r.acc])
    BY <1>2 DEF Same, Allowed
  <2>3. QED
    BY <1>4, <1>5, <2>1, <2>2 DEF Welcome
<1>7. ~ Dead(r.acc)
  BY <1>2, <1>3, <1>5 DEF PromptInv, AccountsOk, DeadOk, Same
<1>8. r.sub # "recycle"
  BY <1>1, <1>2 DEF CacheOk, Same, SubsOf, Mints, EditKeys, Approvals
<1>9. IsNext(r) => Entitled(r, leaf[r.acc])
  <2>1. IsNext(r) => info[r.acc] = leaf[r.acc]
    BY <1>1, <1>6, NextIsKnown DEF PromptInv, Welcome
  <2>2. Entitled(r, info[r.acc])
    BY DEF Sent
  <2>3. QED
    BY <2>1, <2>2
<1>10. QED
  BY <1>6, <1>7, <1>8, <1>9

LEMMA FliesWelcome ==
    ASSUME KeyInv, PromptInv, Prompt, NEW key, NEW kind, NEW list \in SUBSET Record,
           Flies(kind, key, list)
    PROVE  /\ \A r \in list : /\ Welcome(r)
                              /\ IsNext(r) => Entitled(r, leaf[r.acc])
                              /\ Dead(r.acc) => r.sub = "recycle"
           /\ \A r \in list : r.sub = "recycle" =>
                GetRecycleSmtRecord(r.acc) = {} /\ \A q \in Flying : q.sub # "recycle"
           /\ OneEach(list)
<1>1. TypeOK
  BY DEF KeyInv
<1>2. OneEach(list)
  BY DEF Flies
<1>3. CASE key \in Keys /\ kind \in {"mint", "plain"} /\ Sent(key, kind, list)
  BY <1>2, <1>3, SentWelcome
<1>4. CASE \A r \in list : Requested(r) /\ r.sub = "create"
  BY <1>1, <1>2, <1>4, RequestedWelcome, EntitledCases DEF Mints
<1>5. CASE (\A r \in list : Recyclable(r)) /\ (Prompt => \A f \in flight : f.kind # "recycle")
  <2>1. \A q \in Flying : q.sub # "recycle"
    BY <1>5 DEF KeyInv, ListsOk, FlightOk, Flying
  <2>2. ASSUME NEW r \in list
        PROVE  /\ Welcome(r) /\ r.sub = "recycle" /\ GetRecycleSmtRecord(r.acc) = {}
               /\ Entitled(r, leaf[r.acc])
    BY <1>1, <1>5, RecyclableWelcome, EntitledCases DEF Recyclable
  <2>3. QED
    BY <1>2, <2>1, <2>2
<1>6. QED
  BY <1>3, <1>4, <1>5 DEF Flies

LEMMA PromptFly ==
    ASSUME KeyInv, PromptInv, Prompt,
           (\E k \in Keys : SendKey(k)) \/ Direct \/ recycleSubAccount
    PROVE  PromptInv'
<1>1. TypeOK /\ \A k \in Keys : CacheOk(k)
  BY DEF KeyInv, ListsOk
<1>2. PICK kind \in {"mint", "plain", "recycle"}, key \in 0..MaxSigns, list \in SUBSET Record :
        Fly(kind, key, list) /\ Flies(kind, key, list)
  BY <1>1, HandlersFly
<1>3. PICK f : f = [kind |-> kind, key |-> key, list |-> list]
  OBVIOUS
<1>4. /\ flight' = flight \cup {f}
      /\ UNCHANGED <<leaf, info, recs, cache, day>>
  BY <1>2, <1>3 DEF Fly
<1>5. Flying' = Flying \cup list /\ Cached' = Cached /\ Waiting' = Waiting
  BY <1>3, <1>4 DEF Flying, Cached, Waiting
<1>6. /\ \A r \in list : /\ Welcome(r)
                         /\ IsNext(r) => Entitled(r, leaf[r.acc])
                         /\ Dead(r.acc) => r.sub = "recycle"
      /\ \A r \in list : r.sub = "recycle" =>
           GetRecycleSmtRecord(r.acc) = {} /\ \A q \in Flying : q.sub # "recycle"
      /\ OneEach(list)
  BY <1>2, FliesWelcome
<1>7. \A r \in Pending' : r \in Pending \/ Welcome(r)
  BY <1>5, <1>6 DEF Pending
<1>8. \A r \in (Flying \cup Waiting)' :
        r \in Flying \cup Waiting \/ (IsNext(r) => Entitled(r, leaf[r.acc]))
  BY <1>5, <1>6
<1>9. ASSUME NEW a \in Accounts, Dead(a)
      PROVE  /\ \A r \in Cached' : r.acc # a
             /\ \A r \in Flying' : r.acc = a => r.sub = "recycle"
             /\ \A r \in Waiting' : r.acc = a /\ r.nonce <= leaf[a].nonce => r.sub = "recycle"
  <2>1. DeadOk(a)
    BY <1>9 DEF PromptInv, AccountsOk
  <2>2. QED
    BY <1>5, <1>6, <1>9, <2>1 DEF DeadOk, WaitingOf
<1>10. ASSUME NEW a \in Accounts, Lost(a)
       PROVE  GetRecycleSmtRecord(a)' # {}
  BY <1>4, <1>10 DEF PromptInv, AccountsOk, LostOk, GetRecycleSmtRecord, Recycles
<1>11. OneWaits'
  BY <1>5 DEF PromptInv, OneWaits
<1>12. OneRecycle'
  <2>1. \A r \in Recycled' : r \in Recycled \/ (r \in list /\ r.sub = "recycle")
    BY <1>4, <1>5 DEF Recycled, Recycles
  <2>2. ASSUME NEW r \in list, r.sub = "recycle", NEW q \in Recycled
        PROVE  r.acc # q.acc
    BY <1>6, <2>2 DEF Recycled, GetRecycleSmtRecord
  <2>3. QED
    BY <1>6, <2>1, <2>2 DEF PromptInv, OneRecycle, OneEach
<1>13. QED
  BY <1>1, <1>4, <1>7, <1>8, <1>9, <1>10, <1>11, <1>12, QuietKeeps

LEMMA PromptInsert ==
    ASSUME KeyInv, PromptInv, NEW f \in flight, Insert(f)
    PROVE  PromptInv'
<1>1. TypeOK /\ FlightOk(f)
  BY DEF KeyInv, ListsOk
<1>2. PICK rows, signs : Landed(f, rows, signs) /\ Lands(f, rows, signs)
  BY InsertLands
<1>3. /\ flight' = flight \ {f} /\ recs' = recs \cup rows
      /\ UNCHANGED <<leaf, info, cache, day>>
  BY <1>2 DEF Landed
<1>4. rows \subseteq f.list /\ \A r \in rows : ~ Duplicate(r)
  BY <1>2 DEF Lands, Fits
<1>5. Cached' \subseteq Cached /\ Flying' \subseteq Flying /\ \A r \in recs' : r \in recs \/ r \in Flying
  BY <1>3, <1>4 DEF Cached, Flying
<1>6. \A a \in Accounts : GetRecycleSmtRecord(a) \subseteq recs'
  BY <1>3 DEF GetRecycleSmtRecord, Recycles
<1>7. OneWaits'
  <2>1. \A r \in Waiting' : r \in Waiting \/ r \in rows
    BY <1>3 DEF Waiting
  <2>2. \A r, q \in rows : r.acc = q.acc => r = q
    BY <1>1, <1>4 DEF FlightOk, OneEach
  <2>3. \A r \in rows, q \in Waiting : ~ (r.acc = q.acc /\ r.nonce = q.nonce)
    BY <1>4 DEF Duplicate
  <2>4. QED
    BY <2>1, <2>2, <2>3 DEF PromptInv, OneWaits
<1>8. QED
  BY <1>1, <1>3, <1>5, <1>6, <1>7, LessIsKept

LEMMA PromptCloseStale ==
    ASSUME KeyInv, PromptInv, NEW r \in Waiting, CloseStale(r)
    PROVE  PromptInv'
<1>1. TypeOK
  BY DEF KeyInv
<1>2. recs' = recs \ {r} /\ UNCHANGED <<leaf, info, cache, flight, day>>
  BY DEF CloseStale
<1>3. Cached' = Cached /\ Flying' = Flying
  BY <1>2 DEF Cached, Flying
<1>4. ASSUME NEW a \in Accounts, Lost(a)
      PROVE  GetRecycleSmtRecord(a) \subseteq recs'
  <2>1. r.acc # a
    BY <1>4 DEF PromptInv, AccountsOk, LostOk, Pending
  <2>2. QED
    BY <1>2, <2>1 DEF GetRecycleSmtRecord, Recycles
<1>5. OneWaits'
  BY <1>2 DEF PromptInv, OneWaits, Waiting
<1>6. QED
  BY <1>1, <1>2, <1>3, <1>4, <1>5, LessIsKept

LEMMA PromptOther ==
    ASSUME KeyInv, PromptInv, (\E k \in Keys : Expire(k)) \/ ParentChange \/ UNCHANGED vars
    PROVE  PromptInv'
<1>1. TypeOK
  BY DEF KeyInv
<1>2. UNCHANGED <<leaf, info, recs, flight, day>>
  BY DEF Expire, ParentChange, vars
<1>3. \A k \in Keys : cache'[k] = cache[k] \/ cache'[k] = NoEntry
  BY <1>1 DEF Expire, ParentChange, vars, TypeOK
<1>4. Cached' \subseteq Cached
  BY <1>3 DEF Cached, NoEntry
<1>5. Flying' = Flying /\ Waiting' = Waiting
  BY <1>2 DEF Flying, Waiting
<1>6. OneWaits' /\ \A a \in Accounts : GetRecycleSmtRecord(a) \subseteq recs'
  BY <1>2, <1>5 DEF PromptInv, OneWaits, GetRecycleSmtRecord, Recycles
<1>7. QED
  BY <1>1, <1>2, <1>4, <1>5, <1>6, LessIsKept

LEMMA PromptSync ==
    ASSUME KeyInv, PromptInv, Sync
    PROVE  PromptInv'
<1>1. TypeOK
  BY DEF KeyInv
<1>2. info' = leaf /\ UNCHANGED <<leaf, recs, cache, flight, day>>
  BY DEF Sync
<1>3. Cached' = Cached /\ Flying' = Flying /\ Waiting' = Waiting /\ Recycled' = Recycled
  BY <1>2 DEF Cached, Flying, Waiting, Recycled, Recycles
<1>4. Pending' = Pending
  BY <1>3 DEF Pending
<1>5. PendingNumbered'
  <2>1. ASSUME NEW r \in Pending
        PROVE  r.nonce <= leaf[r.acc].nonce + 1
    <3>1. Numbered(r) /\ ~ Lost(r.acc) /\ r \in Record
      BY <1>1, PendingWelcome DEF Welcome
    <3>2. KnownOk(r.acc)
      BY <1>1, <3>1, PendingTyped DEF PromptInv, AccountsOk
    <3>3. QED
      BY <1>1, <3>1, <3>2, PendingTyped DEF KnownOk, Numbered
  <2>2. QED
    BY <1>2, <1>4, <2>1 DEF PromptInv, PendingNumbered, Numbered
<1>6. PendingAllowed' /\ FlyingEntitled'
  BY <1>2, <1>3, <1>4 DEF PromptInv, PendingAllowed, FlyingEntitled, Allowed, Entitled, IsNext
<1>7. OneWaits' /\ OneRecycle'
  BY <1>3 DEF PromptInv, OneWaits, OneRecycle, OneEach
<1>8. ASSUME NEW a \in Accounts
      PROVE  (Dead(a) => DeadOk(a))' /\ (IF Lost(a) THEN LostOk(a) ELSE KnownOk(a))'
  <2>1. leaf[a].nonce \in Int
    BY <1>1, AccountTyped
  <2>2. ~ Lost(a)' /\ KnownOk(a)'
    BY <1>2, <2>1 DEF Lost, KnownOk, Exists
  <2>3. ASSUME Dead(a)'
        PROVE  DeadOk(a)'
    <3>1. Dead(a)
      BY <1>2, <2>3 DEF Dead, Over
    <3>2. DeadOk(a)
      BY <3>1 DEF PromptInv, AccountsOk
    <3>3. (Exists(a) /\ Over(info[a]))'
      BY <1>2, <3>1 DEF Dead, Exists, Over
    <3>4. QED
      BY <1>2, <1>3, <3>2, <3>3 DEF DeadOk, WaitingOf
  <2>4. QED
    BY <2>2, <2>3
<1>9. AccountsOk'
  BY <1>8 DEF AccountsOk
<1>10. QED
  BY <1>5, <1>6, <1>7, <1>9 DEF PromptInv

LEMMA PromptNextDay ==
    ASSUME KeyInv, PromptInv, Prompt, NextDay
    PROVE  PromptInv'
<1>1. TypeOK
  BY DEF KeyInv
<1>2. /\ flight = {} /\ info = leaf /\ day' = day + 1
      /\ \A k \in Keys : cache[k] = NoEntry
      /\ \A r \in Waiting : r.nonce > leaf[r.acc].nonce
      /\ UNCHANGED <<leaf, info, recs, cache, flight>>
  BY DEF NextDay
<1>3. Cached' = {} /\ Flying' = {} /\ Waiting' = Waiting /\ Recycled' = Recycles /\ Flying = {}
  BY <1>2 DEF Cached, Flying, Waiting, Recycled, Recycles, NoEntry
<1>4. Pending' = Waiting /\ Waiting \subseteq Pending
  BY <1>3 DEF Pending
<1>5. PendingNumbered'
  BY <1>2, <1>4 DEF PromptInv, PendingNumbered, Numbered
<1>6. day \in Nat /\ day' \in Nat /\ day <= day'
  BY <1>1, <1>2, BoundsKnown DEF TypeOK, Days
<1>7. \A r \in Waiting : r \in Record /\ leaf[r.acc] \in Account
  BY <1>1, PendingTyped, AccountTyped
<1>8. PendingAllowed'
  <2>1. ASSUME NEW r \in Waiting, IsNext(r)
        PROVE  \A l : l = leaf[r.acc] => Allowed(r, l)'
    BY <1>1, <1>4, <1>6, <1>7, <2>1, LaterToo DEF PromptInv, PendingAllowed
  <2>2. QED
    BY <1>2, <1>4, <2>1 DEF PendingAllowed, Allowed, IsNext
<1>9. FlyingEntitled'
  <2>1. ASSUME NEW r \in Waiting, IsNext(r)
        PROVE  \A l : l = leaf[r.acc] => Entitled(r, l)'
    BY <1>1, <1>6, <1>7, <2>1, LaterToo DEF PromptInv, FlyingEntitled
  <2>2. QED
    BY <1>2, <1>3, <2>1 DEF FlyingEntitled, Entitled, IsNext
<1>10. OneWaits' /\ OneRecycle'
  BY <1>3 DEF PromptInv, OneWaits, OneRecycle, OneEach, Recycled
<1>11. ASSUME NEW a \in Accounts
       PROVE  (Dead(a) => DeadOk(a))' /\ (IF Lost(a) THEN LostOk(a) ELSE KnownOk(a))'
  <2>1. leaf[a].nonce \in Int
    BY <1>1, AccountTyped
  <2>2. ~ Lost(a)' /\ KnownOk(a)'
    BY <1>2, <2>1 DEF Lost, KnownOk, Exists
  <2>3. ASSUME Dead(a)'
        PROVE  DeadOk(a)'
    <3>1. (Exists(a) /\ Over(info[a]))'
      BY <1>2, <2>3 DEF Dead, Exists, Over
    <3>2. \A r \in WaitingOf(a)' : r.nonce > leaf[a].nonce
      BY <1>2, <1>3 DEF WaitingOf
    <3>3. \A r \in WaitingOf(a)' : r.nonce \in Int
      BY <1>1, <1>3, PendingTyped DEF WaitingOf
    <3>4. \A r \in WaitingOf(a)' : ~ (r.nonce <= leaf[a].nonce)
      BY <2>1, <3>2, <3>3
    <3>5. QED
      BY <1>2, <1>3, <3>1, <3>4 DEF DeadOk
  <2>4. QED
    BY <2>2, <2>3
<1>12. AccountsOk'
  BY <1>11 DEF AccountsOk
<1>13. QED
  BY <1>5, <1>8, <1>9, <1>10, <1>12 DEF PromptInv

LEMMA PromptConfirm ==
    ASSUME KeyInv, PromptInv, Prompt, NEW r \in Waiting, Confirm(r)
    PROVE  PromptInv'
<1>1. TypeOK
  BY DEF KeyInv
<1>2. PICK a0, l : a0 = r.acc /\ l = leaf[a0]
  OBVIOUS
<1>3. PICK m : m = GetCurrentSubAccountNew(r, l)
  OBVIOUS
<1>4. PICK chain : chain = {[q EXCEPT !.type = "Chain"] : q \in {r} \cap Recycles}
  OBVIOUS
<1>5. /\ leaf' = [leaf EXCEPT ![a0] = m] /\ recs' = (recs \ {r}) \cup chain
      /\ flight = {} /\ IsNext(r) /\ l.nonce < MaxNonce
      /\ UNCHANGED <<info, cache, flight, day>>
  BY <1>2, <1>3, <1>4 DEF Confirm
<1>6. /\ r \in Record /\ a0 \in Accounts /\ l \in Account /\ l.nonce \in -1..MaxNonce
      /\ l.exp \in Nat /\ r.nonce = l.nonce + 1 /\ day \in Nat
  <2>1. r \in Record /\ a0 \in Accounts
    BY <1>1, <1>2, PendingTyped
  <2>2. QED
    BY <1>1, <1>2, <1>5, <2>1, AccountTyped DEF IsNext
<1>7. Numbered(r) /\ ~ Lost(a0) /\ Allowed(r, l)
  BY <1>1, <1>2, <1>5, PendingWelcome DEF Welcome, Pending
<1>8. info[a0] = l /\ KnownOk(a0)
  BY <1>1, <1>2, <1>5, <1>6, <1>7, NextIsKnown DEF PromptInv, AccountsOk
<1>9. /\ r.sub = "recycle" => m = NoAccount
      /\ r.sub # "recycle" => m.nonce = l.nonce + 1
      /\ r.sub = "create" => m.exp = day + Year
      /\ r.sub = "renew" => m.exp = l.exp + Year
      /\ r.sub \notin Mints \cup {"recycle"} => m.exp = l.exp
  BY <1>1, <1>3, <1>5, <1>6, AccountTyped, AppliedAccount
<1>10. \A a \in Accounts : leaf'[a] = IF a = a0 THEN m ELSE leaf[a]
  BY <1>1, <1>5 DEF TypeOK
<1>11. \A q \in chain : q.type = "Chain" /\ q.sub = "recycle" /\ q.acc = a0 /\ r.sub = "recycle"
  <2>1. \A q \in chain : r \in Recycles /\ q = [r EXCEPT !.type = "Chain"]
    BY <1>4
  <2>2. \A q : q = [r EXCEPT !.type = "Chain"] => q.type = "Chain" /\ q.sub = r.sub /\ q.acc = a0
    BY <1>2, <1>6 DEF Record
  <2>3. QED
    BY <2>1, <2>2 DEF Recycles
<1>12. /\ Waiting' = Waiting \ {r} /\ Cached' = Cached /\ Flying' = {} /\ Flying = {}
       /\ Pending' \subseteq Pending
  <2>1. Waiting' = Waiting \ {r}
    BY <1>5, <1>11 DEF Waiting
  <2>2. Cached' = Cached /\ Flying' = {} /\ Flying = {}
    BY <1>5 DEF Cached, Flying
  <2>3. QED
    BY <2>1, <2>2 DEF Pending
<1>13. PendingNumbered'
  BY <1>5, <1>12 DEF PromptInv, PendingNumbered, Numbered
<1>14. OneWaits'
  BY <1>12 DEF PromptInv, OneWaits
<1>15. \A q \in Recycled : r.sub = "recycle" /\ q.acc = a0 => q = r
  BY <1>2, <1>12 DEF PromptInv, OneRecycle, OneEach, Recycled, Recycles, Waiting
<1>16. OneRecycle'
  <2>1. Recycled' \subseteq (Recycled \ {r}) \cup chain
    BY <1>5, <1>12 DEF Recycled, Recycles
  <2>2. \A p, q \in chain : p = q
    BY <1>4
  <2>3. \A p \in chain, q \in Recycled \ {r} : p.acc # q.acc
    BY <1>11, <1>15
  <2>4. QED
    BY <2>1, <2>2, <2>3 DEF PromptInv, OneRecycle, OneEach
\* Nothing of the account that is pending is next any more, but a registration.
<1>17. ASSUME NEW q \in Pending, q.acc = a0, q.nonce = m.nonce + 1
       PROVE  q.sub = "create"
  <2>1. Numbered(q) /\ q.nonce \in Nat
    BY <1>1, PendingTyped DEF PromptInv, PendingNumbered
  <2>2. q.nonce <= l.nonce + 1
    BY <1>8, <1>17, <2>1 DEF Numbered
  <2>3. r.sub = "recycle"
    BY <1>6, <1>9, <1>17, <2>1, <2>2
  <2>4. q.nonce = 0
    BY <1>9, <1>17, <2>3 DEF NoAccount
  <2>5. QED
    BY <2>1, <2>4 DEF Numbered
<1>18. PendingAllowed'
  <2>1. ASSUME NEW q \in Pending', q.nonce = leaf'[q.acc].nonce + 1
        PROVE  Allowed(q, leaf'[q.acc])
    <3>1. q \in Pending /\ q \in Record /\ q.acc \in Accounts
      BY <1>1, <1>12, PendingTyped
    <3>2. CASE q.acc = a0
      BY <1>10, <1>17, <2>1, <3>1, <3>2, AllowedCases DEF Mints
    <3>3. CASE q.acc # a0
      <4>1. leaf'[q.acc] = leaf[q.acc] /\ IsNext(q)
        BY <1>10, <2>1, <3>1, <3>3 DEF IsNext
      <4>2. Allowed(q, leaf[q.acc])
        BY <3>1, <4>1 DEF PromptInv, PendingAllowed
      <4>3. QED
        BY <4>1, <4>2
    <3>4. QED
      BY <3>2, <3>3
  <2>2. QED
    BY <1>5, <2>1 DEF PendingAllowed, IsNext, Allowed
<1>19. FlyingEntitled'
  <2>1. ASSUME NEW q \in Waiting', q.nonce = leaf'[q.acc].nonce + 1
        PROVE  Entitled(q, leaf'[q.acc])
    <3>1. q \in Waiting /\ q \in Pending /\ q \in Record /\ q.acc \in Accounts
      BY <1>1, <1>12, PendingTyped DEF Pending
    <3>2. CASE q.acc = a0
      BY <1>10, <1>17, <2>1, <3>1, <3>2, EntitledCases DEF Mints
    <3>3. CASE q.acc # a0
      <4>1. leaf'[q.acc] = leaf[q.acc] /\ IsNext(q)
        BY <1>10, <2>1, <3>1, <3>3 DEF IsNext
      <4>2. Entitled(q, leaf[q.acc])
        BY <3>1, <4>1 DEF PromptInv, FlyingEntitled
      <4>3. QED
        BY <4>1, <4>2
    <3>4. QED
      BY <3>2, <3>3
  <2>2. QED
    BY <1>5, <1>12, <2>1 DEF FlyingEntitled, IsNext, Entitled
<1>20. r.sub # "create" => Exists(a0) /\ l.nonce >= 0
  BY <1>6, <1>7, <1>8 DEF Numbered, Exists
\* A change of a dead account is its recycling, or leaves it dead.
<1>21. ASSUME r.sub # "create", Over(l)
       PROVE  DeadOk(a0)
  BY <1>2, <1>6, <1>20, <1>21 DEF PromptInv, AccountsOk, Dead
<1>22. ASSUME NEW q \in Waiting', q.acc = a0, q.nonce <= l.nonce + 1, DeadOk(a0)
       PROVE  q.sub = "recycle"
  <2>1. q \in Waiting /\ q # r /\ q.nonce \in Nat
    BY <1>1, <1>12, PendingTyped
  <2>2. q.nonce # l.nonce + 1
    BY <1>2, <1>6, <1>22, <2>1 DEF PromptInv, OneWaits
  <2>3. q.nonce <= l.nonce
    BY <1>6, <1>22, <2>1, <2>2
  <2>4. QED
    BY <1>2, <1>22, <2>1, <2>3 DEF DeadOk, WaitingOf
<1>23. ASSUME r.sub = "recycle"
       PROVE  LostOk(a0)' /\ Lost(a0)' /\ ~ Dead(a0)'
  <2>1. m = NoAccount /\ m.nonce = -1
    BY <1>9, <1>23 DEF NoAccount
  <2>2. Over(l) /\ Over(info[a0])
    BY <1>7, <1>8, <1>23, AllowedCases
  <2>3. DeadOk(a0)
    BY <1>21, <1>23, <2>2
  <2>4. \A q \in Waiting' : q.acc # a0
    <3>1. ASSUME NEW q \in Waiting', q.acc = a0
          PROVE  FALSE
      <4>1. q \in Waiting /\ q # r /\ q \in Pending
        BY <1>12 DEF Pending
      <4>2. q.nonce <= l.nonce + 1
        BY <1>8, <3>1, <4>1 DEF PromptInv, PendingNumbered, Numbered
      <4>3. q.sub = "recycle"
        BY <1>22, <2>3, <3>1, <4>2
      <4>4. q \in Recycled
        BY <4>1, <4>3 DEF Recycled, Recycles, Waiting
      <4>5. QED
        BY <1>15, <1>23, <3>1, <4>1, <4>4
    <3>2. QED
      BY <3>1
  <2>5. \A q \in Pending' : q.acc # a0
    BY <1>12, <2>3, <2>4 DEF Pending, DeadOk
  <2>6. GetRecycleSmtRecord(a0)' # {}
    <3>1. [r EXCEPT !.type = "Chain"] \in chain
      BY <1>4, <1>23 DEF Recycles, Waiting
    <3>2. QED
      BY <1>5, <1>11, <3>1 DEF GetRecycleSmtRecord, Recycles
  <2>7. Over(info[a0])'
    BY <1>5, <2>2 DEF Over
  <2>8. LostOk(a0)'
    BY <2>5, <2>6, <2>7 DEF LostOk
  <2>9. leaf'[a0].nonce = -1 /\ Exists(a0)'
    BY <1>5, <1>6, <1>10, <1>20, <1>23, <2>1 DEF Exists
  <2>10. QED
    BY <2>8, <2>9 DEF Lost, Dead
<1>24. ASSUME r.sub # "recycle"
       PROVE  KnownOk(a0)' /\ ~ Lost(a0)' /\ (Dead(a0)' => DeadOk(a0)')
  <2>1. leaf'[a0] = m /\ m.nonce = l.nonce + 1 /\ m.nonce >= 0 /\ info[a0].nonce = l.nonce
    BY <1>6, <1>8, <1>9, <1>10, <1>24
  <2>2. KnownOk(a0)' /\ ~ Lost(a0)'
    BY <1>5, <1>6, <2>1 DEF KnownOk, Lost
  <2>3. ASSUME Over(m)
        PROVE  r.sub # "create" /\ Over(l)
    <3>1. CASE r.sub = "create"
      BY <1>6, <1>9, <2>3, <3>1, BoundsKnown DEF Over
    <3>2. CASE r.sub # "create"
      <4>1. m.exp = l.exp \/ m.exp = l.exp + Year
        BY <1>9, <1>24, <3>2 DEF Mints
      <4>2. QED
        BY <1>6, <2>3, <3>2, <4>1, BoundsKnown DEF Over
    <3>3. QED
      BY <3>1, <3>2
  <2>4. ASSUME Dead(a0)'
        PROVE  DeadOk(a0)'
    <3>1. Over(m)
      BY <1>5, <2>1, <2>4 DEF Dead, Over
    <3>2. DeadOk(a0) /\ Over(l)
      BY <1>21, <2>3, <3>1
    <3>3. (Exists(a0) /\ Over(info[a0]))'
      BY <1>5, <3>2 DEF DeadOk, Exists, Over
    <3>4. \A q \in WaitingOf(a0)' : q.nonce <= leaf'[a0].nonce => q.sub = "recycle"
      BY <1>22, <2>1, <3>2 DEF WaitingOf
    <3>5. QED
      BY <1>12, <3>2, <3>3, <3>4 DEF DeadOk
  <2>5. QED
    BY <2>2, <2>4
<1>25. ASSUME NEW a \in Accounts, a # a0
       PROVE  (Dead(a) => DeadOk(a))' /\ (IF Lost(a) THEN LostOk(a) ELSE KnownOk(a))'
  <2>1. /\ Dead(a) => DeadOk(a)
        /\ IF Lost(a) THEN LostOk(a) ELSE KnownOk(a)
    BY DEF PromptInv, AccountsOk
  <2>2. leaf'[a] = leaf[a]
    BY <1>10, <1>25
  <2>3. /\ Dead(a)' <=> Dead(a)
        /\ Lost(a)' <=> Lost(a)
        /\ Over(info[a])' <=> Over(info[a])
        /\ Exists(a)' <=> Exists(a)
        /\ KnownOk(a)' <=> KnownOk(a)
    BY <1>5, <2>2 DEF Dead, Lost, KnownOk, Over, Exists
  <2>4. DeadOk(a) => DeadOk(a)'
    BY <1>12, <2>2, <2>3 DEF DeadOk, WaitingOf
  <2>5. LostOk(a) => LostOk(a)'
    <3>1. GetRecycleSmtRecord(a) \subseteq GetRecycleSmtRecord(a)'
      BY <1>2, <1>5, <1>25 DEF GetRecycleSmtRecord, Recycles
    <3>2. QED
      BY <1>12, <2>3, <3>1 DEF LostOk
  <2>6. QED
    BY <2>1, <2>3, <2>4, <2>5
<1>26. AccountsOk'
  BY <1>23, <1>24, <1>25 DEF AccountsOk
<1>27. QED
  BY <1>13, <1>14, <1>16, <1>18, <1>19, <1>26 DEF PromptInv

LEMMA PromptNext == Prompt /\ KeyInv /\ PromptInv /\ [Next]_vars => PromptInv'
<1> SUFFICES ASSUME Prompt, KeyInv, PromptInv, [Next]_vars
             PROVE  PromptInv'
  OBVIOUS
<1>1. CASE Prepare
  BY <1>1, PromptPrepare
<1>2. CASE (\E k \in Keys : SendKey(k)) \/ Direct \/ recycleSubAccount
  BY <1>2, PromptFly
<1>3. CASE \E f \in flight : Insert(f)
  BY <1>3, PromptInsert
<1>4. CASE Pipeline
  BY <1>4, PromptConfirm, PromptCloseStale DEF Pipeline
<1>5. CASE (\E k \in Keys : Expire(k)) \/ ParentChange \/ UNCHANGED vars
  BY <1>5, PromptOther
<1>6. CASE Sync
  BY <1>6, PromptSync
<1>7. CASE NextDay
  BY <1>7, PromptNextDay
<1>8. QED
  BY <1>1, <1>2, <1>3, <1>4, <1>5, <1>6, <1>7 DEF Next

LEMMA InvariantOfIntake == Prompt /\ Spec => [](KeyInv /\ PromptInv)
<1> SUFFICES ASSUME Prompt
             PROVE  Spec => [](KeyInv /\ PromptInv)
  OBVIOUS
<1>1. Init => KeyInv /\ PromptInv
  BY KeyInvInit, PromptInit
<1>2. KeyInv /\ PromptInv /\ [Next]_vars => (KeyInv /\ PromptInv)'
  BY KeyInvNext, PromptNext
<1>3. QED
  BY <1>1, <1>2, PTL DEF Spec

-----------------------------------------------------------------------------
(* What waits for the chain *)

\* No waiting record is ever left behind a change nobody asked for: its nonce is the
\* account's next one, or one the chain has passed already.
THEOREM NobodyWaitsForever == Prompt /\ Spec => []NoGap
<1>1. KeyInv /\ PromptInv => NoGap
  <2> SUFFICES ASSUME KeyInv, PromptInv, NEW r \in Waiting
               PROVE  r.nonce <= leaf[r.acc].nonce + 1
    BY DEF NoGap
  <2>1. TypeOK /\ r \in Pending
    BY DEF KeyInv, Pending
  <2>2. Numbered(r) /\ ~ Lost(r.acc) /\ r \in Record
    BY <2>1, PendingWelcome DEF Welcome
  <2>3. KnownOk(r.acc)
    BY <2>1, <2>2, PendingTyped DEF PromptInv, AccountsOk
  <2>4. QED
    BY <2>1, <2>2, <2>3, PendingTyped DEF KnownOk, Numbered
<1>2. QED
  BY <1>1, InvariantOfIntake, PTL

\* Whatever was confirmed and synced between the two calls of a handler, the change
\* an account takes next is one its state on chain allows.
THEOREM NextIsAllowed == Prompt /\ Spec => []WaitingAllowed
<1>1. KeyInv /\ PromptInv => WaitingAllowed
  BY DEF PromptInv, PendingAllowed, Pending, WaitingAllowed
<1>2. QED
  BY <1>1, InvariantOfIntake, PTL

\* ... and it carries the signature of whoever holds the account on chain, over the
\* nonce the record has.
THEOREM NextIsEntitled == Prompt /\ Spec => []WaitingEntitled
<1>1. KeyInv /\ PromptInv => WaitingEntitled
  BY DEF PromptInv, PendingNumbered, Numbered, FlyingEntitled, Pending, WaitingEntitled
<1>2. QED
  BY <1>1, InvariantOfIntake, PTL
=============================================================================
