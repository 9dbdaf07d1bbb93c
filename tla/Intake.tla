------------------------------- MODULE Intake -------------------------------
(***************************************************************************)
(* How changes of sub-accounts get into t_smt_record_info                  *)
(* (http_server/handle: create, renew, edit, approval, internal mint and   *)
(* recycle handlers, transaction_send_new.go; task/recycle.go).            *)
(*                                                                         *)
(* A change is made in two calls.  The first one checks it against the     *)
(* accounts the syncer knows and leaves it in Redis under a sign key; the  *)
(* second brings the signature and inserts the smt records.  Between the   *)
(* two, ten minutes may pass: other changes are sent, confirmed and        *)
(* synced, and an approval may change hands.  The records then wait for    *)
(* the task pipeline (module SmtTask), of which only the outcome is kept:  *)
(* a waiting record is applied on chain, or found stale and closed.        *)
(*                                                                         *)
(* Addresses are model values, prices and character sets are left out, and *)
(* time is counted in days long enough for the margins to be told apart.   *)
(***************************************************************************)
EXTENDS Integers, FiniteSets

CONSTANTS
    Accounts,    \* sub-accounts of one parent
    Fresh,       \* those not registered yet
    People,      \* addresses that own or manage sub-accounts
    Managers,    \* addresses that may manage the parent
    Nobody,      \* no address
    Year,        \* days a registration or a renewal lasts
    Grace,       \* expiration grace period
    Week,        \* validity of a signature (7 days in the code)
    Month,       \* an approval needs that much left (30 days)
    Protect,     \* longest protection of an approval (10 days)
    MaxDelay,    \* config Approval.MaxDelayCount
    Prompt,      \* TRUE: nothing is confirmed between a handler's last check and
                 \* its insert, the recycle ticker and the recycle handler do
                 \* not run at the same time, and when a new day begins no sign key is alive,
                 \* no record is stale and the syncer is not behind
    \* bounds of the model
    MaxDay, MaxSigns, MaxParent, MaxNonce

ASSUME IntakeAssumption ==
    /\ IsFiniteSet(Accounts)
    /\ Fresh \subseteq Accounts
    /\ Nobody \notin People \cup Managers
    /\ Prompt \in BOOLEAN
    /\ \A p \in People : People \ {p} # {}     \* to whom an approval can be given
    /\ {Year, Grace, Week, Month, Protect, MaxSigns, MaxParent} \subseteq Nat
    /\ {MaxDay, MaxNonce} \subseteq Nat \ {0}
    /\ MaxDelay \in 0..255

Days == 0..MaxDay
Keys == 1..MaxSigns
Byte == 0..255                        \* DelayCountRemain is a uint8

\* t_approval_info and the approval in a sub-account's leaf.
Approval == [prot : Days, seal : Days, delay : Byte, to : People \cup {Nobody}]
NoApproval == [prot |-> 0, seal |-> 0, delay |-> 0, to |-> Nobody]

\* A leaf of the parent's tree, and its row of t_account_info.  An account that
\* does not exist has nonce -1, so that creating it is the change with nonce 0.
Account == [nonce : -1..MaxNonce, owner : People \cup {Nobody},
            manager : People \cup {Nobody}, exp : 0..Year * (MaxSigns + 1) + MaxDay,
            status : {"normal", "approval"}, appr : Approval]
NoAccount == [nonce |-> -1, owner |-> Nobody, manager |-> Nobody, exp |-> 0,
              status |-> "normal", appr |-> NoApproval]

EditKeys == {"owner", "manager", "records"}
Approvals == {"create_approval", "delay_approval", "revoke_approval", "fulfill_approval"}
SubActions == {"create", "renew", "recycle"} \cup EditKeys \cup Approvals

\* A row of t_smt_record_info.  "to" is the address it sets, "appr" the approval,
\* "key" the sign key it was signed under (0: none), "by" whose signature it holds
\* and "over" the nonce in the message that was signed.
Record == [acc : Accounts, nonce : 0..MaxNonce + 1, sub : SubActions,
           to : People \cup {Nobody}, appr : Approval, key : 0..MaxSigns,
           over : 0..MaxNonce + 1, by : People \cup Managers \cup {Nobody, "platform"},
           type : {"Default", "Chain"}]

VARIABLES
    leaf,      \* account -> what the chain says of it
    info,      \* account -> what the syncer has written to t_account_info
    recs,      \* t_smt_record_info: waiting records, and chain records of recycling;
               \* nobody here reads any other
    mintSign,  \* t_mint_sign_info: the sign keys inserted
    cache,     \* Redis: sign key -> the change prepared under it
    flight,    \* inserts a handler is about to do, having done its checks
    parent,    \* the parent account: manager, and whether a custom script is set
    day,
    used       \* how much of each bound of the model is used

vars == <<leaf, info, recs, mintSign, cache, flight, parent, day, used>>

\* What is cached: the records to insert, and whether the message has a key type.
Entry == [kind : {"mint", "edit", "approval"}, list : SUBSET Record, signed : BOOLEAN]
NoEntry == [kind |-> "edit", list |-> {}, signed |-> FALSE]

-----------------------------------------------------------------------------
(* Queries *)

Waiting == {r \in recs : r.type = "Default"}
WaitingOf(a) == {r \in Waiting : r.acc = a}

Exists(a) == info[a].nonce >= 0
IsExpired(a) == info[a].exp <= day
Registering(as) == \E r \in Waiting : r.acc \in as          \* GetSelfSmtRecordListByAccountIds
TaskNotCompleted(a) == \E r \in WaitingOf(a) : r.nonce > info[a].nonce
PendingApproval(a) == info[a].status = "approval"
Recycles == {r \in recs : r.sub = "recycle"}
GetRecycleSmtRecord(a) == {r \in Recycles : r.acc = a}

NewRecord(a, nonce, sub) ==
    [acc |-> a, nonce |-> nonce, sub |-> sub, to |-> Nobody, appr |-> NoApproval,
     key |-> 0, over |-> nonce, by |-> Nobody, type |-> "Default"]

-----------------------------------------------------------------------------
(* What a record does to a leaf, and when the pipeline applies or closes it *)

\* Action create_approval also sets the approval it carries, and so does delay.
ApprovalChange(r, l) ==
    CASE r.sub = "create_approval" -> [l EXCEPT !.status = "approval", !.appr = r.appr]
      [] r.sub = "delay_approval"  -> [l EXCEPT !.appr = r.appr]
      [] r.sub = "revoke_approval" -> [l EXCEPT !.status = "normal", !.appr = NoApproval]
      [] r.sub = "fulfill_approval" ->
           [l EXCEPT !.status = "normal", !.appr = NoApproval,
                     !.owner = l.appr.to, !.manager = l.appr.to]

GetCurrentSubAccountNew(r, l) ==
    LET next == [l EXCEPT !.nonce = @ + 1]
    IN  CASE r.sub = "create"  -> [next EXCEPT !.owner = r.to, !.manager = r.to,
                                               !.exp = day + Year]
          [] r.sub = "renew"   -> [next EXCEPT !.exp = @ + Year]
          [] r.sub = "owner"   -> [next EXCEPT !.owner = r.to, !.manager = r.to]
          [] r.sub = "manager" -> [next EXCEPT !.manager = r.to]
          [] r.sub = "records" -> next
          [] r.sub = "recycle" -> NoAccount
          [] r.sub \in Approvals -> ApprovalChange(r, next)

\* The change the chain takes next for this account.
IsNext(r) == r.nonce = leaf[r.acc].nonce + 1

\* doCheckNonceNew
Stale(r) == /\ Exists(r.acc)
            /\ r.sub = "create" \/ info[r.acc].nonce >= r.nonce

-----------------------------------------------------------------------------
\* An account as it is after its registration, or after its first approval.
Registered(p) == [NoAccount EXCEPT !.nonce = 0, !.owner = p, !.manager = p, !.exp = Year]
UnderApproval(p) ==
    [Registered(p) EXCEPT !.nonce = 1, !.status = "approval",
       !.appr = [prot |-> 0, seal |-> 1, delay |-> MaxDelay,
                 to |-> CHOOSE q \in People : q # p]]

Init ==
    /\ \E p \in People : \E l \in {NoAccount, Registered(p), UnderApproval(p)} :
         leaf = [a \in Accounts |-> IF a \in Fresh THEN NoAccount ELSE l]
    /\ info = leaf
    /\ recs = {}
    /\ mintSign = {}
    /\ cache = [k \in Keys |-> NoEntry]
    /\ flight = {}
    /\ parent \in [manager : Managers, script : BOOLEAN]
    /\ day = 0
    /\ used = [signs |-> 0, parent |-> 0]

-----------------------------------------------------------------------------
(* First call: check the change and cache it *)

\* SetSignTxCache under a new key: CacheKey holds the time in nanoseconds.
SetSignTxCache(kind, list, signed) ==
    /\ used.signs < MaxSigns
    /\ used' = [used EXCEPT !.signs = @ + 1]
    /\ cache' = [cache EXCEPT ![used.signs + 1] =
                   [kind |-> kind, signed |-> signed,
                    list |-> {[r EXCEPT !.key = used.signs + 1] : r \in list}]]
    /\ UNCHANGED <<leaf, info, recs, mintSign, flight, parent, day>>

\* A list is refused if any of its accounts is registered or being registered.
doSubAccountCheckList(as) ==
    /\ as # {}
    /\ \A a \in as : ~ Exists(a)
    /\ ~ Registering(as)

\* The records of one mint signature.
doMinSignInfo(as, p) == {[NewRecord(a, 0, "create") EXCEPT !.to = p] : a \in as}

doSubAccountCreateNew(as, p) ==
    /\ doSubAccountCheckList(as)
    /\ ~ parent.script
    /\ SetSignTxCache("mint", doMinSignInfo(as, p), TRUE)

\* A renewal is not refused while another change waits, nor under an approval.
doSubAccountRenewCheckList(as) ==
    /\ as # {}
    /\ \A a \in as : Exists(a) /\ day - info[a].exp <= Grace

doRenewSignInfo_mut(as) == \* counts on from the records that wait
    {NewRecord(a, 1 + (IF WaitingOf(a) = {} THEN info[a].nonce
                       ELSE (CHOOSE r \in WaitingOf(a) :
                               \A q \in WaitingOf(a) : q.nonce <= r.nonce).nonce), "renew")
       : a \in as}
doRenewSignInfo(as) == {NewRecord(a, info[a].nonce + 1, "renew") : a \in as}

doSubAccountRenew(as) ==
    /\ doSubAccountRenewCheckList(as)
    /\ ~ parent.script
    /\ SetSignTxCache("mint", doRenewSignInfo(as), TRUE)

\* EditCheck runs in both calls, with the address that made the first one.
EditCheck_mut(a, edit, to, address) == \* the account's status is not looked at
    /\ Exists(a)
    /\ ~ IsExpired(a)
    /\ address = IF edit = "records" THEN info[a].manager ELSE info[a].owner
    /\ edit = "owner" => to # info[a].owner
    /\ edit = "manager" => to # info[a].manager
    /\ ~ TaskNotCompleted(a)
EditCheck(a, edit, to, address) ==
    /\ Exists(a)
    /\ info[a].status = "normal"
    /\ ~ IsExpired(a)
    /\ address = IF edit = "records" THEN info[a].manager ELSE info[a].owner
    /\ edit = "owner" => to # info[a].owner
    /\ edit = "manager" => to # info[a].manager
    /\ ~ TaskNotCompleted(a)

\* The message to sign holds the account, the new value and the nonce.
doSubAccountEditNew(a, edit, to, address) ==
    /\ EditCheck(a, edit, to, address)
    /\ SetSignTxCache("edit", {[NewRecord(a, info[a].nonce + 1, edit) EXCEPT
                                  !.to = to, !.by = address]}, TRUE)

\* All four approval handlers refuse an account that expires within a week.
PrepareApproval(a, r, signed) ==
    /\ day + Week <= info[a].exp
    /\ SetSignTxCache("approval", {r}, signed)

ApprovalRecord(a, sub, appr) ==
    [NewRecord(a, info[a].nonce + 1, sub) EXCEPT !.appr = appr]

doApprovalEnableCheck(a, prot, seal, to) ==
    /\ Exists(a)
    /\ info[a].status = "normal"
    /\ ~ IsExpired(a)
    /\ info[a].exp - day >= Month
    /\ day <= prot /\ prot - day <= Protect
    /\ seal > prot
    /\ to # info[a].owner

doApprovalEnableSubAccount(a, prot, seal, to) ==
    /\ doApprovalEnableCheck(a, prot, seal, to)
    /\ PrepareApproval(a, ApprovalRecord(a, "create_approval",
                            [prot |-> prot, seal |-> seal, delay |-> MaxDelay, to |-> to]), TRUE)

doApprovalDelayCheck(a, seal) ==
    /\ Exists(a)
    /\ PendingApproval(a)
    /\ seal > info[a].appr.seal

doApprovalDelaySubAccount_mut(a, seal) == \* the counter of a wider type
    /\ doApprovalDelayCheck(a, seal)
    /\ PrepareApproval(a, ApprovalRecord(a, "delay_approval",
                            [info[a].appr EXCEPT !.delay = @ - 1, !.seal = seal]), TRUE)

\* DelayCountRemain is not compared with 0 before it is decremented.
doApprovalDelaySubAccount(a, seal) ==
    /\ doApprovalDelayCheck(a, seal)
    /\ PrepareApproval(a, ApprovalRecord(a, "delay_approval",
                            [info[a].appr EXCEPT !.delay = (@ - 1) % 256, !.seal = seal]), TRUE)

doApprovalRevokeCheck(a) ==
    /\ Exists(a)
    /\ PendingApproval(a)
    /\ day > info[a].appr.prot

doApprovalRevokeSubAccount(a) ==
    /\ doApprovalRevokeCheck(a)
    /\ PrepareApproval(a, ApprovalRecord(a, "revoke_approval", NoApproval), TRUE)

\* Before SealedUntil only the owner may ask; from then on anybody, and the
\* message has no key type: nobody can sign it.
doApprovalFulfillCheck(a, address) ==
    /\ Exists(a)
    /\ PendingApproval(a)
    /\ day < info[a].appr.seal => address = info[a].owner

doApprovalFulfillSubAccount(a, address) ==
    /\ doApprovalFulfillCheck(a, address)
    /\ PrepareApproval(a, ApprovalRecord(a, "fulfill_approval", NoApproval),
                       day < info[a].appr.seal)

-----------------------------------------------------------------------------
(* Second call: the signature; the handler checks again, then inserts *)

Fly(kind, key, list) ==
    /\ flight' = flight \cup {[kind |-> kind, key |-> key, list |-> list]}
    /\ UNCHANGED <<leaf, info, recs, mintSign, cache, parent, day>>

Send(k, kind) == cache[k].list # {} /\ cache[k].kind = kind

\* For a mint and for a renewal: the parent is read again for the key its manager
\* signs with, the accounts are not.
doSubActionCreate(k) ==
    /\ Send(k, "mint")
    /\ Fly("mint", k, {[r EXCEPT !.by = parent.manager] : r \in cache[k].list})
    /\ UNCHANGED used

\* "SignMsg diff": the message made from the account as it is now must be the one
\* that was signed.
SignMsgDiff_mut(r) == FALSE
SignMsgDiff(r) == r.nonce # info[r.acc].nonce + 1

doSubActionEdit(k) ==
    /\ Send(k, "edit")
    /\ \E r \in cache[k].list :
         /\ EditCheck(r.acc, r.sub, r.to, r.by)
         /\ ~ SignMsgDiff(r)
         /\ Fly("plain", k, {[r EXCEPT !.nonce = info[r.acc].nonce + 1]})
    /\ UNCHANGED used

\* Whose signature an approval's record needs, as far as the handler knows.
ApprovalSigner_mut(r) == \* a fulfilment never asks for a signature
    IF r.sub = "revoke_approval" THEN "platform"
    ELSE IF r.sub = "fulfill_approval" THEN Nobody
    ELSE info[r.acc].owner
ApprovalSigner(r) ==
    IF r.sub = "revoke_approval" THEN "platform"
    ELSE IF r.sub = "fulfill_approval" /\ day >= info[r.acc].appr.seal THEN Nobody
    ELSE info[r.acc].owner

doSubActionApproval(k) ==
    /\ Send(k, "approval")
    /\ \E r \in cache[k].list :
         /\ r.sub # "create_approval" => PendingApproval(r.acc)
         /\ ApprovalSigner(r) # Nobody => cache[k].signed
         /\ Fly("plain", k, {[r EXCEPT !.by = ApprovalSigner(r)]})
    /\ UNCHANGED used

\* Mints through a custom script need no signature: they are inserted at once.
doSubAccountCheckCustomScriptNew == parent.script
getRecordListNew(as, p) == {[NewRecord(a, 0, "create") EXCEPT !.to = p] : a \in as}

doInternalSubAccountMintNew(as, p) ==
    /\ used.signs < MaxSigns
    /\ used' = [used EXCEPT !.signs = @ + 1]
    /\ doSubAccountCheckList(as)
    /\ doSubAccountCheckCustomScriptNew
    /\ Fly("plain", 0, getRecordListNew(as, p))

\* The recycle ticker and the recycle handler.
NeedToRecycle ==
    {a \in Accounts : /\ Exists(a)
                      /\ info[a].exp < day - Grace
                      /\ GetRecycleSmtRecord(a) = {}}

Recycle(as) ==
    /\ as # {}
    /\ Prompt => \A f \in flight : f.kind # "recycle"
    /\ Fly("recycle", 0, {NewRecord(a, info[a].nonce + 1, "recycle") : a \in as})
    /\ UNCHANGED used
recycleSubAccount == Recycle(NeedToRecycle)
doRecycleAccount(as) == Recycle(as \cap NeedToRecycle)

\* The unique key on account, nonce, type and block refuses a second waiting
\* record for the same change.
Duplicate(r) == \E q \in Waiting : q.acc = r.acc /\ q.nonce = r.nonce
Fits(list) == {r \in list : ~ Duplicate(r)}

Landed(f, rows, signs) ==
    /\ flight' = flight \ {f}
    /\ recs' = recs \cup rows
    /\ mintSign' = mintSign \cup signs
    /\ UNCHANGED <<leaf, info, cache, parent, day, used>>

\* CreateMinSignInfo: the mint signature and all records, or nothing.
CreateMinSignInfo_mut(f) == \* no transaction: what was inserted stays
    IF f.key \in mintSign THEN Landed(f, {}, {})
    ELSE Landed(f, Fits(f.list), {f.key})
CreateMinSignInfo(f) ==
    IF f.key \in mintSign \/ Fits(f.list) # f.list THEN Landed(f, {}, {})
    ELSE Landed(f, f.list, {f.key})

\* CreateSmtRecordInfo and CreateSmtRecordList: one INSERT.
CreateSmtRecordList(f) == Landed(f, IF Fits(f.list) = f.list THEN f.list ELSE {}, {})

\* INSERT IGNORE
CreateRecycleSmtRecordList(f) == Landed(f, Fits(f.list), {})

Insert(f) ==
    \/ f.kind = "mint" /\ CreateMinSignInfo(f)
    \/ f.kind = "plain" /\ CreateSmtRecordList(f)
    \/ f.kind = "recycle" /\ CreateRecycleSmtRecordList(f)

-----------------------------------------------------------------------------
(* The pipeline, the syncer, the parent's owner, and time *)

\* A record's transaction is committed and the parser turns it into a chain record.
Confirm(r) ==
    /\ r \in Waiting
    /\ IsNext(r)
    /\ Prompt => flight = {}
    /\ leaf[r.acc].nonce < MaxNonce
    /\ leaf' = [leaf EXCEPT ![r.acc] = GetCurrentSubAccountNew(r, leaf[r.acc])]
    /\ recs' = (recs \ {r}) \cup {[q EXCEPT !.type = "Chain"] : q \in {r} \cap Recycles}
    /\ UNCHANGED <<info, mintSign, cache, flight, parent, day, used>>

CloseStale(r) ==
    /\ r \in Waiting
    /\ Stale(r)
    /\ recs' = recs \ {r}
    /\ UNCHANGED <<leaf, info, mintSign, cache, flight, parent, day, used>>

Sync ==
    /\ info # leaf
    /\ info' = leaf
    /\ UNCHANGED <<leaf, recs, mintSign, cache, flight, parent, day, used>>

\* The parent gets another manager, or sets or drops its custom script.
ParentChange ==
    /\ used.parent < MaxParent
    /\ used' = [used EXCEPT !.parent = @ + 1]
    /\ \E p \in [manager : Managers, script : BOOLEAN] \ {parent} : parent' = p
    /\ UNCHANGED <<leaf, info, recs, mintSign, cache, flight, day>>

\* Redis drops a key after ten minutes.
Expire(k) ==
    /\ cache[k] # NoEntry
    /\ cache' = [cache EXCEPT ![k] = NoEntry]
    /\ UNCHANGED <<leaf, info, recs, mintSign, flight, parent, day, used>>

NextDay ==
    /\ day < MaxDay
    /\ Prompt => /\ flight = {}
                 /\ \A k \in Keys : cache[k] = NoEntry
                 /\ \A r \in Waiting : r.nonce > leaf[r.acc].nonce
                 /\ info = leaf
    /\ day' = day + 1
    /\ UNCHANGED <<leaf, info, recs, mintSign, cache, flight, parent, used>>

-----------------------------------------------------------------------------
Prepare ==
    \/ \E as \in SUBSET Accounts : \/ \E p \in People : doSubAccountCreateNew(as, p)
                                   \/ doSubAccountRenew(as)
    \/ \E a \in Accounts, address \in People :
         \/ \E edit \in {"owner", "manager"}, to \in People :
              doSubAccountEditNew(a, edit, to, address)
         \/ doSubAccountEditNew(a, "records", Nobody, address)
         \/ doApprovalFulfillSubAccount(a, address)
         \/ \E prot, seal \in Days : doApprovalEnableSubAccount(a, prot, seal, address)
    \/ \E a \in Accounts : \/ \E seal \in Days : doApprovalDelaySubAccount(a, seal)
                           \/ doApprovalRevokeSubAccount(a)

SendKey(k) == doSubActionCreate(k) \/ doSubActionEdit(k) \/ doSubActionApproval(k)

Direct == \E as \in SUBSET Accounts :
            \/ \E p \in People : doInternalSubAccountMintNew(as, p)
            \/ doRecycleAccount(as)

Pipeline == \E r \in Waiting : Confirm(r) \/ CloseStale(r)

Next ==
    \/ Prepare
    \/ \E k \in Keys : SendKey(k) \/ Expire(k)
    \/ Direct
    \/ recycleSubAccount
    \/ \E f \in flight : Insert(f)
    \/ Pipeline
    \/ Sync
    \/ ParentChange
    \/ NextDay

Spec == Init /\ [][Next]_vars

-----------------------------------------------------------------------------
(* Properties *)

TypeOK ==
    /\ leaf \in [Accounts -> Account]
    /\ info \in [Accounts -> Account]
    /\ recs \subseteq Record
    /\ mintSign \subseteq Keys
    /\ cache \in [Keys -> Entry]
    /\ flight \subseteq [kind : {"mint", "plain", "recycle"}, key : 0..MaxSigns,
                          list : SUBSET Record]
    /\ parent \in [manager : Managers, script : BOOLEAN]
    /\ day \in Days
    /\ used \in [signs : 0..MaxSigns, parent : 0..MaxParent]

\* Every record that waits asks for the account's next change or for one that was
\* already made, so it will be applied or found stale; none is left for ever behind
\* a change nobody asked for (EditCheck, the nonces the handlers give out, the
\* unique key of t_smt_record_info).
NoGap == \A r \in Waiting : r.nonce <= leaf[r.acc].nonce + 1

\* Whatever was confirmed between the two calls of a handler and whatever was still
\* unknown to the syncer, the change an account takes next is one its present
\* state allows: no edit under an approval, no approval on top of another, a delay
\* that keeps the approval's terms, a revocation after the protection, a recycling
\* after the grace period.
Allowed(r, l) ==
    CASE r.sub \in EditKeys \cup {"create_approval"} -> l.status = "normal"
      [] r.sub = "delay_approval" ->
           /\ l.status = "approval"
           /\ r.appr.seal > l.appr.seal
           /\ [r.appr EXCEPT !.seal = l.appr.seal, !.delay = l.appr.delay] = l.appr
      [] r.sub = "revoke_approval" -> l.status = "approval" /\ day > l.appr.prot
      [] r.sub = "fulfill_approval" -> l.status = "approval"
      [] r.sub = "recycle" -> l.exp < day - Grace
      [] r.sub \in {"create", "renew"} -> TRUE
WaitingAllowed == \A r \in Waiting : IsNext(r) => Allowed(r, leaf[r.acc])

\* The change an account takes next carries the signature of whoever holds it now,
\* not of whoever held it when the change was prepared; an approval is fulfilled
\* without one only once its seal is open.  The message signed holds the nonce the
\* record has, or the chain would refuse the signature.
Entitled(r, l) ==
    CASE r.sub \in {"owner", "manager", "create_approval", "delay_approval"} -> r.by = l.owner
      [] r.sub = "records" -> r.by = l.manager
      [] r.sub = "revoke_approval" -> r.by = "platform"
      [] r.sub = "fulfill_approval" -> r.by = l.owner \/ (r.by = Nobody /\ day >= l.appr.seal)
      [] r.sub \in {"create", "renew", "recycle"} -> TRUE
WaitingEntitled ==
    \A r \in Waiting : IsNext(r) => r.over = r.nonce /\ Entitled(r, leaf[r.acc])

\* However often a sign key is sent, the records of a mint or a renewal are inserted
\* once, all of them, and with the row that holds the parent manager's signature
\* (CreateMinSignInfo); a change of the parent's manager between the two calls is
\* seen.
MintWhole ==
    [][\A k \in Keys :
         LET new == {r \in recs' \ recs : r.key = k /\ r.sub \in {"create", "renew"}}
         IN  IF k \in mintSign' \ mintSign
             THEN \E f \in flight : f.key = k /\ new = f.list
             ELSE new = {}]_vars
=============================================================================
