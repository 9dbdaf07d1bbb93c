----------------------------- MODULE ParentCell -----------------------------
(***************************************************************************)
(* The transactions that spend the sub-account cell of one parent account, *)
(* from the request to the block parser: enabling sub-accounts, price and  *)
(* preserved rules, the auto-mint switch, custom scripts, the owner's      *)
(* profit and the withdrawals of a service provider (http_server/handle:   *)
(* sub_account_init*.go, price_rule_update.go, preserved_rule_update.go,   *)
(* config_auto_mint_update.go, custom_script.go, profit_withdraw.go,       *)
(* service_provider_wi*.go, transaction_send_new.go; block_parser:         *)
(* das_action_enable_sub_account.go, action_collect_*.go).  The update     *)
(* transactions of module SmtTask appear as what they leave in the cell.   *)
(*                                                                         *)
(* The cell is known by the transaction that made it.  What an owner signs *)
(* is built in one call and sent in another; what the server signs is sent *)
(* in the call that builds it.  Both leave a row of t_task_info after the  *)
(* node has taken the transaction.  Calls that withdraw the income of the  *)
(* service provider hold no lock, and others come between their steps.     *)
(* Rules travel in the witnesses of a transaction and their hash in the    *)
(* cell: a rule list is known by the transaction that set it, 0 being no   *)
(* list at all.                                                            *)
(***************************************************************************)
EXTENDS BlockParser, FiniteSets, SequencesExt

CONSTANTS
    Price, Preserved,  \* the two rule types
    Saved,             \* TRUE: the row of a sent transaction is written before
                       \* the transaction leaves the pool, or is lost by then
    \* bounds of the model
    MaxTx,             \* transactions of the parent
    MaxSigning,        \* requests waiting for a signature
    MaxCalls           \* withdrawals being made at a time

Types == {Price, Preserved}
Ids == 1..MaxTx
Other(type) == CHOOSE t \in Types : t # type
Lists == [Types -> 0..MaxTx]
NoLists == [t \in Types |-> 0]

ASSUME CellAssumption ==
    /\ Price # Preserved
    /\ Saved \in BOOLEAN
    /\ MaxTx \in Nat \ {0} /\ {MaxSigning, MaxCalls} \subseteq Nat

Signed == {"enable", "price", "preserved", "switch", "script"}
Withdrawals == {"withdraw", "withdraw2"}
Kinds == Signed \cup Withdrawals \cup {"profit", "update"}
Configs == {"price", "preserved", "switch"}    \* action config_sub_account

\* A transaction: the one whose cell it spends, whether its rules name accounts
\* in a white list, the rules it carries, the hashes its cell holds, and the
\* incomes a withdrawal pays.
Tx == [kind : Kinds, from : 0..MaxTx, named : BOOLEAN,
       rules : Lists, hash : Lists, pays : SUBSET Ids]
Statuses == {"pending", "committed", "rejected"}
Row == [tx : Ids, status : Statuses, bn : 0..MaxBlocks]
Deleted == [tx |-> 0, status |-> "deleted", bn |-> 0]

\* A call that withdraws: what it does next, the incomes it has read, and, which is
\* history, the withdrawals its check could find when it began, but for those
\* whose statement came or went between its two reads.
Call == [pc : {"idle", "check", "list", "send"}, kind : Withdrawals,
         pays : SUBSET Ids, known : SUBSET Ids]
Idle == [pc |-> "idle", kind |-> "withdraw", pays |-> {}, known |-> {}]

VARIABLES
    txs,        \* every transaction built
    signing,    \* those in the sign cache, waiting for their signature
    pool,       \* those in the node's pool
    unsaved,    \* those sent whose row is still to be inserted
    lost,       \* withdrawals whose row never was
    calls,      \* withdrawals being made
    tasks,      \* t_task_info: rows with ref_outpoint '' at the places of their ids,
                \* which count up and are not used again
    whitelist,  \* t_rule_whitelist: [tx, type, on], on when committed
    history,    \* t_sub_account_auto_mint_withdraw_history: transactions in order
    synced,     \* blocks the syncer of the other tables has read
    evicted,    \* transactions the node gave up
    twice       \* a configuration was handled more than once

withdrawalVars == <<lost, calls, history>>
cellVars == <<txs, signing, pool, unsaved, tasks, whitelist, withdrawalVars, synced,
              evicted, twice>>
vars == <<parserVars, cellVars>>

-----------------------------------------------------------------------------
(* What the node and the syncer know. *)
Mined(chain) == {chain[n].tx : n \in 1..Len(chain)} \ {0}
NumberOf(t) == CHOOSE n \in 1..Tip : main[n].tx = t

\* getSubAccountCell: the transaction that made the live cell, 0 when there is none.
LiveCell == LET n == CHOOSE k \in 0..Tip : /\ k > 0 => main[k].tx # 0
                                           /\ \A j \in (k + 1)..Tip : main[j].tx = 0
            IN  IF n = 0 THEN 0 ELSE main[n].tx

\* The statements of the syncer: incomes of the provider and its expenditures.
Statement(t) == t \in Mined(main) /\ NumberOf(t) <= synced
Expenditures == {t \in Mined(main) : txs[t].kind \in Withdrawals /\ Statement(t)}
LatestExpenditure == IF Expenditures = {} THEN 0
                     ELSE NumberOf(CHOOSE t \in Expenditures :
                                      \A u \in Expenditures : NumberOf(u) <= NumberOf(t))
Incomes(since) == {t \in Mined(main) : /\ txs[t].kind = "update" /\ Statement(t)
                                       /\ NumberOf(t) > since}

\* t_rule_config: the last configuration synced.
RuleConfig == LET known == {t \in Mined(main) : txs[t].kind \in Configs /\ Statement(t)}
              IN  IF known = {} THEN 0
                  ELSE CHOOSE t \in known : \A u \in known : NumberOf(u) <= NumberOf(t)
RulesOf(t) == IF t = 0 THEN NoLists ELSE txs[t].rules
HashOf(t) == IF t = 0 THEN NoLists ELSE txs[t].hash

\* A parent served since before the parser started has a transaction more.
Served == main[Start].tx # 0
NewId == Len(txs) + 1
NewTx(kind, named, rules, hash, pays) ==
    /\ Served \/ NewId < MaxTx
    /\ NewId <= MaxTx
    /\ txs' = Append(txs, [kind |-> kind, from |-> LiveCell, named |-> named,
                           rules |-> rules, hash |-> hash, pays |-> pays])

\* SendTransaction: the node takes a transaction whose cell is live and not
\* spent in its pool.
Accepted(from) == from = LiveCell /\ \A u \in pool : txs[u].from # from

-----------------------------------------------------------------------------
(* Requests the owner signs: buildTx leaves the transaction in the sign cache. *)
buildTx(kind, named, rules, hash) ==
    /\ Cardinality(signing) < MaxSigning
    /\ NewTx(kind, named, rules, hash, {})
    /\ signing' = signing \cup {NewId}
    /\ UNCHANGED <<parserVars, pool, unsaved, tasks, withdrawalVars, synced, evicted, twice>>

\* doSubAccountInit, doSubAccountInitFree: the account has no cell yet.
doSubAccountInit ==
    /\ LiveCell = 0
    /\ buildTx("enable", FALSE, NoLists, NoLists)
    /\ UNCHANGED whitelist

RowsOf(kinds, statuses) ==
    {i \in 1..Len(tasks) : tasks[i].status \in statuses /\ txs[tasks[i].tx].kind \in kinds}
\* The row with the highest id, if there is one.
Latest(rows) == {i \in rows : \A j \in rows : j <= i}

\* check: sub-accounts are enabled and the last configuration is not pending
\* (GetLatestTask of action config_sub_account).
check_mut == LiveCell # 0
check ==
    /\ LiveCell # 0
    /\ \A i \in Latest(RowsOf(Configs, Statuses)) : tasks[i].status # "pending"

\* rulesTxAssemble: the rules requested replace those of their type, the others
\* are carried over from the transaction of the live cell; the cell holds the
\* hashes of the rules the transaction carries.
rulesTxAssemble_mut(type) == [RulesOf(RuleConfig) EXCEPT ![type] = NewId]
rulesTxAssemble(type) == [RulesOf(LiveCell) EXCEPT ![type] = NewId]

\* doPriceRuleUpdate, doPreservedRuleUpdate: the accounts the rules name go
\* into the white list as pending, before the owner has signed.
doRuleUpdate(kind, type) ==
    \E named \in BOOLEAN :
        /\ check
        /\ buildTx(kind, named, rulesTxAssemble(type), rulesTxAssemble(type))
        /\ whitelist' = whitelist \cup IF named
                            THEN {[tx |-> NewId, type |-> type, on |-> FALSE]} ELSE {}
doPriceRuleUpdate == doRuleUpdate("price", Price)
doPreservedRuleUpdate == doRuleUpdate("preserved", Preserved)

\* doConfigAutoMintUpdate carries both lists over.
doConfigAutoMintUpdate ==
    /\ check
    /\ buildTx("switch", FALSE, RulesOf(LiveCell), RulesOf(LiveCell))
    /\ UNCHANGED whitelist

\* The cell keeps its hashes, the transaction carries no rules.
buildCustomScriptTx == buildTx("script", FALSE, NoLists, HashOf(LiveCell))
doCustomScript ==
    /\ LiveCell # 0
    /\ buildCustomScriptTx
    /\ UNCHANGED whitelist

\* doActionNormal: the signed transaction is sent; its row comes after.
doActionNormal(t) ==
    /\ t \in signing
    /\ Accepted(txs[t].from)
    /\ pool' = pool \cup {t}
    /\ unsaved' = unsaved \cup {t}
    /\ signing' = signing \ {t}
    /\ UNCHANGED <<parserVars, txs, tasks, whitelist, withdrawalVars, synced, evicted, twice>>

-----------------------------------------------------------------------------
(* Requests the server signs: built on the live cell and sent. *)
send(kind, rules, pays) ==
    /\ Accepted(LiveCell)
    /\ NewTx(kind, FALSE, rules, HashOf(LiveCell), pays)
    /\ pool' = pool \cup {NewId}
    /\ UNCHANGED <<parserVars, signing, whitelist, synced, evicted, twice>>

\* doProfitWithdraw: there is a profit; no rules are carried.
doProfitWithdraw ==
    /\ \E t \in Mined(main) : txs[t].kind = "update"
    /\ send("profit", NoLists, {})
    /\ unsaved' = unsaved \cup {NewId}
    /\ UNCHANGED <<tasks, withdrawalVars>>

\* What the check of an endpoint can find: the older one looks at its own history,
\* the other one at the rows of both.
OnRecord(kind) == IF kind = "withdraw" THEN ToSet(history)
                  ELSE {tasks[i].tx : i \in RowsOf(Withdrawals, Statuses)}

\* A step of call c.
Goes(c, call) ==
    /\ calls' = [calls EXCEPT ![c] = call]
    /\ UNCHANGED <<parserVars, txs, signing, pool, unsaved, tasks, whitelist, lost, history,
                   synced, evicted, twice>>
Begins(c, call) ==
    /\ calls[c].pc = "idle" /\ \A d \in 1..(c - 1) : calls[d].pc # "idle"
    /\ Goes(c, call)

\* buildServiceProviderWithdraw reads the statements first, those since the latest
\* expenditure of the provider, which may be one of another parent, and then looks
\* at its last withdrawal, which must have its statement.
FindSubAccountAutoMintStatements(c) ==
    \E since \in LatestExpenditure..synced :
        /\ Incomes(since) # {}
        /\ Begins(c, [pc |-> "check", kind |-> "withdraw", pays |-> Incomes(since),
                      known |-> OnRecord("withdraw")])
CheckHistory(c) ==
    /\ calls[c].pc = "check"
    /\ history # <<>> => Statement(Last(history))
    /\ Goes(c, [calls[c] EXCEPT !.pc = "send"])

\* buildServiceProviderWithdraw2Tx looks first: no withdrawal is pending, and the
\* last one committed has its statement.
NoPendingWithdrawal_mut == RowsOf(Withdrawals, {"pending"}) = {}
NoPendingWithdrawal ==
    /\ RowsOf(Withdrawals, {"pending"}) = {}
    /\ \A i \in Latest(RowsOf(Withdrawals, {"committed"})) : Statement(tasks[i].tx)
CheckPending(c) ==
    /\ NoPendingWithdrawal
    /\ Begins(c, [pc |-> "list", kind |-> "withdraw2", pays |-> {},
                  known |-> OnRecord("withdraw2")])
FindSubAccountAutoMintStatements2(c) ==
    /\ calls[c].pc = "list"
    /\ Incomes(LatestExpenditure) # {}
    /\ Goes(c, [calls[c] EXCEPT !.pc = "send", !.pays = Incomes(LatestExpenditure)])

\* After a GetTransaction for each income both read the live cell and send; should
\* the cell be spent in between, the node refuses the transaction and nothing is
\* left of the call.  The older endpoint carries the rules over.
SendWithdrawal(c) ==
    LET call == calls[c]
    IN  /\ call.pc = "send"
        /\ send(call.kind, IF call.kind = "withdraw" THEN RulesOf(LiveCell) ELSE NoLists,
                call.pays)
        /\ calls' = [calls EXCEPT ![c] = Idle]
        /\ unsaved' = unsaved \cup {NewId}
        /\ UNCHANGED <<tasks, lost, history>>

\* A check that does not hold, an amount that is too small, a transaction the node
\* refuses, or an error.
CallFails(c) == calls[c].pc # "idle" /\ Goes(c, Idle)

\* CreateTask, after the node took the transaction; the older endpoint commits row
\* and history with the database transaction in which it sends.
CreateTask(t) ==
    /\ t \in unsaved
    /\ unsaved' = unsaved \ {t}
    /\ tasks' = Append(tasks, [tx |-> t, status |-> "pending", bn |-> 0])
    /\ history' = IF txs[t].kind = "withdraw" THEN Append(history, t) ELSE history
    /\ UNCHANGED <<parserVars, txs, signing, pool, whitelist, lost, calls, synced, evicted, twice>>

\* The row of a withdrawal is not written: an error that is only logged, or a
\* database transaction that is rolled back, since the send for another parent of
\* the same call failed after this one.
LoseRow(t) ==
    /\ t \in unsaved
    /\ txs[t].kind \in Withdrawals
    /\ Trouble
    /\ unsaved' = unsaved \ {t}
    /\ lost' = lost \cup {t}
    /\ UNCHANGED <<main, salt, parser, stored, txs, signing, pool, tasks, whitelist, calls,
                   history, synced, evicted, twice>>

-----------------------------------------------------------------------------
(* The world outside: updates of the SMT, the pool, the syncer. *)

\* An update_sub_account transaction with an income for the provider.  It
\* carries the rules of t_rule_config, and the chain refuses rules that are not
\* those of the cell.
Update ==
    /\ LiveCell # 0
    /\ RulesOf(RuleConfig) = HashOf(LiveCell)
    /\ Accepted(LiveCell)
    /\ NewTx("update", FALSE, HashOf(LiveCell), HashOf(LiveCell), {})
    /\ Mine(NewId)
    /\ signing' = {}
    /\ UNCHANGED <<pool, unsaved, tasks, whitelist, withdrawalVars, synced, evicted, twice>>

\* The node gives up a transaction of its pool: its status becomes rejected.
Evict(t) ==
    /\ t \in pool
    /\ Saved => t \notin unsaved
    /\ Trouble
    /\ pool' = pool \ {t}
    /\ evicted' = evicted \cup {t}
    /\ UNCHANGED <<main, salt, parser, stored, txs, signing, unsaved, tasks, whitelist,
                   withdrawalVars, synced, twice>>

\* doCheckTx: rows of this server, written with its svr_name, are marked rejected.
doCheckTx ==
    LET given == {i \in RowsOf(Signed \cup {"withdraw"}, {"pending"}) : tasks[i].tx \in evicted}
    IN  /\ given # {}
        /\ tasks' = [i \in 1..Len(tasks) |->
                        IF i \in given THEN [tasks[i] EXCEPT !.status = "rejected"] ELSE tasks[i]]
        /\ UNCHANGED <<parserVars, txs, signing, pool, unsaved, whitelist, withdrawalVars, synced, evicted, twice>>

\* What waits for a signature on a cell that is spent can never be sent.
MineTx(t) ==
    /\ t \in pool
    /\ Saved => t \notin unsaved
    /\ Mine(t)
    /\ pool' = pool \ {t}
    /\ signing' = {u \in signing : txs[u].from = t}
    /\ UNCHANGED <<txs, unsaved, tasks, whitelist, withdrawalVars, synced, evicted, twice>>

MineOther == main[Tip].tx # 0 /\ Mine(0) /\ UNCHANGED cellVars

\* A statement comes or goes between the two reads of a call.
StatementsMove ==
    calls' = [c \in DOMAIN calls |->
                 IF calls[c].pc \in {"check", "list"}
                 THEN [calls[c] EXCEPT !.known = {t \in @ : Statement(t) <=> Statement(t)'}]
                 ELSE calls[c]]

\* The syncer follows the same forks.
ForkAll ==
    /\ Fork
    /\ synced' = IF \E n \in 1..synced : main'[n].salt # main[n].salt
                 THEN (CHOOSE n \in 1..synced : /\ main'[n].salt # main[n].salt
                                                /\ \A k \in 1..(n - 1) : main'[k].salt = main[k].salt) - 1
                 ELSE synced
    /\ StatementsMove
    /\ UNCHANGED <<txs, signing, pool, unsaved, lost, tasks, whitelist, history, evicted, twice>>

Sync ==
    /\ LiveCell # 0 /\ synced < NumberOf(LiveCell)
    /\ synced' = NumberOf(LiveCell)
    /\ UNCHANGED parserVars
    /\ StatementsMove
    /\ UNCHANGED <<txs, signing, pool, unsaved, lost, tasks, whitelist, history, evicted, twice>>

-----------------------------------------------------------------------------
(* The handlers of the block parser. *)
TxOf == main[parser.current].tx
Committed(t) == [tx |-> t, status |-> "committed", bn |-> parser.current]

\* CreateTaskByDasActionEnableSubAccount, CreateTaskByProfitWithdraw and the
\* first half of DasActionConfigSubAccountOrCustomScript: the row of the handler
\* gives way to one of the chain.
ReplaceTask ==
    tasks' = Append([i \in 1..Len(tasks) |-> IF tasks[i].tx = TxOf THEN Deleted ELSE tasks[i]],
                    Committed(TxOf))

DasActionEnableSubAccount == ReplaceTask /\ UNCHANGED whitelist
DasActionCollectSubAccountProfit == ReplaceTask /\ UNCHANGED whitelist

\* The white list of the transaction, if it has one, comes into force: the other
\* rows of the same rule type go.
CommitWhitelist ==
    LET own == {w \in whitelist : w.tx = TxOf}
    IN  whitelist' = IF own = {} THEN whitelist
                     ELSE {[w EXCEPT !.on = TRUE] : w \in own}
                          \cup {w \in whitelist \ own : \A o \in own : w.type # o.type}
DasActionConfigSubAccountOrCustomScript == ReplaceTask /\ CommitWhitelist

\* ActionCollectSubAccountChannelProfit only marks the row, if there is one.
ActionCollectSubAccountChannelProfit ==
    /\ tasks' = [i \in 1..Len(tasks) |-> IF tasks[i].tx = TxOf THEN Committed(TxOf) ELSE tasks[i]]
    /\ UNCHANGED whitelist

\* mapTransactionHandle.
Handler ==
    /\ IF TxOf = 0 THEN UNCHANGED <<tasks, whitelist>>
       ELSE CASE txs[TxOf].kind = "enable" -> DasActionEnableSubAccount
              [] txs[TxOf].kind \in Configs \cup {"script"} -> DasActionConfigSubAccountOrCustomScript
              [] txs[TxOf].kind = "profit" -> DasActionCollectSubAccountProfit
              [] txs[TxOf].kind \in Withdrawals -> ActionCollectSubAccountChannelProfit
              [] txs[TxOf].kind = "update" -> UNCHANGED <<tasks, whitelist>>
    /\ twice' = (twice \/ \E i \in 1..Len(tasks) :
                    tasks[i].tx = TxOf /\ tasks[i].status = "committed")
    /\ UNCHANGED <<txs, signing, pool, unsaved, withdrawalVars, synced, evicted>>

HandleBlock ==
    /\ ParserTurn
    /\ IF Handling THEN Handler ELSE UNCHANGED cellVars

HandleAgain == BrokenOff /\ Handler
ParserFault == Broken /\ UNCHANGED cellVars

-----------------------------------------------------------------------------
\* The parent has no sub-accounts yet, or it has had them for long.
Enable == [kind |-> "enable", from |-> 0, named |-> FALSE,
           rules |-> NoLists, hash |-> NoLists, pays |-> {}]
Init ==
    /\ \/ ParserInit(0) /\ txs = <<>> /\ synced = 0
       \/ ParserInit(1) /\ txs = <<Enable>> /\ synced = Start
    /\ signing = {} /\ pool = {} /\ unsaved = {} /\ lost = {}
    /\ calls = [c \in 1..MaxCalls |-> Idle]
    /\ tasks = <<>> /\ whitelist = {} /\ history = <<>>
    /\ evicted = {} /\ twice = FALSE

buildServiceProviderWithdraw(c) ==
    FindSubAccountAutoMintStatements(c) \/ CheckHistory(c)
buildServiceProviderWithdraw2Tx(c) ==
    CheckPending(c) \/ FindSubAccountAutoMintStatements2(c)
Withdraw(c) ==
    \/ buildServiceProviderWithdraw(c) \/ buildServiceProviderWithdraw2Tx(c)
    \/ SendWithdrawal(c) \/ CallFails(c)

Next ==
    \/ doSubAccountInit \/ doPriceRuleUpdate \/ doPreservedRuleUpdate
    \/ doConfigAutoMintUpdate \/ doCustomScript
    \/ doProfitWithdraw \/ \E c \in 1..MaxCalls : Withdraw(c)
    \/ \E t \in Ids : \/ doActionNormal(t) \/ CreateTask(t) \/ LoseRow(t)
                      \/ Evict(t) \/ MineTx(t)
    \/ Update \/ doCheckTx \/ MineOther \/ ForkAll \/ Sync
    \/ HandleBlock \/ HandleAgain \/ ParserFault

\* The goroutine of Run never stops by itself.
Fairness == WF_vars(HandleBlock)
Spec == Init /\ [][Next]_vars /\ Fairness

-----------------------------------------------------------------------------
TypeOK ==
    /\ ParserTypeOK
    /\ txs \in Seq(Tx) /\ Len(txs) <= MaxTx
    /\ signing \cup pool \cup unsaved \cup lost \cup evicted \subseteq 1..Len(txs)
    /\ calls \in [1..MaxCalls -> Call]
    /\ tasks \in Seq(Row \cup {Deleted})
    /\ whitelist \subseteq [tx : Ids, type : Types, on : BOOLEAN]
    /\ history \in Seq(Ids)
    /\ synced \in 0..Tip
    /\ twice \in BOOLEAN

\* [re-handled and orphaned blocks] As far as the parser stands on the main
\* chain, every transaction in it has exactly one row, committed, at the number
\* of its block, whatever forks, failed handlers and restarts came between; but for
\* the withdrawals whose row was lost, which the parser does not insert.
RowsFollowChain ==
    OnMain => \A n \in First..parser.current - 1 :
        LET t == main[n].tx
        IN  t # 0 /\ txs[t].kind # "update" /\ t \notin lost =>
               LET rows == {i \in 1..Len(tasks) : tasks[i].tx = t}
               IN  \E i \in rows : rows = {i} /\ tasks[i].status = "committed" /\ tasks[i].bn = n

\* [white list written before the signature] The rule lists of the last
\* configuration the parser has seen (what doRuleList shows and what a mint is
\* checked against) have the accounts they name in the white list, unless a
\* block was handled twice.
WhitelistServed ==
    ~twice => \A i \in Latest(RowsOf(Configs, {"committed"})), type \in Types :
        LET set == txs[tasks[i].tx].rules[type]
        IN  set # 0 /\ txs[set].named => [tx |-> set, type |-> type, on |-> TRUE] \in whitelist

\* [stale rules] No configuration brings back a rule list that another one had
\* replaced: its cell holds the list it sets itself, the one of the cell it
\* spends, or none.
NoRuleRevived ==
    \A t \in Mined(main) \cup pool : txs[t].from # 0 =>
        \A type \in Types : txs[t].hash[type] \in {0, t, txs[txs[t].from].hash[type]}

\* [two withdrawals] A call that is about to send a withdrawal pays no income that a
\* withdrawal in the pool or on chain pays, if its check could find that one when the
\* call began, which is after its row was written
\* (service_provider_withdraw2.go:87, service_provider_witdraw.go:107).  Calls that
\* overlap may pay the same income, and so may a call of the older endpoint when the
\* syncer reads the statement of the other one after the call has read the incomes
\* and before it looks at its history.
PaidOnce ==
    \A c \in 1..MaxCalls : calls[c].pc = "send" =>
        \A t \in calls[c].known \cap (Mined(main) \cup pool) :
            txs[t].pays \cap calls[c].pays = {}
=============================================================================
