--------------------------- MODULE ParentCellProofs ---------------------------
(* Proofs about ParentCell, for every number of transactions, requests        *)
(* waiting for a signature, forks, failed handlers and restarts.              *)
EXTENDS ParentCell, BlockParserProofs

-----------------------------------------------------------------------------
(* The invariants *)

OnChain == Mined(main)
Before(x, y) == \E m, n \in 1..Tip : m < n /\ main[m].tx = x /\ main[n].tx = y
Kind(t) == txs[t].kind
Handled(t) == \E i \in 1..Len(tasks) : tasks[i].tx = t /\ tasks[i].status = "committed"
SetBy(type) == IF type = Price THEN "price" ELSE "preserved"

CellTyped ==
    /\ txs \in Seq(Tx) /\ Len(txs) <= MaxTx
    /\ \A t \in 1..Len(txs) :
           txs[t].from < t /\ \A type \in Types : {txs[t].rules[type], txs[t].hash[type]} \subseteq 0..t
    /\ \A n \in 1..Tip : main[n].tx \in 0..Len(txs)
    /\ signing \cup pool \cup unsaved \cup lost \cup evicted \subseteq 1..Len(txs)
    /\ tasks \in Seq(Row \cup {Deleted})
    /\ \A i \in 1..Len(tasks) : tasks[i].tx \in 0..Len(txs)
    /\ whitelist \subseteq [tx : Ids, type : Types, on : BOOLEAN]
    /\ history \in Seq(Ids) /\ calls \in [1..MaxCalls -> Call]
    /\ synced \in 0..Tip
    /\ twice \in BOOLEAN

\* A transaction is in one place; what waits for a signature or in the pool
\* spends the live cell, and one transaction at most is in the pool.
Unique == \A m, n \in 1..Tip : main[m].tx # 0 /\ main[m].tx = main[n].tx => m = n
Apart ==
    /\ signing \cap (pool \cup OnChain \cup evicted) = {}
    /\ pool \cap (OnChain \cup evicted) = {}
    /\ evicted \cap OnChain = {}
SpendsLive ==
    /\ \A t \in signing \cup pool : txs[t].from = LiveCell
    /\ \A t, u \in pool : t = u
Placed == Unique /\ Apart /\ SpendsLive

\* What a transaction carries and what its cell holds.
RulesKept ==
    \A t \in 1..Len(txs), type \in Types :
        /\ txs[t].rules[type] \in {0, txs[t].hash[type]}
        /\ txs[t].hash[type] \in {0, t, HashOf(txs[t].from)[type]}
        /\ Kind(t) = SetBy(type) => txs[t].rules[type] = t
        /\ txs[t].hash[type] = t => Kind(t) = SetBy(type)

\* Where rows are written before a transaction leaves the pool, each one mined
\* has exactly one.
RowsKept ==
    /\ unsaved \subseteq pool
    /\ \A i \in 1..Len(tasks) : tasks[i].tx # 0 =>
           /\ tasks[i].tx \in OnChain \cup pool \cup evicted /\ tasks[i].tx \notin unsaved
           /\ tasks[i].status = "committed" => tasks[i].tx \in OnChain
           /\ tasks[i].status = "rejected" => tasks[i].tx \in evicted
    /\ \A i, j \in 1..Len(tasks) : tasks[i].tx # 0 /\ tasks[i].tx = tasks[j].tx => i = j
    /\ \A t \in (OnChain \cup pool) \ (unsaved \cup lost) :
           Kind(t) \notin {"update", "enable"} => \E i \in 1..Len(tasks) : tasks[i].tx = t

\* The rows of the blocks handled that are still on the main chain.
Right(n) ==
    main[n].tx \notin {0} \cup lost /\ Kind(main[n].tx) # "update" =>
        \E i \in 1..Len(tasks) :
            tasks[i] = [tx |-> main[n].tx, status |-> "committed", bn |-> n]
RowsRight == \A n \in Done : Right(n)

\* What a withdrawal pays is on the chain before it, and so is what a call is to pay.
PaysKept ==
    /\ \A t \in 1..Len(txs) : Kind(t) \notin Withdrawals => txs[t].pays = {}
    /\ \A t \in OnChain \cup pool : \A i \in txs[t].pays :
           i \in OnChain /\ (t \in OnChain => Before(i, t))
    /\ \A t \in signing : Kind(t) \in Signed
    /\ \A c \in 1..MaxCalls : calls[c].pays \subseteq OnChain

\* Withdrawals, in the order of the chain.
HistoryKept ==
    /\ \A k \in 1..Len(history) :
           /\ history[k] \in 1..Len(txs) /\ Kind(history[k]) = "withdraw"
           /\ history[k] \notin unsaved
           /\ history[k] \in pool => k = Len(history)
    /\ \A j, k \in 1..Len(history) :
           j < k /\ history[j] \in OnChain /\ history[k] \in OnChain => Before(history[j], history[k])
WithdrawalRow(i) == tasks[i].tx # 0 /\ Kind(tasks[i].tx) \in Withdrawals
RowsOrdered ==
    \A i, j \in 1..Len(tasks) : i < j /\ WithdrawalRow(i) /\ WithdrawalRow(j) =>
        /\ tasks[i].tx \notin pool
        /\ tasks[i].tx \in OnChain /\ tasks[j].tx \in OnChain => Before(tasks[i].tx, tasks[j].tx)

\* What a call has read: between the two reads of the older endpoint it pays nothing of
\* the withdrawals that have their statement, and after the check of the other one all
\* the withdrawals it could find have theirs.
CallsKept == \A c \in 1..MaxCalls :
    /\ \A t \in calls[c].known : t \in 1..Len(txs) /\ Kind(t) \in Withdrawals
    /\ calls[c].pc = "check" => \A t \in calls[c].known :
           /\ \E k \in 1..Len(history) : history[k] = t
           /\ Statement(t) => txs[t].pays \cap calls[c].pays = {}
    /\ calls[c].pc = "list" => \A t \in calls[c].known \cap (OnChain \cup pool) : Statement(t)

\* Configurations, as long as each is handled once.
LostPay == \A t \in lost : Kind(t) \in Withdrawals
ConfigRow(i) == tasks[i].tx # 0 /\ Kind(tasks[i].tx) \in Configs
WhiteTyped == \A w \in whitelist :
    w.tx \in 1..Len(txs) /\ Kind(w.tx) = SetBy(w.type) /\ txs[w.tx].named
Listed == \A t \in signing \cup pool \cup OnChain, type \in Types :
    Kind(t) = SetBy(type) /\ txs[t].named /\ ~Handled(t) =>
        \E on \in BOOLEAN : [tx |-> t, type |-> type, on |-> on] \in whitelist
OneOpen == \A u \in OnChain : Kind(u) \in Configs /\ ~Handled(u) =>
    /\ \A v \in OnChain : Kind(v) \in Configs => v = u \/ (Handled(v) /\ Before(v, u))
    /\ \A t \in signing \cup pool : Kind(t) \notin Configs
OpenLast == \A u \in OnChain \cup pool : Kind(u) \in Configs /\ ~Handled(u) =>
    \A i, j \in 1..Len(tasks) : tasks[i].tx = u /\ ConfigRow(j) => j <= i
Setters == \A v \in OnChain, type \in Types : txs[v].hash[type] # 0 =>
    LET s == txs[v].hash[type]
    IN  /\ s \in OnChain /\ Kind(s) = SetBy(type) /\ (s = v \/ Before(s, v))
        /\ \A x \in OnChain : Kind(x) = SetBy(type) /\ Before(s, x) => x # v /\ ~Before(x, v)
InForce == \A s \in OnChain, type \in Types :
    /\ Kind(s) = SetBy(type) /\ txs[s].named /\ Handled(s)
    /\ \A x \in OnChain : Kind(x) = SetBy(type) /\ Handled(x) => ~Before(s, x)
    => [tx |-> s, type |-> type, on |-> TRUE] \in whitelist
ConfigsKept == WhiteTyped /\ Setters /\ (~twice => Listed /\ OneOpen /\ OpenLast /\ InForce)

-----------------------------------------------------------------------------
(* The transactions on the chain and their order *)

LEMMA OnChainIs ==
    ASSUME ParserTyped
    PROVE  /\ \A x : x \in OnChain <=> x # 0 /\ \E n \in 1..Tip : main[n].tx = x
           /\ OnChain \subseteq Nat \ {0}
BY ChainKnown DEF OnChain, Mined, Tip

\* LiveCell, of any chain.
LiveIn(chain) ==
    LET n == CHOOSE k \in 0..Len(chain) : /\ k > 0 => chain[k].tx # 0
                                          /\ \A j \in (k + 1)..Len(chain) : chain[j].tx = 0
    IN  IF n = 0 THEN 0 ELSE chain[n].tx

LEMMA LiveInIs ==
    ASSUME NEW chain, Len(chain) \in Nat
    PROVE  \E n \in 0..Len(chain) :
             /\ n > 0 => chain[n].tx # 0
             /\ \A j \in (n + 1)..Len(chain) : chain[j].tx = 0
             /\ LiveIn(chain) = IF n = 0 THEN 0 ELSE chain[n].tx
<1> DEFINE P(n) == /\ n > 0 => chain[n].tx # 0
                   /\ \A j \in (n + 1)..Len(chain) : chain[j].tx = 0
           S == {n \in 0..Len(chain) : n > 0 => chain[n].tx # 0}
<1>1. PICK top \in Nat : top = Len(chain)
  OBVIOUS
<1>2. 0 \in S /\ S \subseteq 0..top
  BY <1>1
<1>3. \E n \in S : \A k \in S : k <= n
  <2> HIDE DEF S
  <2> QED
    BY <1>1, <1>2, LargestExists
<1>4. PICK n \in S : \A k \in S : k <= n
  BY <1>3
<1>5. \A j \in (n + 1)..top : chain[j].tx = 0
  <2> SUFFICES ASSUME NEW j \in (n + 1)..top, chain[j].tx # 0 PROVE FALSE
    OBVIOUS
  <2>1. n \in Nat /\ j \in 0..top /\ j > n
    BY <1>1
  <2>2. j \in S
    BY <1>1, <2>1
  <2> QED
    BY <1>4, <2>1, <2>2
<1>6. \E k \in 0..top : P(k)
  BY <1>1, <1>5
<1>7. PICK k : k = CHOOSE m \in 0..Len(chain) : P(m)
  OBVIOUS
<1>8. k \in 0..top /\ P(k)
  BY <1>1, <1>6, <1>7
<1>9. LiveIn(chain) = IF k = 0 THEN 0 ELSE chain[k].tx
  BY <1>7 DEF LiveIn
<1> QED
  BY <1>1, <1>8, <1>9

LEMMA LiveCellIs ==
    ASSUME ParserTyped
    PROVE  \E n \in 0..Tip :
             /\ n > 0 => main[n].tx # 0
             /\ \A j \in (n + 1)..Tip : main[j].tx = 0
             /\ LiveCell = IF n = 0 THEN 0 ELSE main[n].tx
<1>1. LiveCell = LiveIn(main)
  BY DEF LiveCell, LiveIn, Tip
<1>2. Len(main) \in Nat
  BY ChainKnown DEF Tip
<1> QED
  BY <1>1, <1>2, LiveInIs DEF Tip

\* The order of the chain.
LEMMA ChainOrder ==
    ASSUME ParserTyped, Unique
    PROVE  /\ \A x \in OnChain : ~Before(x, x)
           /\ \A x, y \in OnChain : Before(x, y) => ~Before(y, x)
           /\ \A x, y : Before(x, y) /\ x # 0 => x \in OnChain
           /\ \A x, y : Before(x, y) /\ y # 0 => y \in OnChain
           /\ \A x, y, z \in OnChain : Before(x, y) /\ Before(y, z) => Before(x, z)
           /\ \A x, y \in OnChain : x = y \/ Before(x, y) \/ Before(y, x)
           /\ \A x \in OnChain : NumberOf(x) \in 1..Tip /\ main[NumberOf(x)].tx = x
           /\ \A x, y \in OnChain : Before(x, y) <=> NumberOf(x) < NumberOf(y)
<1>1. Tip \in Nat
  BY ChainKnown
<1>2. ASSUME NEW x \in OnChain PROVE NumberOf(x) \in 1..Tip /\ main[NumberOf(x)].tx = x
  <2>1. \E n \in 1..Tip : main[n].tx = x
    BY OnChainIs
  <2>2. PICK n : n = CHOOSE k \in 1..Tip : main[k].tx = x
    OBVIOUS
  <2>3. n \in 1..Tip /\ main[n].tx = x
    BY <2>1, <2>2
  <2> QED
    BY <2>2, <2>3 DEF NumberOf
<1>3. ASSUME NEW x \in OnChain, NEW n \in 1..Tip, main[n].tx = x PROVE n = NumberOf(x)
  BY <1>2, <1>3, OnChainIs DEF Unique
<1>4. ASSUME NEW x \in OnChain, NEW y \in OnChain
      PROVE  Before(x, y) <=> NumberOf(x) < NumberOf(y)
  BY <1>2, <1>3 DEF Before
<1>5. \A x, y : /\ Before(x, y) /\ x # 0 => x \in OnChain
                /\ Before(x, y) /\ y # 0 => y \in OnChain
  BY OnChainIs DEF Before
<1>6. \A x \in OnChain : NumberOf(x) \in Nat
  BY <1>1, <1>2
<1>7. \A x \in OnChain : ~Before(x, x)
  BY <1>4, <1>6
<1>8. \A x, y \in OnChain : Before(x, y) => ~Before(y, x)
  BY <1>4, <1>6
<1>9. \A x, y, z \in OnChain : Before(x, y) /\ Before(y, z) => Before(x, z)
  BY <1>4, <1>6
<1>10. ASSUME NEW x \in OnChain, NEW y \in OnChain PROVE x = y \/ Before(x, y) \/ Before(y, x)
  <2>1. NumberOf(x) = NumberOf(y) => x = y
    BY <1>2
  <2> QED
    BY <1>4, <1>6, <2>1
<1> QED
  BY <1>2, <1>4, <1>5, <1>7, <1>8, <1>9, <1>10

\* The live cell is that of the last transaction.
LEMMA LiveCellLast ==
    ASSUME ParserTyped, Unique
    PROVE  /\ LiveCell = 0 => OnChain = {}
           /\ LiveCell # 0 => /\ LiveCell \in OnChain
                              /\ \A x \in OnChain : x = LiveCell \/ Before(x, LiveCell)
<1>1. PICK n \in 0..Tip :
        /\ n > 0 => main[n].tx # 0
        /\ \A j \in (n + 1)..Tip : main[j].tx = 0
        /\ LiveCell = IF n = 0 THEN 0 ELSE main[n].tx
  BY LiveCellIs
<1>2. Tip \in Nat
  BY ChainKnown
<1>3. ASSUME NEW x \in OnChain PROVE \E m \in 1..n : main[m].tx = x /\ x # 0
  <2>1. PICK m \in 1..Tip : main[m].tx = x /\ x # 0
    BY OnChainIs
  <2> QED
    BY <1>1, <1>2, <2>1
<1>4. CASE n = 0
  BY <1>1, <1>3, <1>4
<1>5. CASE n > 0
  <2>1. LiveCell = main[n].tx /\ LiveCell # 0 /\ n \in 1..Tip
    BY <1>1, <1>5
  <2>2. LiveCell \in OnChain
    BY <2>1, OnChainIs
  <2>3. ASSUME NEW x \in OnChain PROVE x = LiveCell \/ Before(x, LiveCell)
    <3>1. PICK m \in 1..n : main[m].tx = x
      BY <1>3
    <3>2. m = n \/ (m < n /\ m \in 1..Tip)
      BY <1>2, <2>1
    <3> QED
      BY <2>1, <3>1, <3>2 DEF Before
  <2> QED
    BY <2>1, <2>2, <2>3
<1> QED
  BY <1>1, <1>2, <1>4, <1>5

LEMMA ChainWaits ==
    ASSUME UNCHANGED main
    PROVE  /\ OnChain' = OnChain /\ LiveCell' = LiveCell /\ Tip' = Tip
           /\ \A x, y : Before(x, y)' <=> Before(x, y)
           /\ Unique => Unique'
BY DEF OnChain, Mined, LiveCell, Tip, Before, Unique

\* A transaction is mined.
LEMMA ChainGrows ==
    ASSUME ParserTyped, Unique, NEW t \in Nat \ {0}, t \notin OnChain, Mine(t)
    PROVE  /\ Unique' /\ OnChain' = OnChain \cup {t} /\ LiveCell' = t
           /\ \A x, y : x # 0 /\ y # 0 =>
                (Before(x, y)' <=> Before(x, y) \/ (x \in OnChain /\ y = t))
<1>1. /\ ParserTyped' /\ Tip' = Tip + 1 /\ Tip \in Nat
      /\ \A n \in 1..Tip : main'[n] = main[n]
      /\ main'[Tip + 1].tx = t
  BY MineTyped, ChainKnown
<1>2. \A n \in 1..Tip : main[n].tx # t
  BY OnChainIs
<1>3. Unique'
  <2> SUFFICES ASSUME NEW m \in 1..(Tip + 1), NEW n \in 1..(Tip + 1),
                      main'[m].tx # 0, main'[m].tx = main'[n].tx
               PROVE  m = n
    BY <1>1 DEF Unique
  <2>1. (m \in 1..Tip \/ m = Tip + 1) /\ (n \in 1..Tip \/ n = Tip + 1)
    BY <1>1
  <2> QED
    BY <1>1, <1>2, <2>1 DEF Unique
<1>4. OnChain' = OnChain \cup {t}
  <2>1. \A x : x \in OnChain' <=> x # 0 /\ \E n \in 1..(Tip + 1) : main'[n].tx = x
    <3>1. \A x : x \in OnChain' <=> x # 0 /\ \E n \in 1..Tip' : main'[n].tx = x
      <4>1. DOMAIN main' = 1..Tip'
        BY <1>1 DEF ParserTyped, Tip
      <4> QED
        BY <4>1 DEF OnChain, Mined, Tip
    <3> QED
      BY <1>1, <3>1
  <2>2. ASSUME NEW x PROVE (\E n \in 1..(Tip + 1) : main'[n].tx = x)
                             <=> x = t \/ \E n \in 1..Tip : main[n].tx = x
    <3>1. \A n \in 1..(Tip + 1) : n \in 1..Tip \/ n = Tip + 1
      BY <1>1
    <3>2. Tip + 1 \in 1..(Tip + 1) /\ 1..Tip \subseteq 1..(Tip + 1)
      BY <1>1
    <3> QED
      BY <1>1, <3>1, <3>2
  <2>3. \A x : x \in OnChain <=> x # 0 /\ \E n \in 1..Tip : main[n].tx = x
    BY OnChainIs
  <2> QED
    BY <2>1, <2>2, <2>3
<1>5. LiveCell' = t
  <2>1. Tip + 1 \in 0..(Tip + 1) /\ main'[Tip + 1].tx # 0 /\ (Tip + 1 + 1)..(Tip + 1) = {}
    BY <1>1
  <2>2. ASSUME NEW k \in 0..(Tip + 1), k # Tip + 1, \A j \in (k + 1)..(Tip + 1) : main'[j].tx = 0
        PROVE FALSE
    <3>1. Tip + 1 \in (k + 1)..(Tip + 1)
      BY <1>1, <2>2
    <3> QED
      BY <2>1, <2>2, <3>1
  <2>3. PICK n : n = CHOOSE k \in 0..Tip' : /\ k > 0 => main'[k].tx # 0
                                            /\ \A j \in (k + 1)..Tip' : main'[j].tx = 0
    OBVIOUS
  <2>4. /\ n \in 0..Tip' /\ (n > 0 => main'[n].tx # 0)
        /\ \A j \in (n + 1)..Tip' : main'[j].tx = 0
    BY <1>1, <2>1, <2>3
  <2>5. n = Tip + 1
    BY <1>1, <2>2, <2>4
  <2>6. LiveCell' = IF n = 0 THEN 0 ELSE main'[n].tx
    BY <2>3 DEF LiveCell
  <2> QED
    BY <1>1, <2>5, <2>6
<1>6. ASSUME NEW x, NEW y, x # 0, y # 0
      PROVE Before(x, y)' <=> Before(x, y) \/ (x \in OnChain /\ y = t)
  <2>1. Before(x, y)' <=> \E m, n \in 1..(Tip + 1) : m < n /\ main'[m].tx = x /\ main'[n].tx = y
    BY <1>1 DEF Before
  <2>2. ASSUME NEW m \in 1..(Tip + 1), NEW n \in 1..(Tip + 1),
               m < n, main'[m].tx = x, main'[n].tx = y
        PROVE  Before(x, y) \/ (x \in OnChain /\ y = t)
    <3>1. m \in 1..Tip /\ (n \in 1..Tip \/ n = Tip + 1)
      BY <1>1, <2>2
    <3>2. main[m].tx = x
      BY <1>1, <2>2, <3>1
    <3>3. x \in OnChain
      BY <1>6, <3>1, <3>2, OnChainIs
    <3>4. n \in 1..Tip => Before(x, y)
      BY <1>1, <2>2, <3>1, <3>2 DEF Before
    <3>5. n = Tip + 1 => y = t
      BY <1>1, <2>2
    <3> QED
      BY <3>1, <3>3, <3>4, <3>5
  <2>3. ASSUME Before(x, y) PROVE Before(x, y)'
    <3>1. PICK m, n \in 1..Tip : m < n /\ main[m].tx = x /\ main[n].tx = y
      BY <2>3 DEF Before
    <3>2. m \in 1..(Tip + 1) /\ n \in 1..(Tip + 1)
      BY <1>1
    <3> QED
      BY <1>1, <2>1, <3>1, <3>2
  <2>4. ASSUME x \in OnChain, y = t PROVE Before(x, y)'
    <3>1. PICK m \in 1..Tip : main[m].tx = x
      BY <2>4, OnChainIs
    <3>2. m \in 1..(Tip + 1) /\ Tip + 1 \in 1..(Tip + 1) /\ m < Tip + 1
      BY <1>1
    <3> QED
      BY <1>1, <2>1, <2>4, <3>1, <3>2
  <2> QED
    BY <2>1, <2>2, <2>3, <2>4
<1> QED
  BY <1>3, <1>4, <1>5, <1>6

\* Transactions keep their order while their blocks change.
LEMMA ChainMoves ==
    ASSUME ParserTyped, Unique,
           NEW top \in Nat, Len(main') = top, DOMAIN main' = 1..top,
           NEW to,
           \A n \in 1..Tip : main[n].tx # 0 => to[n] \in 1..top /\ main'[to[n]].tx = main[n].tx,
           \A n \in 1..top : main'[n].tx # 0 =>
               \E m \in 1..Tip : main[m].tx = main'[n].tx /\ to[m] = n,
           \A m, n \in 1..Tip : main[m].tx # 0 /\ main[n].tx # 0 => (m < n <=> to[m] < to[n])
    PROVE  /\ Unique' /\ OnChain' = OnChain /\ LiveCell' = LiveCell
           /\ \A x, y : x # 0 /\ y # 0 => (Before(x, y)' <=> Before(x, y))
<1>1. Tip \in Nat
  BY ChainKnown
<1>2. Unique'
  <2> SUFFICES ASSUME NEW m \in 1..top, NEW n \in 1..top,
                      main'[m].tx # 0, main'[m].tx = main'[n].tx
               PROVE  m = n
    BY DEF Unique, Tip
  <2>1. PICK j \in 1..Tip : main[j].tx = main'[m].tx /\ to[j] = m
    OBVIOUS
  <2>2. PICK k \in 1..Tip : main[k].tx = main'[n].tx /\ to[k] = n
    OBVIOUS
  <2>3. j = k
    BY <2>1, <2>2 DEF Unique
  <2> QED
    BY <2>1, <2>2, <2>3
<1>3. OnChain' = OnChain
  <2>1. \A x : x \in OnChain' <=> x # 0 /\ \E n \in 1..top : main'[n].tx = x
    BY DEF OnChain, Mined
  <2>2. ASSUME NEW x \in OnChain' PROVE x \in OnChain
    <3>1. PICK n \in 1..top : main'[n].tx = x /\ x # 0
      BY <2>1
    <3>2. PICK m \in 1..Tip : main[m].tx = x
      BY <3>1
    <3> QED
      BY <3>1, <3>2, OnChainIs
  <2>3. ASSUME NEW x \in OnChain PROVE x \in OnChain'
    <3>1. PICK n \in 1..Tip : main[n].tx = x /\ x # 0
      BY OnChainIs
    <3>2. to[n] \in 1..top /\ main'[to[n]].tx = x
      BY <3>1
    <3> QED
      BY <2>1, <3>1, <3>2
  <2> QED
    BY <2>2, <2>3
<1>4. ASSUME NEW x, NEW y, x # 0, y # 0 PROVE Before(x, y)' <=> Before(x, y)
  <2>1. Before(x, y)' <=> \E m, n \in 1..top : m < n /\ main'[m].tx = x /\ main'[n].tx = y
    BY DEF Before, Tip
  <2>2. ASSUME NEW m \in 1..top, NEW n \in 1..top, m < n, main'[m].tx = x, main'[n].tx = y
        PROVE  Before(x, y)
    <3>1. PICK j \in 1..Tip : main[j].tx = x /\ to[j] = m
      BY <1>4, <2>2
    <3>2. PICK k \in 1..Tip : main[k].tx = y /\ to[k] = n
      BY <1>4, <2>2
    <3>3. j < k
      BY <1>4, <2>2, <3>1, <3>2
    <3> QED
      BY <3>1, <3>2, <3>3 DEF Before
  <2>3. ASSUME Before(x, y) PROVE Before(x, y)'
    <3>1. PICK m, n \in 1..Tip : m < n /\ main[m].tx = x /\ main[n].tx = y
      BY <2>3 DEF Before
    <3>2. /\ to[m] \in 1..top /\ main'[to[m]].tx = x
          /\ to[n] \in 1..top /\ main'[to[n]].tx = y
          /\ to[m] < to[n]
      BY <1>4, <3>1
    <3> QED
      BY <2>1, <3>2
  <2> QED
    BY <2>1, <2>2, <2>3
<1>5. LiveCell' = LiveCell
  <2>1. PICK n \in 0..Tip :
          /\ n > 0 => main[n].tx # 0
          /\ \A j \in (n + 1)..Tip : main[j].tx = 0
          /\ LiveCell = IF n = 0 THEN 0 ELSE main[n].tx
    BY LiveCellIs
  <2>2. PICK k \in 0..top :
          /\ k > 0 => main'[k].tx # 0
          /\ \A j \in (k + 1)..top : main'[j].tx = 0
          /\ LiveCell' = IF k = 0 THEN 0 ELSE main'[k].tx
    <3>1. LiveCell' = LiveIn(main')
      BY DEF LiveCell, LiveIn, Tip
    <3> QED
      BY <3>1, LiveInIs
  <2>3. CASE k = 0
    <3>1. n > 0 => to[n] \in (k + 1)..top /\ main'[to[n]].tx # 0
      BY <1>1, <2>1, <2>3
    <3>2. n = 0
      BY <2>2, <3>1
    <3> QED
      BY <2>1, <2>2, <2>3, <3>2
  <2>4. CASE k > 0
    <3>1. PICK m \in 1..Tip : main[m].tx = main'[k].tx /\ to[m] = k
      BY <2>2, <2>4
    <3>2. m <= n
      <4>1. m > n => m \in (n + 1)..Tip
        BY <1>1
      <4> QED
        BY <1>1, <2>1, <2>2, <2>4, <3>1, <4>1
    <3>3. n \in 1..Tip /\ main[n].tx # 0
      BY <1>1, <2>1, <3>2
    <3>4. to[n] \in 1..top /\ main'[to[n]].tx # 0
      BY <3>3
    <3>5. to[n] <= k
      <4>1. to[n] > k => to[n] \in (k + 1)..top
        BY <3>4
      <4> QED
        BY <2>2, <3>4, <4>1
    <3>6. m < n => to[m] < to[n]
      BY <2>2, <2>4, <3>1, <3>3
    <3>7. m = n
      BY <1>1, <3>1, <3>2, <3>4, <3>5, <3>6
    <3> QED
      BY <2>1, <2>2, <2>4, <3>1, <3>3, <3>7
  <2> QED
    BY <2>2, <2>3, <2>4
<1> QED
  BY <1>2, <1>3, <1>4, <1>5

LEMMA ChainGrowsEmpty ==
    ASSUME ParserTyped, Unique, Mine(0)
    PROVE  /\ Unique' /\ OnChain' = OnChain /\ LiveCell' = LiveCell
           /\ \A x, y : x # 0 /\ y # 0 => (Before(x, y)' <=> Before(x, y))
<1>1. /\ ParserTyped' /\ Tip' = Tip + 1 /\ Tip \in Nat
      /\ \A n \in 1..Tip : main'[n] = main[n]
      /\ main'[Tip + 1].tx = 0
  BY MineTyped, ChainKnown
<1>2. PICK top \in Nat : top = Tip + 1
  BY <1>1
<1>3. Len(main') = top /\ DOMAIN main' = 1..top
  BY <1>1, <1>2 DEF ParserTyped, Tip
<1>4. PICK to : to = [n \in 1..Tip |-> n]
  OBVIOUS
<1>5. \A n \in 1..Tip : to[n] = n /\ n \in 1..top
  BY <1>1, <1>2, <1>4
<1>6. ASSUME NEW n \in 1..Tip, main[n].tx # 0
      PROVE  to[n] \in 1..top /\ main'[to[n]].tx = main[n].tx
  BY <1>1, <1>5
<1>7. ASSUME NEW n \in 1..top, main'[n].tx # 0
      PROVE  \E m \in 1..Tip : main[m].tx = main'[n].tx /\ to[m] = n
  <2>1. n \in 1..Tip
    BY <1>1, <1>2, <1>7
  <2> QED
    BY <1>1, <1>5, <2>1
<1>8. ASSUME NEW m \in 1..Tip, NEW n \in 1..Tip PROVE m < n <=> to[m] < to[n]
  BY <1>5
<1> QED
  BY <1>3, <1>6, <1>7, <1>8, ChainMoves

\* A fork leaves out blocks, none of the transactions.
LEMMA ForkChain ==
    ASSUME ParserTyped, Unique, Fork
    PROVE  /\ Unique' /\ OnChain' = OnChain /\ LiveCell' = LiveCell
           /\ \A x, y : x # 0 /\ y # 0 => (Before(x, y)' <=> Before(x, y))
<1>1. ParserTyped'
  BY ForkTyped
<1>2. PICK d \in 1..MaxDepth, by \in {-1, 0, 1} :
        /\ d < Tip /\ (by = -1 => main[Tip - d + 1].tx = 0)
        /\ main' = Moved(d, by) /\ Tip' = Tip + 1
  BY ForkTyped
<1>3. Tip \in Nat /\ d \in Nat /\ by \in Int /\ by >= -1 /\ by <= 1 /\ d < Tip /\ d >= 1
  BY <1>2, ChainKnown, ParserBounds
<1>4. PICK fork \in Nat : fork = Tip - d
  BY <1>3
<1>5. \A n \in 1..(Tip + 1) :
        /\ n <= fork => n \in 1..Tip /\ main'[n] = main[n]
        /\ n > fork => main'[n].tx = IF n - by \in (fork + 1)..Tip THEN main[n - by].tx ELSE 0
  BY <1>2, <1>4, MovedKnown
<1>6. PICK top \in Nat : top = Tip + 1
  BY <1>3
<1>7. Len(main') = top /\ DOMAIN main' = 1..top
  BY <1>1, <1>2, <1>6 DEF ParserTyped, Tip
<1>8. PICK to : to = [n \in 1..Tip |-> IF n <= fork THEN n ELSE n + by]
  OBVIOUS
<1>9. \A n \in 1..Tip : to[n] = IF n <= fork THEN n ELSE n + by
  BY <1>8
<1>10. \A n \in 1..Tip : main[n].tx # 0 /\ n > fork /\ by = -1 => n > fork + 1
  <2>1. by = -1 => main[fork + 1].tx = 0
    BY <1>2, <1>4
  <2> QED
    BY <1>3, <2>1
<1>11. ASSUME NEW n \in 1..Tip, main[n].tx # 0
       PROVE  to[n] \in 1..top /\ main'[to[n]].tx = main[n].tx
  <2>1. CASE n <= fork
    <3>1. n \in 1..top
      BY <1>3, <1>6
    <3> QED
      BY <1>5, <1>6, <1>9, <2>1, <3>1
  <2>2. CASE n > fork
    <3>1. PICK k \in Int : k = n + by
      BY <1>3
    <3>2. k \in 1..(Tip + 1) /\ k > fork /\ k - by = n /\ n \in (fork + 1)..Tip
      BY <1>3, <1>4, <1>10, <1>11, <2>2, <3>1
    <3>3. main'[k].tx = main[n].tx
      BY <1>5, <3>2
    <3>4. to[n] = k
      BY <1>4, <1>9, <2>2, <3>1
    <3> QED
      BY <1>6, <3>2, <3>3, <3>4
  <2> QED
    BY <1>4, <2>1, <2>2
<1>12. ASSUME NEW n \in 1..top, main'[n].tx # 0
       PROVE  \E m \in 1..Tip : main[m].tx = main'[n].tx /\ to[m] = n
  <2>1. CASE n <= fork
    <3>1. n \in 1..Tip /\ main'[n] = main[n]
      BY <1>5, <1>6, <2>1
    <3> QED
      BY <1>9, <2>1, <3>1
  <2>2. CASE n > fork
    <3>1. PICK k \in Int : k = n - by
      BY <1>3
    <3>2. k \in (fork + 1)..Tip /\ main'[n].tx = main[k].tx
      BY <1>5, <1>6, <1>12, <2>2, <3>1
    <3>3. k \in 1..Tip /\ k > fork /\ k + by = n
      BY <1>3, <1>4, <3>1, <3>2
    <3> QED
      BY <1>4, <1>9, <3>2, <3>3
  <2> QED
    BY <1>4, <2>1, <2>2
<1>13. ASSUME NEW m \in 1..Tip, NEW n \in 1..Tip, main[m].tx # 0, main[n].tx # 0
       PROVE  m < n <=> to[m] < to[n]
  <2>1. /\ to[m] = IF m <= fork THEN m ELSE m + by
        /\ to[n] = IF n <= fork THEN n ELSE n + by
        /\ m > fork /\ by = -1 => m > fork + 1
        /\ n > fork /\ by = -1 => n > fork + 1
    BY <1>9, <1>10, <1>13
  <2> QED
    BY <1>3, <1>4, <2>1
<1> QED
  BY <1>7, <1>11, <1>12, <1>13, ChainMoves

-----------------------------------------------------------------------------
(* Types *)

LEMMA CellKnown ==
    ASSUME ParserTyped, CellTyped
    PROVE  /\ MaxTx \in Nat \ {0} /\ Len(txs) \in Nat /\ Len(txs) <= MaxTx
           /\ DOMAIN txs = 1..Len(txs) /\ 1..Len(txs) \subseteq Ids
           /\ \A t \in 1..Len(txs) : txs[t] \in Tx /\ t \in Nat /\ t # 0
           /\ LiveCell \in 0..Len(txs) /\ OnChain \subseteq 1..Len(txs)
           /\ \A since : Incomes(since) \subseteq Ids
           /\ \A c \in 1..MaxCalls : calls[c] \in Call
           /\ DOMAIN tasks = 1..Len(tasks) /\ Len(tasks) \in Nat
           /\ \A i \in 1..Len(tasks) : tasks[i] \in Row \cup {Deleted} /\ tasks[i].tx \in 0..Len(txs)
<1>1. MaxTx \in Nat \ {0} /\ Len(txs) \in Nat /\ Len(txs) <= MaxTx /\ DOMAIN txs = 1..Len(txs)
  BY CellAssumption DEF CellTyped
<1>2. 1..Len(txs) \subseteq Ids
  BY <1>1 DEF Ids
<1>3. \A t \in 1..Len(txs) : txs[t] \in Tx /\ t \in Nat /\ t # 0
  BY <1>1 DEF CellTyped
<1>4. \A n \in 1..Tip : main[n].tx \in 0..Len(txs)
  BY DEF CellTyped
<1>5. OnChain \subseteq 1..Len(txs)
  <2> SUFFICES ASSUME NEW x \in OnChain PROVE x \in 1..Len(txs)
    OBVIOUS
  <2>1. PICK n \in 1..Tip : main[n].tx = x /\ x # 0
    BY OnChainIs
  <2> QED
    BY <1>1, <1>4, <2>1
<1>6. LiveCell \in 0..Len(txs)
  <2>1. Tip \in Nat
    BY ChainKnown
  <2>2. PICK n \in 0..Tip : LiveCell = IF n = 0 THEN 0 ELSE main[n].tx
    BY LiveCellIs
  <2>3. CASE n = 0
    BY <1>1, <2>2, <2>3
  <2>4. CASE n # 0
    <3>1. n \in 1..Tip
      BY <2>1, <2>4
    <3> QED
      BY <1>4, <2>2, <2>4, <3>1
  <2> QED
    BY <2>3, <2>4
<1>7. \A since : Incomes(since) \subseteq Ids
  BY <1>2, <1>5 DEF Incomes, OnChain
<1>8. DOMAIN tasks = 1..Len(tasks) /\ Len(tasks) \in Nat
  BY DEF CellTyped
<1>9. \A i \in 1..Len(tasks) : tasks[i] \in Row \cup {Deleted} /\ tasks[i].tx \in 0..Len(txs)
  BY <1>8 DEF CellTyped
<1>10. \A c \in 1..MaxCalls : calls[c] \in Call
  BY DEF CellTyped
<1> QED
  BY <1>1, <1>2, <1>3, <1>5, <1>6, <1>7, <1>8, <1>9, <1>10

\* The lists a new transaction may carry.
Fresh == [Types -> 0..(Len(txs) + 1)]

LEMMA ListsKnown ==
    ASSUME ParserTyped, CellTyped
    PROVE  /\ NoLists \in Fresh
           /\ RulesOf(LiveCell) \in Fresh /\ HashOf(LiveCell) \in Fresh
           /\ \A type \in Types : /\ RulesOf(LiveCell)[type] \in 0..Len(txs)
                                  /\ HashOf(LiveCell)[type] \in 0..Len(txs)
<1>1. Len(txs) \in Nat /\ LiveCell \in 0..Len(txs)
  BY CellKnown
<1>2. NoLists \in [Types -> 0..Len(txs)]
  BY <1>1 DEF NoLists
<1>3. ASSUME NEW t \in 1..Len(txs)
      PROVE  txs[t].rules \in [Types -> 0..Len(txs)] /\ txs[t].hash \in [Types -> 0..Len(txs)]
  <2>1. txs[t] \in Tx
    BY CellKnown
  <2>2. txs[t].rules \in Lists /\ txs[t].hash \in Lists
    BY <2>1 DEF Tx
  <2>3. \A type \in Types : txs[t].rules[type] \in 0..t /\ txs[t].hash[type] \in 0..t
    BY DEF CellTyped
  <2>4. 0..t \subseteq 0..Len(txs)
    BY <1>1
  <2>5. \A type \in Types : txs[t].rules[type] \in 0..Len(txs) /\ txs[t].hash[type] \in 0..Len(txs)
    BY <2>3, <2>4
  <2> QED
    BY <2>2, <2>5 DEF Lists
<1>4. RulesOf(LiveCell) \in [Types -> 0..Len(txs)] /\ HashOf(LiveCell) \in [Types -> 0..Len(txs)]
  BY <1>1, <1>2, <1>3 DEF RulesOf, HashOf
<1>5. 0..Len(txs) \subseteq 0..(Len(txs) + 1)
  BY <1>1
<1>6. [Types -> 0..Len(txs)] \subseteq Fresh
  BY <1>5 DEF Fresh
<1> QED
  BY <1>2, <1>4, <1>6

LEMMA NewTxIs ==
    ASSUME ParserTyped, CellTyped,
           NEW kind \in Kinds, NEW named \in BOOLEAN, NEW rules \in Fresh, NEW hash \in Fresh,
           NEW pays \in SUBSET Ids, NewTx(kind, named, rules, hash, pays)
    PROVE  /\ NewId \in Ids /\ NewId = Len(txs) + 1 /\ Len(txs') = NewId
           /\ \A t \in 1..Len(txs) : txs'[t] = txs[t]
           /\ txs'[NewId].kind = kind /\ txs'[NewId].from = LiveCell /\ txs'[NewId].named = named
           /\ txs'[NewId].rules = rules /\ txs'[NewId].hash = hash /\ txs'[NewId].pays = pays
           /\ txs' \in Seq(Tx) /\ Len(txs') <= MaxTx
           /\ \A t \in 1..Len(txs') :
                txs'[t].from < t /\ \A type \in Types : {txs'[t].rules[type], txs'[t].hash[type]} \subseteq 0..t
           /\ 1..Len(txs) \subseteq 1..Len(txs') /\ 0..Len(txs) \subseteq 0..Len(txs')
<1>1. PICK tx : tx = [kind |-> kind, from |-> LiveCell, named |-> named,
                      rules |-> rules, hash |-> hash, pays |-> pays]
  OBVIOUS
<1>2. txs' = Append(txs, tx) /\ NewId <= MaxTx /\ NewId = Len(txs) + 1
  BY <1>1 DEF NewTx, NewId
<1>3. /\ Len(txs) \in Nat /\ MaxTx \in Nat /\ txs \in Seq(Tx) /\ LiveCell \in 0..Len(txs)
  BY CellKnown DEF CellTyped
<1>4. NewId \in Ids
  BY <1>2, <1>3 DEF Ids
<1>5. tx \in Tx
  <2>1. 0..(Len(txs) + 1) \subseteq 0..MaxTx
    BY <1>2, <1>3
  <2>2. rules \in Lists /\ hash \in Lists
    BY <2>1 DEF Fresh, Lists
  <2>3. LiveCell \in 0..MaxTx
    BY <1>2, <1>3
  <2> QED
    BY <1>1, <2>2, <2>3 DEF Tx
<1>6. /\ txs' \in Seq(Tx) /\ Len(txs') = Len(txs) + 1
      /\ \A t \in 1..Len(txs) : txs'[t] = txs[t]
      /\ txs'[Len(txs) + 1] = tx
  BY <1>2, <1>3, <1>5
<1>7. ASSUME NEW t \in 1..Len(txs')
      PROVE  txs'[t].from < t /\ \A type \in Types : {txs'[t].rules[type], txs'[t].hash[type]} \subseteq 0..t
  <2>1. CASE t \in 1..Len(txs)
    BY <1>6, <2>1 DEF CellTyped
  <2>2. CASE t = Len(txs) + 1
    <3>1. txs'[t].from = LiveCell /\ txs'[t].rules = rules /\ txs'[t].hash = hash
      BY <1>1, <1>6, <2>2
    <3> QED
      BY <1>3, <2>2, <3>1 DEF Fresh
  <2> QED
    BY <1>3, <1>6, <2>1, <2>2
<1>8. 1..Len(txs) \subseteq 1..Len(txs') /\ 0..Len(txs) \subseteq 0..Len(txs')
  BY <1>3, <1>6
<1>9. /\ txs'[NewId].kind = kind /\ txs'[NewId].from = LiveCell /\ txs'[NewId].named = named
      /\ txs'[NewId].rules = rules /\ txs'[NewId].hash = hash /\ txs'[NewId].pays = pays
  BY <1>1, <1>2, <1>6
<1> QED
  BY <1>2, <1>4, <1>6, <1>7, <1>8, <1>9

\* What the requests of the owner have in common.
LEMMA BuildIs ==
    ASSUME ParserTyped, CellTyped,
           \/ doSubAccountInit \/ doPriceRuleUpdate \/ doPreservedRuleUpdate
           \/ doConfigAutoMintUpdate \/ doCustomScript
    PROVE  \E kind \in Signed, named \in BOOLEAN, rules \in Fresh, hash \in Fresh :
             /\ buildTx(kind, named, rules, hash)
             /\ IF named THEN \E type \in Types :
                                /\ kind = SetBy(type)
                                /\ whitelist' = whitelist
                                      \cup {[tx |-> NewId, type |-> type, on |-> FALSE]}
                         ELSE UNCHANGED whitelist
             /\ kind \in Configs => check
             /\ \A type \in Types :
                  IF kind = SetBy(type) THEN rules[type] = NewId /\ hash[type] = NewId
                  ELSE /\ rules[type] \in {0, hash[type]}
                       /\ hash[type] \in {0, RulesOf(LiveCell)[type], HashOf(LiveCell)[type]}
<1>1. Price # Preserved /\ Types = {Price, Preserved}
  BY CellAssumption DEF Types
<1>2. /\ NoLists \in Fresh /\ RulesOf(LiveCell) \in Fresh /\ HashOf(LiveCell) \in Fresh
  BY ListsKnown
<1>3. CASE doSubAccountInit
  <2>1. buildTx("enable", FALSE, NoLists, NoLists) /\ UNCHANGED whitelist
    BY <1>3 DEF doSubAccountInit
  <2>2. \A type \in Types : NoLists[type] = 0 /\ SetBy(type) # "enable"
    BY DEF NoLists, SetBy
  <2>3. "enable" \in Signed /\ "enable" \notin Configs
    BY DEF Signed, Configs
  <2>4. PICK none \in Fresh : none = NoLists
    BY <1>2
  <2>5. PICK kind \in Signed : kind = "enable"
    BY <2>3
  <2>6. PICK named \in BOOLEAN : named = FALSE
    OBVIOUS
  <2>7. /\ buildTx(kind, named, none, none) /\ UNCHANGED whitelist /\ kind \notin Configs
        /\ \A type \in Types : none[type] = 0 /\ kind # SetBy(type)
    BY <2>1, <2>2, <2>3, <2>4, <2>5, <2>6
  <2> QED
    BY <2>6, <2>7
<1>4. CASE doConfigAutoMintUpdate
  <2>1. buildTx("switch", FALSE, RulesOf(LiveCell), RulesOf(LiveCell)) /\ UNCHANGED whitelist /\ check
    BY <1>4 DEF doConfigAutoMintUpdate
  <2>2. \A type \in Types : SetBy(type) # "switch"
    BY DEF SetBy
  <2>3. "switch" \in Signed
    BY DEF Signed
  <2> USE <1>2, <2>3
  <2> WITNESS "switch" \in Signed, FALSE \in BOOLEAN,
              RulesOf(LiveCell) \in Fresh, RulesOf(LiveCell) \in Fresh
  <2> QED
    BY <2>1, <2>2
<1>5. CASE doCustomScript
  <2>1. buildTx("script", FALSE, NoLists, HashOf(LiveCell)) /\ UNCHANGED whitelist
    BY <1>5 DEF doCustomScript, buildCustomScriptTx
  <2>2. \A type \in Types : NoLists[type] = 0 /\ SetBy(type) # "script"
    BY DEF NoLists, SetBy
  <2> QED
    BY <1>2, <2>1, <2>2 DEF Signed, Configs
<1>6. ASSUME NEW type \in Types, NEW kind, kind = SetBy(type), doRuleUpdate(kind, type)
      PROVE  \E named \in BOOLEAN, rules \in Fresh :
               /\ buildTx(kind, named, rules, rules) /\ check
               /\ IF named THEN whitelist' = whitelist
                                   \cup {[tx |-> NewId, type |-> type, on |-> FALSE]}
                           ELSE UNCHANGED whitelist
               /\ rules[type] = NewId
               /\ \A other \in Types : other # type => rules[other] = RulesOf(LiveCell)[other]
  <2>1. PICK named \in BOOLEAN :
          /\ check
          /\ buildTx(kind, named, rulesTxAssemble(type), rulesTxAssemble(type))
          /\ whitelist' = whitelist \cup IF named
                            THEN {[tx |-> NewId, type |-> type, on |-> FALSE]} ELSE {}
    BY <1>6 DEF doRuleUpdate
  <2>2. PICK rules : rules = rulesTxAssemble(type)
    OBVIOUS
  <2>3. NewId \in 0..(Len(txs) + 1)
    BY CellKnown DEF NewId
  <2>4. /\ rules \in Fresh /\ rules[type] = NewId
        /\ \A other \in Types : other # type => rules[other] = RulesOf(LiveCell)[other]
    BY <1>2, <2>2, <2>3 DEF rulesTxAssemble, Fresh
  <2> QED
    BY <2>1, <2>2, <2>4
<1>7. CASE doPriceRuleUpdate
  <2>1. doRuleUpdate("price", Price) /\ SetBy(Price) = "price" /\ Price \in Types
    BY <1>1, <1>7 DEF doPriceRuleUpdate, SetBy
  <2>2. PICK named \in BOOLEAN, rules \in Fresh :
          /\ buildTx("price", named, rules, rules) /\ check
          /\ IF named THEN whitelist' = whitelist
                              \cup {[tx |-> NewId, type |-> Price, on |-> FALSE]}
                      ELSE UNCHANGED whitelist
          /\ rules[Price] = NewId
          /\ \A other \in Types : other # Price => rules[other] = RulesOf(LiveCell)[other]
    BY <1>6, <2>1
  <2>3. \A type \in Types : "price" = SetBy(type) <=> type = Price
    BY DEF SetBy
  <2> QED
    BY <2>1, <2>2, <2>3 DEF Signed
<1>8. CASE doPreservedRuleUpdate
  <2>1. /\ doRuleUpdate("preserved", Preserved) /\ SetBy(Preserved) = "preserved"
        /\ Preserved \in Types
    BY <1>1, <1>8 DEF doPreservedRuleUpdate, SetBy
  <2>2. PICK named \in BOOLEAN, rules \in Fresh :
          /\ buildTx("preserved", named, rules, rules) /\ check
          /\ IF named THEN whitelist' = whitelist
                              \cup {[tx |-> NewId, type |-> Preserved, on |-> FALSE]}
                      ELSE UNCHANGED whitelist
          /\ rules[Preserved] = NewId
          /\ \A other \in Types : other # Preserved => rules[other] = RulesOf(LiveCell)[other]
    BY <1>6, <2>1
  <2>3. \A type \in Types : "preserved" = SetBy(type) <=> type = Preserved
    BY <1>1 DEF SetBy
  <2> QED
    BY <2>1, <2>2, <2>3 DEF Signed
<1> QED
  BY <1>3, <1>4, <1>5, <1>7, <1>8

\* What the requests the server signs have in common.
Sending == doProfitWithdraw \/ \E c \in 1..MaxCalls : SendWithdrawal(c)
LEMMA SendIs ==
    ASSUME ParserTyped, CellTyped, Sending
    PROVE  \E kind \in {"profit"} \cup Withdrawals, rules \in Fresh, pays \in SUBSET Ids :
             /\ Accepted(LiveCell)
             /\ NewTx(kind, FALSE, rules, HashOf(LiveCell), pays)
             /\ pool' = pool \cup {NewId} /\ unsaved' = unsaved \cup {NewId}
             /\ UNCHANGED <<parserVars, signing, tasks, whitelist, lost, history, synced, evicted, twice>>
             /\ \/ kind = "profit" /\ pays = {} /\ UNCHANGED calls
                \/ \E c \in 1..MaxCalls :
                      /\ calls[c].pc = "send" /\ kind = calls[c].kind /\ pays = calls[c].pays
                      /\ calls' = [calls EXCEPT ![c] = Idle]
             /\ \A type \in Types : rules[type] \in {0, RulesOf(LiveCell)[type]}
<1>1. NoLists \in Fresh /\ RulesOf(LiveCell) \in Fresh /\ {} \in SUBSET Ids
  BY ListsKnown
<1>2. \A type \in Types : NoLists[type] = 0
  BY DEF NoLists
<1>3. CASE doProfitWithdraw
  <2>1. /\ send("profit", NoLists, {}) /\ unsaved' = unsaved \cup {NewId}
        /\ UNCHANGED <<tasks, lost, calls, history>>
    BY <1>3 DEF doProfitWithdraw, withdrawalVars
  <2> USE <1>1
  <2> WITNESS "profit" \in {"profit"} \cup Withdrawals, NoLists \in Fresh, {} \in SUBSET Ids
  <2> QED
    BY <1>2, <2>1 DEF send
<1>4. CASE \E c \in 1..MaxCalls : SendWithdrawal(c)
  <2>1. PICK c \in 1..MaxCalls : SendWithdrawal(c)
    BY <1>4
  <2>2. calls[c].kind \in Withdrawals /\ calls[c].pays \in SUBSET Ids
    BY CellKnown DEF Call
  <2>3. PICK rules \in Fresh : rules = IF calls[c].kind = "withdraw" THEN RulesOf(LiveCell) ELSE NoLists
    BY <1>1
  <2>4. /\ calls[c].pc = "send" /\ send(calls[c].kind, rules, calls[c].pays)
        /\ calls' = [calls EXCEPT ![c] = Idle] /\ unsaved' = unsaved \cup {NewId}
        /\ UNCHANGED <<tasks, lost, history>>
    BY <2>1, <2>3 DEF SendWithdrawal
  <2>5. \A type \in Types : rules[type] \in {0, RulesOf(LiveCell)[type]}
    BY <1>2, <2>3
  <2>6. calls[c].kind \in {"profit"} \cup Withdrawals
    BY <2>2
  <2> USE <2>2, <2>6
  <2> WITNESS calls[c].kind \in {"profit"} \cup Withdrawals, rules \in Fresh,
              calls[c].pays \in SUBSET Ids
  <2> QED
    BY <2>4, <2>5 DEF send
<1> QED
  BY <1>3, <1>4 DEF Sending

\* The steps of a call before it sends change nothing else.
CallSteps == \E c \in 1..MaxCalls :
    buildServiceProviderWithdraw(c) \/ buildServiceProviderWithdraw2Tx(c) \/ CallFails(c)
LEMMA CallStepIs ==
    ASSUME ParserTyped, CellTyped, CallSteps
    PROVE  /\ UNCHANGED <<parserVars, txs, signing, pool, unsaved, tasks, whitelist, lost, history,
                          synced, evicted, twice>>
           /\ calls' \in [1..MaxCalls -> Call]
<1>1. PICK c \in 1..MaxCalls :
        buildServiceProviderWithdraw(c) \/ buildServiceProviderWithdraw2Tx(c) \/ CallFails(c)
  BY DEF CallSteps
<1>2. calls[c] \in Call /\ Idle \in Call /\ calls \in [1..MaxCalls -> Call]
  BY CellKnown DEF CellTyped, Call, Idle, Withdrawals
<1>3. OnRecord("withdraw") \in SUBSET Ids /\ OnRecord("withdraw2") \in SUBSET Ids
  <2>1. OnRecord("withdraw") \in SUBSET Ids
    <3>1. history \in Seq(Ids)
      BY DEF CellTyped
    <3> QED
      BY <3>1 DEF OnRecord, ToSet
  <2>2. OnRecord("withdraw2") \in SUBSET Ids
    <3> SUFFICES ASSUME NEW i \in RowsOf(Withdrawals, Statuses) PROVE tasks[i].tx \in Ids
      BY DEF OnRecord
    <3>1. i \in 1..Len(tasks) /\ tasks[i].status # "deleted"
      BY DEF RowsOf, Statuses
    <3>2. tasks[i] \in Row
      BY <3>1, CellKnown DEF Deleted
    <3> QED
      BY <3>2 DEF Row
  <2> QED
    BY <2>1, <2>2
<1>4. \E call \in Call : Goes(c, call)
  <2>1. CASE FindSubAccountAutoMintStatements(c)
    <3>1. PICK since \in LatestExpenditure..synced :
            Begins(c, [pc |-> "check", kind |-> "withdraw", pays |-> Incomes(since),
                       known |-> OnRecord("withdraw")])
      BY <2>1 DEF FindSubAccountAutoMintStatements
    <3>2. PICK call : call = [pc |-> "check", kind |-> "withdraw", pays |-> Incomes(since),
                              known |-> OnRecord("withdraw")]
      OBVIOUS
    <3>3. call \in Call
      BY <1>3, <3>2, CellKnown DEF Call, Withdrawals
    <3> QED
      BY <3>1, <3>2, <3>3 DEF Begins
  <2>2. CASE CheckHistory(c)
    <3>1. PICK call : call = [calls[c] EXCEPT !.pc = "send"]
      OBVIOUS
    <3>2. call \in Call /\ Goes(c, call)
      BY <1>2, <2>2, <3>1 DEF CheckHistory, Call
    <3> QED
      BY <3>2
  <2>3. CASE CheckPending(c)
    <3>1. PICK call : call = [pc |-> "list", kind |-> "withdraw2", pays |-> {},
                              known |-> OnRecord("withdraw2")]
      OBVIOUS
    <3>2. call \in Call /\ Goes(c, call)
      BY <1>3, <2>3, <3>1 DEF CheckPending, Begins, Call, Withdrawals
    <3> QED
      BY <3>2
  <2>4. CASE FindSubAccountAutoMintStatements2(c)
    <3>1. PICK call : call = [calls[c] EXCEPT !.pc = "send", !.pays = Incomes(LatestExpenditure)]
      OBVIOUS
    <3>2. call \in Call /\ Goes(c, call)
      BY <1>2, <2>4, <3>1, CellKnown DEF FindSubAccountAutoMintStatements2, Call
    <3> QED
      BY <3>2
  <2>5. CASE CallFails(c)
    BY <1>2, <2>5 DEF CallFails
  <2> QED
    BY <1>1, <2>1, <2>2, <2>3, <2>4, <2>5 DEF buildServiceProviderWithdraw, buildServiceProviderWithdraw2Tx
<1>5. PICK call \in Call : Goes(c, call)
  BY <1>4
<1> QED
  BY <1>2, <1>5 DEF Goes

LEMMA BuildTyped ==
    ASSUME ParserTyped, CellTyped,
           \/ doSubAccountInit \/ doPriceRuleUpdate \/ doPreservedRuleUpdate
           \/ doConfigAutoMintUpdate \/ doCustomScript
    PROVE  CellTyped'
<1>1. PICK kind \in Signed, named \in BOOLEAN, rules \in Fresh, hash \in Fresh :
        /\ buildTx(kind, named, rules, hash)
        /\ IF named THEN \E type \in Types :
                           whitelist' = whitelist \cup {[tx |-> NewId, type |-> type, on |-> FALSE]}
                    ELSE UNCHANGED whitelist
  BY BuildIs
<1>2. /\ NewTx(kind, named, rules, hash, {}) /\ signing' = signing \cup {NewId}
      /\ UNCHANGED <<parserVars, pool, unsaved, tasks, lost, calls, history, synced, evicted, twice>>
  BY <1>1 DEF buildTx, withdrawalVars
<1>3. kind \in Kinds /\ {} \in SUBSET Ids
  BY DEF Kinds
<1>4. /\ NewId \in Ids /\ NewId = Len(txs) + 1 /\ Len(txs') = NewId
      /\ txs' \in Seq(Tx) /\ Len(txs') <= MaxTx
      /\ \A t \in 1..Len(txs') :
           txs'[t].from < t /\ \A type \in Types : {txs'[t].rules[type], txs'[t].hash[type]} \subseteq 0..t
      /\ 1..Len(txs) \subseteq 1..Len(txs') /\ 0..Len(txs) \subseteq 0..Len(txs')
  BY <1>2, <1>3, NewTxIs
<1>5. Len(txs) \in Nat /\ NewId \in 1..Len(txs')
  BY <1>4, CellKnown
<1>6. whitelist' \subseteq [tx : Ids, type : Types, on : BOOLEAN]
  <2>1. whitelist \subseteq [tx : Ids, type : Types, on : BOOLEAN]
    BY DEF CellTyped
  <2>2. ASSUME NEW type \in Types
        PROVE  [tx |-> NewId, type |-> type, on |-> FALSE] \in [tx : Ids, type : Types, on : BOOLEAN]
    BY <1>4
  <2>3. CASE named
    <3>1. PICK type \in Types :
            whitelist' = whitelist \cup {[tx |-> NewId, type |-> type, on |-> FALSE]}
      BY <1>1, <2>3
    <3> QED
      BY <2>1, <2>2, <3>1
  <2>4. CASE ~named
    BY <1>1, <2>1, <2>4
  <2> QED
    BY <2>3, <2>4
<1>7. UNCHANGED <<main, tasks, lost, calls, history, synced, twice>> /\ Tip' = Tip
  BY <1>2 DEF parserVars, Tip
<1>8. \A n \in 1..Tip' : main'[n].tx \in 0..Len(txs')
  BY <1>4, <1>7 DEF CellTyped
<1>9. signing' \cup pool' \cup unsaved' \cup lost' \cup evicted' \subseteq 1..Len(txs')
  BY <1>2, <1>4, <1>5 DEF CellTyped
<1>10. tasks' \in Seq(Row \cup {Deleted}) /\ \A i \in 1..Len(tasks') : tasks'[i].tx \in 0..Len(txs')
  BY <1>4, <1>7 DEF CellTyped
<1> QED
  BY <1>4, <1>6, <1>7, <1>8, <1>9, <1>10 DEF CellTyped

\* A row of a transaction is inserted.
LEMMA RowTyped ==
    ASSUME ParserTyped, CellTyped, NEW t \in Ids, NEW row, row \in Row, row.tx = t,
           tasks' = Append(tasks, row), Len(txs') \in Nat, Len(txs) <= Len(txs'), t <= Len(txs')
    PROVE  tasks' \in Seq(Row \cup {Deleted}) /\ \A i \in 1..Len(tasks') : tasks'[i].tx \in 0..Len(txs')
<1>1. tasks \in Seq(Row \cup {Deleted}) /\ Len(tasks) \in Nat /\ Len(txs) \in Nat
  BY CellKnown DEF CellTyped
<1>2. /\ tasks' \in Seq(Row \cup {Deleted}) /\ Len(tasks') = Len(tasks) + 1
      /\ \A i \in 1..Len(tasks) : tasks'[i] = tasks[i]
      /\ tasks'[Len(tasks) + 1] = row
  BY <1>1
<1>3. ASSUME NEW i \in 1..Len(tasks') PROVE tasks'[i].tx \in 0..Len(txs')
  <2>1. CASE i \in 1..Len(tasks)
    <3>1. tasks'[i].tx \in 0..Len(txs)
      BY <1>2, <2>1, CellKnown
    <3> QED
      BY <1>1, <3>1
  <2>2. CASE i = Len(tasks) + 1
    BY <1>1, <1>2, <2>2 DEF Ids
  <2> QED
    BY <1>1, <1>2, <2>1, <2>2
<1> QED
  BY <1>2, <1>3

LEMMA SendTyped ==
    ASSUME ParserTyped, CellTyped, Sending
    PROVE  CellTyped'
<1>1. PICK kind \in {"profit"} \cup Withdrawals, rules \in Fresh, pays \in SUBSET Ids :
        /\ NewTx(kind, FALSE, rules, HashOf(LiveCell), pays)
        /\ pool' = pool \cup {NewId} /\ unsaved' = unsaved \cup {NewId}
        /\ UNCHANGED <<parserVars, signing, tasks, whitelist, lost, history, synced, evicted, twice>>
        /\ calls' = calls \/ \E c \in 1..MaxCalls : calls' = [calls EXCEPT ![c] = Idle]
  BY SendIs
<1>2. kind \in Kinds /\ HashOf(LiveCell) \in Fresh
  BY ListsKnown DEF Kinds
<1>3. /\ NewId \in Ids /\ NewId = Len(txs) + 1 /\ Len(txs') = NewId
      /\ txs' \in Seq(Tx) /\ Len(txs') <= MaxTx
      /\ \A t \in 1..Len(txs') :
           txs'[t].from < t /\ \A type \in Types : {txs'[t].rules[type], txs'[t].hash[type]} \subseteq 0..t
      /\ 1..Len(txs) \subseteq 1..Len(txs') /\ 0..Len(txs) \subseteq 0..Len(txs')
  BY <1>1, <1>2, NewTxIs
<1>4. Len(txs) \in Nat /\ NewId \in 1..Len(txs')
  BY <1>3, CellKnown
<1>5. UNCHANGED <<main, tasks, whitelist, lost, history, synced, twice>> /\ Tip' = Tip
  BY <1>1 DEF parserVars, Tip
<1>6. \A n \in 1..Tip' : main'[n].tx \in 0..Len(txs')
  BY <1>3, <1>5 DEF CellTyped
<1>7. signing' \cup pool' \cup unsaved' \cup lost' \cup evicted' \subseteq 1..Len(txs')
  BY <1>1, <1>3, <1>4 DEF CellTyped
<1>8. tasks' \in Seq(Row \cup {Deleted}) /\ \A i \in 1..Len(tasks') : tasks'[i].tx \in 0..Len(txs')
  BY <1>3, <1>5 DEF CellTyped
<1>9. calls' \in [1..MaxCalls -> Call]
  BY <1>1 DEF CellTyped, Call, Idle, Withdrawals
<1> QED
  BY <1>3, <1>5, <1>6, <1>7, <1>8, <1>9 DEF CellTyped

LEMMA CreateTyped ==
    ASSUME ParserTyped, CellTyped, NEW t \in Ids, CreateTask(t)
    PROVE  CellTyped'
<1>1. /\ t \in unsaved /\ unsaved' = unsaved \ {t}
      /\ tasks' = Append(tasks, [tx |-> t, status |-> "pending", bn |-> 0])
      /\ history' = IF txs[t].kind = "withdraw" THEN Append(history, t) ELSE history
      /\ UNCHANGED <<main, txs, signing, pool, whitelist, lost, calls, synced, evicted, twice>> /\ Tip' = Tip
  BY DEF CreateTask, parserVars, Tip
<1>2. Len(txs) \in Nat /\ t \in 1..Len(txs)
  BY <1>1, CellKnown DEF CellTyped
<1>3. PICK row : row = [tx |-> t, status |-> "pending", bn |-> 0]
  OBVIOUS
<1>4. row \in Row /\ row.tx = t
  BY <1>3, ParserBounds DEF Row, Statuses
<1>5. tasks' \in Seq(Row \cup {Deleted}) /\ \A i \in 1..Len(tasks') : tasks'[i].tx \in 0..Len(txs')
  BY <1>1, <1>2, <1>3, <1>4, RowTyped
<1>6. history' \in Seq(Ids)
  BY <1>1 DEF CellTyped
<1> QED
  BY <1>1, <1>5, <1>6 DEF CellTyped

LEMMA UpdateTyped ==
    ASSUME ParserTyped, CellTyped, Update
    PROVE  CellTyped' /\ ParserTyped'
<1>1. /\ NewTx("update", FALSE, HashOf(LiveCell), HashOf(LiveCell), {}) /\ Mine(NewId)
      /\ signing' = {}
      /\ UNCHANGED <<pool, unsaved, tasks, whitelist, lost, calls, history, synced, evicted, twice>>
  BY DEF Update, withdrawalVars
<1>2. "update" \in Kinds /\ HashOf(LiveCell) \in Fresh /\ {} \in SUBSET Ids
  BY ListsKnown DEF Kinds
<1>3. /\ NewId = Len(txs) + 1 /\ Len(txs') = NewId
      /\ txs' \in Seq(Tx) /\ Len(txs') <= MaxTx
      /\ \A t \in 1..Len(txs') :
           txs'[t].from < t /\ \A type \in Types : {txs'[t].rules[type], txs'[t].hash[type]} \subseteq 0..t
      /\ 1..Len(txs) \subseteq 1..Len(txs') /\ 0..Len(txs) \subseteq 0..Len(txs')
  BY <1>1, <1>2, NewTxIs
<1>4. Len(txs) \in Nat /\ NewId \in Nat /\ NewId \in 0..Len(txs')
  BY <1>3, CellKnown
<1>5. /\ ParserTyped' /\ Tip' = Tip + 1 /\ Tip \in Nat
      /\ \A n \in 1..Tip : main'[n] = main[n]
      /\ main'[Tip + 1].tx = NewId
  BY <1>1, <1>4, MineTyped, ChainKnown
<1>6. ASSUME NEW n \in 1..Tip' PROVE main'[n].tx \in 0..Len(txs')
  <2>1. n \in 1..Tip \/ n = Tip + 1
    BY <1>5
  <2> QED
    BY <1>3, <1>4, <1>5, <2>1 DEF CellTyped
<1>7. signing' \cup pool' \cup unsaved' \cup lost' \cup evicted' \subseteq 1..Len(txs')
  BY <1>1, <1>3 DEF CellTyped
<1>8. tasks' \in Seq(Row \cup {Deleted}) /\ \A i \in 1..Len(tasks') : tasks'[i].tx \in 0..Len(txs')
  BY <1>1, <1>3 DEF CellTyped
<1>9. synced' \in 0..Tip'
  BY <1>1, <1>5 DEF CellTyped
<1> QED
  BY <1>1, <1>3, <1>5, <1>6, <1>7, <1>8, <1>9 DEF CellTyped

\* The chain changes, and what is waiting for it; no row does.
LEMMA ChainTyped ==
    ASSUME ParserTyped, CellTyped, ParserTyped', Tip' \in Nat,
           \A n \in 1..Tip' : main'[n].tx \in 0..Len(txs),
           UNCHANGED <<txs, unsaved, tasks, whitelist, lost, history, twice>>,
           calls' \in [1..MaxCalls -> Call],
           signing' \subseteq signing, pool' \subseteq pool, evicted' \subseteq evicted \cup pool,
           synced' \in 0..Tip'
    PROVE  CellTyped'
<1>1. signing' \cup pool' \cup unsaved' \cup lost' \cup evicted' \subseteq 1..Len(txs')
  BY DEF CellTyped
<1> QED
  BY <1>1 DEF CellTyped

LEMMA MineTxTyped ==
    ASSUME ParserTyped, CellTyped, NEW t \in Ids, MineTx(t)
    PROVE  CellTyped' /\ ParserTyped'
<1>1. /\ t \in pool /\ Mine(t) /\ pool' = pool \ {t} /\ signing' \subseteq signing
      /\ UNCHANGED <<txs, unsaved, tasks, whitelist, lost, calls, history, synced, evicted, twice>>
  BY DEF MineTx, withdrawalVars
<1>2. t \in 1..Len(txs) /\ t \in Nat
  BY <1>1, CellKnown DEF CellTyped
<1>3. /\ ParserTyped' /\ Tip' = Tip + 1 /\ Tip \in Nat
      /\ \A n \in 1..Tip : main'[n] = main[n]
      /\ main'[Tip + 1].tx = t
  BY <1>1, <1>2, MineTyped, ChainKnown
<1>4. ASSUME NEW n \in 1..Tip' PROVE main'[n].tx \in 0..Len(txs)
  <2>1. n \in 1..Tip \/ n = Tip + 1
    BY <1>3
  <2>2. (\A k \in 1..Tip : main[k].tx \in 0..Len(txs)) /\ t \in 0..Len(txs)
    BY <1>2 DEF CellTyped
  <2> QED
    BY <1>3, <2>1, <2>2
<1>5. synced' \in 0..Tip'
  BY <1>1, <1>3 DEF CellTyped
<1>6. evicted' \subseteq evicted \cup pool /\ pool' \subseteq pool /\ Tip' \in Nat
      /\ calls' \in [1..MaxCalls -> Call]
  BY <1>1, <1>3 DEF CellTyped
<1> QED
  BY <1>1, <1>3, <1>4, <1>5, <1>6, ChainTyped

LEMMA MineOtherTyped ==
    ASSUME ParserTyped, CellTyped, MineOther
    PROVE  CellTyped' /\ ParserTyped'
<1>1. Mine(0) /\ UNCHANGED <<txs, signing, pool, unsaved, tasks, whitelist, lost, calls, history,
                                 synced, evicted, twice>>
  BY DEF MineOther, cellVars, withdrawalVars
<1>2. /\ ParserTyped' /\ Tip' = Tip + 1 /\ Tip \in Nat
      /\ \A n \in 1..Tip : main'[n] = main[n]
      /\ main'[Tip + 1].tx = 0
  BY <1>1, MineTyped, ChainKnown
<1>3. ASSUME NEW n \in 1..Tip' PROVE main'[n].tx \in 0..Len(txs)
  <2>1. n \in 1..Tip \/ n = Tip + 1
    BY <1>2
  <2>2. (\A k \in 1..Tip : main[k].tx \in 0..Len(txs)) /\ 0 \in 0..Len(txs)
    BY CellKnown DEF CellTyped
  <2> QED
    BY <1>2, <2>1, <2>2
<1>4. synced' \in 0..Tip'
  BY <1>1, <1>2 DEF CellTyped
<1>5. /\ evicted' \subseteq evicted \cup pool /\ pool' \subseteq pool /\ signing' \subseteq signing
      /\ Tip' \in Nat /\ calls' \in [1..MaxCalls -> Call]
  BY <1>1, <1>2 DEF CellTyped
<1> QED
  BY <1>1, <1>2, <1>3, <1>4, <1>5, ChainTyped

LEMMA StatementsMoveTyped ==
    ASSUME CellTyped, StatementsMove
    PROVE  calls' \in [1..MaxCalls -> Call]
<1>1. calls \in [1..MaxCalls -> Call] /\ DOMAIN calls = 1..MaxCalls
  BY DEF CellTyped
<1>2. ASSUME NEW c \in 1..MaxCalls
      PROVE  [calls[c] EXCEPT !.known = {t \in @ : Statement(t) <=> Statement(t)'}] \in Call
  <2>1. PICK known : known = {t \in calls[c].known : Statement(t) <=> Statement(t)'}
    OBVIOUS
  <2>2. known \subseteq calls[c].known /\ calls[c] \in Call
    BY <1>1, <2>1
  <2>3. [calls[c] EXCEPT !.known = known] \in Call
    BY <2>2 DEF Call
  <2> QED
    BY <2>1, <2>3
<1> QED
  BY <1>1, <1>2 DEF StatementsMove

LEMMA ForkAllTyped ==
    ASSUME ParserTyped, CellTyped, ForkAll
    PROVE  CellTyped' /\ ParserTyped'
<1>1. /\ Fork /\ UNCHANGED <<txs, signing, pool, unsaved, lost, tasks, whitelist, history, evicted, twice>>
      /\ calls' \in [1..MaxCalls -> Call]
  BY StatementsMoveTyped DEF ForkAll
<1>2. PICK d \in 1..MaxDepth, by \in {-1, 0, 1} :
        /\ ParserTyped' /\ main' = Moved(d, by) /\ Tip' = Tip + 1 /\ d < Tip
  BY <1>1, ForkTyped
<1>3. Tip \in Nat /\ synced \in 0..Tip /\ Len(txs) \in Nat
  BY ChainKnown, CellKnown DEF CellTyped
<1>4. ASSUME NEW n \in 1..Tip' PROVE main'[n].tx \in 0..Len(txs)
  <2>1. \A k \in 1..Tip : main[k].tx \in 0..Len(txs)
    BY DEF CellTyped
  <2>2. n \in 1..(Tip + 1)
    BY <1>2
  <2>3. PICK fork : fork = Tip - d
    OBVIOUS
  <2>4. fork \in Nat
    BY <1>2, <1>3, <2>3, ParserBounds
  <2>5. /\ n <= fork => n \in 1..Tip /\ main'[n] = main[n]
        /\ n > fork => main'[n].tx = IF n - by \in (fork + 1)..Tip THEN main[n - by].tx ELSE 0
    BY <1>2, <2>2, <2>3, MovedKnown
  <2>6. \A k \in (fork + 1)..Tip : k \in 1..Tip
    BY <1>3, <2>4
  <2> QED
    BY <1>3, <2>1, <2>2, <2>4, <2>5, <2>6
<1>5. synced' \in 0..Tip'
  <2> DEFINE P(n) == main'[n].salt # main[n].salt
  <2>1. CASE \E n \in 1..synced : P(n)
    <3> DEFINE S == {k \in 0..synced : \E n \in 1..synced : P(n) /\ k = synced - n}
    <3>1. S \in SUBSET (0..synced) /\ S # {}
      <4>1. PICK n \in 1..synced : P(n)
        BY <2>1
      <4>2. synced - n \in 0..synced
        BY <1>3
      <4> QED
        BY <4>1, <4>2
    <3>2. \E k \in S : \A j \in S : j <= k
      <4> HIDE DEF S
      <4>1. synced \in Nat
        BY <1>3
      <4> QED
        BY <3>1, <4>1, LargestExists
    <3>3. PICK k \in S : \A j \in S : j <= k
      BY <3>2
    <3>4. PICK n \in 1..synced : P(n) /\ k = synced - n
      BY <3>3
    <3>5. \A m \in 1..(n - 1) : ~P(m)
      <4> SUFFICES ASSUME NEW m \in 1..(n - 1), P(m) PROVE FALSE
        OBVIOUS
      <4>1. PICK j \in Int : j = synced - m
        BY <1>3
      <4>2. m \in 1..synced /\ j \in 0..synced /\ j > k
        BY <1>3, <3>4, <4>1
      <4>3. j \in S
        BY <4>1, <4>2
      <4> QED
        BY <1>3, <3>3, <3>4, <4>2, <4>3
    <3>6. PICK least : least = CHOOSE m \in 1..synced : P(m) /\ \A j \in 1..(m - 1) : ~P(j)
      OBVIOUS
    <3>7. least \in 1..synced
      BY <3>4, <3>5, <3>6
    <3>8. synced' = least - 1
      BY <2>1, <3>6 DEF ForkAll
    <3> QED
      BY <1>2, <1>3, <3>7, <3>8
  <2>2. CASE ~ \E n \in 1..synced : P(n)
    <3>1. synced' = synced
      BY <2>2 DEF ForkAll
    <3> QED
      BY <1>2, <1>3, <3>1
  <2> QED
    BY <2>1, <2>2
<1>6. evicted' \subseteq evicted \cup pool /\ pool' \subseteq pool /\ signing' \subseteq signing /\ Tip' \in Nat
  BY <1>1, <1>2, <1>3
<1> QED
  BY <1>1, <1>2, <1>4, <1>5, <1>6, ChainTyped

\* The handlers, row by row.
Settles == {"enable", "profit", "script"} \cup Configs
LEMMA HandlerIs ==
    ASSUME ParserTyped, CellTyped, Handler
    PROVE  /\ TxOf \in 0..Len(txs) /\ parser.current \in 0..MaxBlocks /\ parser.current \in 1..Tip
           /\ UNCHANGED <<txs, signing, pool, unsaved, lost, calls, history, synced, evicted>>
           /\ twice' = (twice \/ \E i \in 1..Len(tasks) :
                            tasks[i].tx = TxOf /\ tasks[i].status = "committed")
           /\ TxOf = 0 \/ Kind(TxOf) = "update" => UNCHANGED <<tasks, whitelist>>
           /\ TxOf # 0 /\ Kind(TxOf) \in Settles =>
                /\ Len(tasks') = Len(tasks) + 1
                /\ \A i \in 1..Len(tasks) :
                     tasks'[i] = IF tasks[i].tx = TxOf THEN Deleted ELSE tasks[i]
                /\ tasks'[Len(tasks) + 1] = Committed(TxOf)
                /\ IF Kind(TxOf) \in Configs \cup {"script"} THEN CommitWhitelist
                                                            ELSE UNCHANGED whitelist
           /\ TxOf # 0 /\ Kind(TxOf) \in Withdrawals =>
                /\ Len(tasks') = Len(tasks) /\ UNCHANGED whitelist
                /\ \A i \in 1..Len(tasks) :
                     tasks'[i] = IF tasks[i].tx = TxOf THEN Committed(TxOf) ELSE tasks[i]
           /\ TxOf # 0 => Kind(TxOf) \in Settles \cup Withdrawals \cup {"update"}
           /\ tasks' \in Seq(Row \cup {Deleted})
           /\ \A i \in 1..Len(tasks') : tasks'[i].tx \in 0..Len(txs)
           /\ whitelist' \subseteq [tx : Ids, type : Types, on : BOOLEAN]
<1>1. /\ UNCHANGED <<txs, signing, pool, unsaved, lost, calls, history, synced, evicted>>
      /\ twice' = (twice \/ \E i \in 1..Len(tasks) :
                      tasks[i].tx = TxOf /\ tasks[i].status = "committed")
  BY DEF Handler, withdrawalVars
<1>2. /\ parser.current \in 1..Tip /\ parser.current \in 0..MaxBlocks
      /\ TxOf \in 0..Len(txs) /\ Len(txs) \in Nat
  <2>1. parser.current \in First..Tip /\ Tip \in Nat /\ Tip <= MaxBlocks /\ First \in Nat /\ First >= 1
    BY ChainKnown, ParserBounds DEF ParserTyped
  <2>2. parser.current \in 1..Tip /\ parser.current \in 0..MaxBlocks
    BY <2>1, ParserBounds
  <2> QED
    BY <2>2, CellKnown DEF TxOf, CellTyped
<1>3. TxOf # 0 => Kind(TxOf) \in Settles \cup Withdrawals \cup {"update"}
  <2>1. TxOf # 0 => TxOf \in 1..Len(txs)
    BY <1>2
  <2>2. TxOf # 0 => Kind(TxOf) \in Kinds
    BY <2>1, CellKnown DEF Tx, Kind
  <2> QED
    BY <2>2 DEF Kinds, Signed, Settles, Configs
<1>4. /\ tasks \in Seq(Row \cup {Deleted}) /\ Len(tasks) \in Nat
      /\ \A i \in 1..Len(tasks) : tasks[i] \in Row \cup {Deleted} /\ tasks[i].tx \in 0..Len(txs)
      /\ whitelist \subseteq [tx : Ids, type : Types, on : BOOLEAN]
  BY CellKnown DEF CellTyped
<1>5. PICK row : row = Committed(TxOf)
  OBVIOUS
<1>6. TxOf # 0 => row \in Row /\ row.tx = TxOf
  BY <1>2, <1>5, CellKnown DEF Committed, Row, Statuses
<1>7. Deleted.tx = 0
  BY DEF Deleted
<1>8. ASSUME CommitWhitelist PROVE whitelist' \subseteq [tx : Ids, type : Types, on : BOOLEAN]
  BY <1>4, <1>8 DEF CommitWhitelist
<1>9. ASSUME TxOf = 0 \/ Kind(TxOf) = "update"
      PROVE  /\ UNCHANGED <<tasks, whitelist>>
             /\ tasks' \in Seq(Row \cup {Deleted})
             /\ \A i \in 1..Len(tasks') : tasks'[i].tx \in 0..Len(txs)
             /\ whitelist' \subseteq [tx : Ids, type : Types, on : BOOLEAN]
  <2>1. UNCHANGED <<tasks, whitelist>>
    <3>1. Kind(TxOf) = "update" => Kind(TxOf) \notin Settles \cup Withdrawals
      BY DEF Settles, Configs, Withdrawals
    <3> QED
      BY <1>9, <3>1 DEF Handler, Kind, Settles, Configs
  <2> QED
    BY <1>4, <2>1
<1>10. ASSUME TxOf # 0, Kind(TxOf) \in Settles
       PROVE  /\ Len(tasks') = Len(tasks) + 1
              /\ \A i \in 1..Len(tasks) :
                   tasks'[i] = IF tasks[i].tx = TxOf THEN Deleted ELSE tasks[i]
              /\ tasks'[Len(tasks) + 1] = Committed(TxOf)
              /\ IF Kind(TxOf) \in Configs \cup {"script"} THEN CommitWhitelist
                                                          ELSE UNCHANGED whitelist
              /\ tasks' \in Seq(Row \cup {Deleted})
              /\ \A i \in 1..Len(tasks') : tasks'[i].tx \in 0..Len(txs)
              /\ whitelist' \subseteq [tx : Ids, type : Types, on : BOOLEAN]
  <2>1. /\ ReplaceTask
        /\ IF Kind(TxOf) \in Configs \cup {"script"} THEN CommitWhitelist ELSE UNCHANGED whitelist
    <3>1. PICK kind : kind = txs[TxOf].kind
      OBVIOUS
    <3>2. CASE kind \in Configs \cup {"script"}
      <4>1. kind # "enable"
        BY <3>2 DEF Configs
      <4>2. DasActionConfigSubAccountOrCustomScript
        BY <1>10, <3>1, <3>2, <4>1 DEF Handler, Withdrawals, Configs
      <4> QED
        BY <3>1, <3>2, <4>2 DEF Kind, DasActionConfigSubAccountOrCustomScript
    <3>3. CASE kind \in {"enable", "profit"}
      <4>1. kind \notin Configs \cup {"script"}
        BY <3>3 DEF Configs
      <4>2. ReplaceTask /\ UNCHANGED whitelist
        BY <1>10, <3>1, <3>3, <4>1 DEF Handler, Withdrawals, DasActionEnableSubAccount,
                                      DasActionCollectSubAccountProfit
      <4> QED
        BY <3>1, <4>1, <4>2 DEF Kind
    <3> QED
      BY <1>10, <3>1, <3>2, <3>3 DEF Kind, Settles
  <2>2. PICK kept : kept = [i \in 1..Len(tasks) |-> IF tasks[i].tx = TxOf THEN Deleted ELSE tasks[i]]
    OBVIOUS
  <2>3. kept \in Seq(Row \cup {Deleted}) /\ Len(kept) = Len(tasks)
    <3>1. /\ kept = [i \in 1..Len(tasks) |-> kept[i]]
          /\ \A i \in 1..Len(tasks) : kept[i] \in Row \cup {Deleted}
      BY <1>4, <2>2
    <3> QED
      BY <1>4, <3>1, SequenceIs
  <2>4. tasks' = Append(kept, row)
    BY <1>5, <2>1, <2>2 DEF ReplaceTask
  <2>5. /\ tasks' \in Seq(Row \cup {Deleted}) /\ Len(tasks') = Len(tasks) + 1
        /\ \A i \in 1..Len(tasks) : tasks'[i] = kept[i]
        /\ tasks'[Len(tasks) + 1] = row
    BY <1>4, <1>6, <1>10, <2>3, <2>4
  <2>6. \A i \in 1..Len(tasks) : tasks'[i] = IF tasks[i].tx = TxOf THEN Deleted ELSE tasks[i]
    BY <2>2, <2>5
  <2>7. ASSUME NEW i \in 1..Len(tasks') PROVE tasks'[i].tx \in 0..Len(txs)
    <3>1. i \in 1..Len(tasks) \/ i = Len(tasks) + 1
      BY <1>4, <2>5
    <3> QED
      BY <1>2, <1>4, <1>6, <1>7, <1>10, <2>5, <2>6, <3>1
  <2>8. whitelist' \subseteq [tx : Ids, type : Types, on : BOOLEAN]
    BY <1>4, <1>8, <2>1
  <2> QED
    BY <1>5, <2>1, <2>5, <2>6, <2>7, <2>8
<1>11. ASSUME TxOf # 0, Kind(TxOf) \in Withdrawals
       PROVE  /\ Len(tasks') = Len(tasks) /\ UNCHANGED whitelist
              /\ \A i \in 1..Len(tasks) :
                   tasks'[i] = IF tasks[i].tx = TxOf THEN Committed(TxOf) ELSE tasks[i]
              /\ tasks' \in Seq(Row \cup {Deleted})
              /\ \A i \in 1..Len(tasks') : tasks'[i].tx \in 0..Len(txs)
              /\ whitelist' \subseteq [tx : Ids, type : Types, on : BOOLEAN]
  <2>2. ActionCollectSubAccountChannelProfit
    BY <1>11 DEF Handler, Kind, Withdrawals, Configs
  <2>3. /\ tasks' = [i \in 1..Len(tasks) |-> IF tasks[i].tx = TxOf THEN row ELSE tasks[i]]
        /\ UNCHANGED whitelist
    BY <1>5, <2>2 DEF ActionCollectSubAccountChannelProfit
  <2>4. PICK rows : rows = tasks'
    OBVIOUS
  <2>5. /\ rows = [i \in 1..Len(tasks) |-> rows[i]]
        /\ \A i \in 1..Len(tasks) : rows[i] = IF tasks[i].tx = TxOf THEN row ELSE tasks[i]
    BY <2>3, <2>4
  <2>6. \A i \in 1..Len(tasks) : rows[i] \in Row \cup {Deleted} /\ rows[i].tx \in 0..Len(txs)
    BY <1>2, <1>4, <1>6, <1>11, <2>5
  <2>7. rows \in Seq(Row \cup {Deleted}) /\ Len(rows) = Len(tasks)
    BY <1>4, <2>5, <2>6, SequenceIs
  <2> QED
    BY <1>4, <1>5, <2>3, <2>4, <2>5, <2>6, <2>7
<1>12. /\ tasks' \in Seq(Row \cup {Deleted})
       /\ \A i \in 1..Len(tasks') : tasks'[i].tx \in 0..Len(txs)
       /\ whitelist' \subseteq [tx : Ids, type : Types, on : BOOLEAN]
  BY <1>3, <1>9, <1>10, <1>11
<1> QED
  BY <1>1, <1>2, <1>3, <1>9, <1>10, <1>11, <1>12

LEMMA HandlerTyped ==
    ASSUME ParserTyped, CellTyped, Handler, UNCHANGED main
    PROVE  CellTyped'
<1>1. /\ UNCHANGED <<txs, signing, pool, unsaved, lost, calls, history, synced, evicted>>
      /\ twice' = (twice \/ \E i \in 1..Len(tasks) :
                       tasks[i].tx = TxOf /\ tasks[i].status = "committed")
      /\ tasks' \in Seq(Row \cup {Deleted})
      /\ \A i \in 1..Len(tasks') : tasks'[i].tx \in 0..Len(txs)
      /\ whitelist' \subseteq [tx : Ids, type : Types, on : BOOLEAN]
  BY HandlerIs
<1>2. Tip' = Tip
  BY DEF Tip
<1>3. twice' \in BOOLEAN
  BY <1>1 DEF CellTyped
<1> QED
  BY <1>1, <1>2, <1>3 DEF CellTyped

LEMMA CheckIs ==
    ASSUME ParserTyped, CellTyped, doCheckTx
    PROVE  /\ UNCHANGED <<parserVars, txs, signing, pool, unsaved, whitelist, lost, calls, history,
                         synced, evicted, twice>>
           /\ Len(tasks') = Len(tasks) /\ tasks' \in Seq(Row \cup {Deleted})
           /\ \A i \in 1..Len(tasks) :
                /\ tasks'[i].tx = tasks[i].tx /\ tasks'[i].bn = tasks[i].bn
                /\ \/ tasks'[i] = tasks[i]
                   \/ tasks[i].tx \in evicted /\ tasks[i].status = "pending" /\ tasks'[i].status = "rejected"
<1> DEFINE given == {i \in RowsOf(Signed \cup {"withdraw"}, {"pending"}) : tasks[i].tx \in evicted}
<1>1. /\ tasks' = [i \in 1..Len(tasks) |->
                     IF i \in given THEN [tasks[i] EXCEPT !.status = "rejected"] ELSE tasks[i]]
      /\ UNCHANGED <<parserVars, txs, signing, pool, unsaved, whitelist, lost, calls, history,
                         synced, evicted, twice>>
  BY DEF doCheckTx, withdrawalVars
<1>2. \A i \in given : tasks[i].tx \in evicted /\ tasks[i].status = "pending" /\ i \in 1..Len(tasks)
  BY DEF RowsOf
<1>3. Len(tasks) \in Nat /\ \A i \in 1..Len(tasks) : tasks[i] \in Row \cup {Deleted}
  BY CellKnown
<1> HIDE DEF given
<1>4. ASSUME NEW i \in given
      PROVE  LET row == [tasks[i] EXCEPT !.status = "rejected"]
             IN  row \in Row /\ row.tx = tasks[i].tx /\ row.bn = tasks[i].bn /\ row.status = "rejected"
  <2>1. tasks[i] \in Row
    BY <1>2, <1>3 DEF Deleted
  <2> QED
    BY <2>1 DEF Row, Statuses
<1>5. PICK rows : rows = tasks'
  OBVIOUS
<1>6. /\ rows = [i \in 1..Len(tasks) |-> rows[i]]
      /\ \A i \in 1..Len(tasks) :
           rows[i] = IF i \in given THEN [tasks[i] EXCEPT !.status = "rejected"] ELSE tasks[i]
  BY <1>1, <1>5
<1>7. \A i \in 1..Len(tasks) : rows[i] \in Row \cup {Deleted}
  BY <1>3, <1>4, <1>6
<1>8. rows \in Seq(Row \cup {Deleted}) /\ Len(rows) = Len(tasks)
  BY <1>3, <1>6, <1>7, SequenceIs
<1>9. ASSUME NEW i \in 1..Len(tasks)
      PROVE  /\ rows[i].tx = tasks[i].tx /\ rows[i].bn = tasks[i].bn
             /\ \/ rows[i] = tasks[i]
                \/ tasks[i].tx \in evicted /\ tasks[i].status = "pending" /\ rows[i].status = "rejected"
  <2>1. CASE i \in given
    BY <1>2, <1>4, <1>6, <2>1
  <2>2. CASE i \notin given
    BY <1>6, <2>2
  <2> QED
    BY <2>1, <2>2
<1> QED
  BY <1>1, <1>5, <1>8, <1>9

\* What the other steps leave alone.
LEMMA OthersTyped ==
    ASSUME ParserTyped, CellTyped
    PROVE  /\ doCheckTx => CellTyped'
           /\ (\E t \in Ids : doActionNormal(t) \/ LoseRow(t) \/ Evict(t)) => CellTyped'
           /\ Sync \/ CallSteps => CellTyped'
           /\ UNCHANGED <<main, cellVars>> => CellTyped'
<1>1. ASSUME doCheckTx PROVE CellTyped'
  <2>1. /\ UNCHANGED <<parserVars, txs, signing, pool, unsaved, whitelist, lost, calls, history,
                         synced, evicted, twice>>
        /\ Len(tasks') = Len(tasks) /\ tasks' \in Seq(Row \cup {Deleted})
        /\ \A i \in 1..Len(tasks) : tasks'[i].tx = tasks[i].tx
    BY <1>1, CheckIs
  <2>2. UNCHANGED main /\ Tip' = Tip
    BY <2>1 DEF parserVars, Tip
  <2>3. \A i \in 1..Len(tasks') : tasks'[i].tx \in 0..Len(txs)
    BY <2>1, CellKnown
  <2> QED
    BY <2>1, <2>2, <2>3 DEF CellTyped
<1>2. ASSUME NEW t \in Ids, doActionNormal(t) PROVE CellTyped'
  <2>1. /\ t \in signing /\ pool' = pool \cup {t} /\ unsaved' = unsaved \cup {t} /\ signing' = signing \ {t}
        /\ UNCHANGED <<main, txs, tasks, whitelist, lost, calls, history, synced, evicted, twice>> /\ Tip' = Tip
    BY <1>2 DEF doActionNormal, parserVars, withdrawalVars, Tip
  <2>2. signing' \cup pool' \cup unsaved' \cup lost' \cup evicted' \subseteq 1..Len(txs')
    BY <2>1 DEF CellTyped
  <2> QED
    BY <2>1, <2>2 DEF CellTyped
<1>3. ASSUME NEW t \in Ids, Evict(t) PROVE CellTyped'
  <2>1. /\ t \in pool /\ pool' = pool \ {t} /\ evicted' = evicted \cup {t}
        /\ UNCHANGED <<main, txs, signing, unsaved, tasks, whitelist, lost, calls, history, synced, twice>>
        /\ Tip' = Tip
    BY <1>3 DEF Evict, withdrawalVars, Tip
  <2>2. signing' \cup pool' \cup unsaved' \cup lost' \cup evicted' \subseteq 1..Len(txs')
    BY <2>1 DEF CellTyped
  <2> QED
    BY <2>1, <2>2 DEF CellTyped
<1>4. ASSUME Sync PROVE CellTyped'
  <2>1. /\ LiveCell # 0 /\ synced' = NumberOf(LiveCell)
        /\ UNCHANGED <<main, txs, signing, pool, unsaved, tasks, whitelist, lost, history, evicted, twice>>
        /\ Tip' = Tip /\ calls' \in [1..MaxCalls -> Call]
    BY <1>4, StatementsMoveTyped DEF Sync, parserVars, Tip
  <2>2. Tip \in Nat
    BY ChainKnown
  <2>3. \E n \in 1..Tip : main[n].tx = LiveCell
    <3>1. PICK n \in 0..Tip : LiveCell = IF n = 0 THEN 0 ELSE main[n].tx
      BY LiveCellIs
    <3>2. n # 0
      BY <2>1, <3>1
    <3> QED
      BY <2>2, <3>1, <3>2
  <2>4. NumberOf(LiveCell) \in 0..Tip
    <3>1. PICK n : n = CHOOSE k \in 1..Tip : main[k].tx = LiveCell
      OBVIOUS
    <3>2. n \in 1..Tip
      BY <2>3, <3>1
    <3> QED
      BY <2>2, <3>1, <3>2 DEF NumberOf
  <2> QED
    BY <2>1, <2>4 DEF CellTyped
<1>5. ASSUME UNCHANGED <<main, cellVars>> PROVE CellTyped'
  <2>1. /\ UNCHANGED <<main, txs, signing, pool, unsaved, tasks, whitelist, lost, calls, history>>
        /\ UNCHANGED <<synced, evicted, twice>> /\ Tip' = Tip
    BY <1>5 DEF cellVars, withdrawalVars, Tip
  <2> QED
    BY <2>1 DEF CellTyped
<1>6. ASSUME NEW t \in Ids, LoseRow(t) PROVE CellTyped'
  <2>1. /\ t \in unsaved /\ unsaved' = unsaved \ {t} /\ lost' = lost \cup {t}
        /\ UNCHANGED <<main, txs, signing, pool, tasks, whitelist, calls, history, synced, evicted, twice>>
        /\ Tip' = Tip
    BY <1>6 DEF LoseRow, Tip
  <2>2. signing' \cup pool' \cup unsaved' \cup lost' \cup evicted' \subseteq 1..Len(txs')
    BY <2>1 DEF CellTyped
  <2> QED
    BY <2>1, <2>2 DEF CellTyped
<1>7. ASSUME CallSteps PROVE CellTyped'
  <2>1. /\ UNCHANGED <<main, txs, signing, pool, unsaved, tasks, whitelist, lost, history, synced, evicted, twice>>
        /\ Tip' = Tip /\ calls' \in [1..MaxCalls -> Call]
    BY <1>7, CallStepIs DEF parserVars, Tip
  <2> QED
    BY <2>1 DEF CellTyped
<1> QED
  BY <1>1, <1>2, <1>3, <1>4, <1>5, <1>6, <1>7

LEMMA NextIs ==
    Next <=> \/ doSubAccountInit \/ doPriceRuleUpdate \/ doPreservedRuleUpdate
             \/ doConfigAutoMintUpdate \/ doCustomScript
             \/ Sending \/ CallSteps
             \/ \E t \in Ids : \/ doActionNormal(t) \/ CreateTask(t) \/ LoseRow(t)
                               \/ Evict(t) \/ MineTx(t)
             \/ Update \/ doCheckTx \/ MineOther \/ ForkAll \/ Sync
             \/ HandleBlock \/ HandleAgain \/ ParserFault
<1>1. (\E c \in 1..MaxCalls : Withdraw(c))
        <=> (\E c \in 1..MaxCalls : SendWithdrawal(c)) \/ CallSteps
  BY DEF Withdraw, CallSteps
<1> QED
  BY <1>1 DEF Next, Sending

LEMMA NextTyped ==
    ASSUME ParserTyped, CellTyped, [Next]_vars
    PROVE  ParserTyped' /\ CellTyped'
<1>1. CASE \/ doSubAccountInit \/ doPriceRuleUpdate \/ doPreservedRuleUpdate
           \/ doConfigAutoMintUpdate \/ doCustomScript
  <2>1. UNCHANGED parserVars
    BY <1>1, BuildIs DEF buildTx
  <2> QED
    BY <1>1, <2>1, BuildTyped, ParserWaits
<1>2. CASE Sending
  <2>1. UNCHANGED parserVars
    BY <1>2, SendIs
  <2> QED
    BY <1>2, <2>1, SendTyped, ParserWaits
<1>3. ASSUME NEW t \in Ids, doActionNormal(t) \/ CreateTask(t) \/ LoseRow(t) \/ Evict(t) \/ MineTx(t)
      PROVE  ParserTyped' /\ CellTyped'
  <2>1. CASE doActionNormal(t)
    <3>1. UNCHANGED parserVars
      BY <2>1 DEF doActionNormal
    <3> QED
      BY <2>1, <3>1, OthersTyped, ParserWaits
  <2>2. CASE CreateTask(t)
    <3>1. UNCHANGED parserVars
      BY <2>2 DEF CreateTask
    <3> QED
      BY <2>2, <3>1, CreateTyped, ParserWaits
  <2>3. CASE LoseRow(t) \/ Evict(t)
    <3>1. UNCHANGED <<main, salt, parser, stored>> /\ Trouble
      BY <2>3 DEF LoseRow, Evict
    <3>2. faults' \in 0..MaxFaults /\ faults \in Nat /\ faults' = faults + 1
      BY <3>1, ChainKnown, ParserBounds DEF Trouble
    <3>3. salt' \in 0..faults'
      BY <3>1, <3>2 DEF ParserTyped
    <3>4. ParserTyped'
      BY <3>1, <3>2, <3>3 DEF ParserTyped, Tip
    <3> QED
      BY <2>3, <3>4, OthersTyped
  <2>4. CASE MineTx(t)
    BY <2>4, MineTxTyped
  <2> QED
    BY <1>3, <2>1, <2>2, <2>3, <2>4
<1>4. CASE Update
  BY <1>4, UpdateTyped
<1>5. CASE doCheckTx
  <2>1. UNCHANGED parserVars
    BY <1>5 DEF doCheckTx
  <2> QED
    BY <1>5, <2>1, OthersTyped, ParserWaits
<1>6. CASE MineOther
  BY <1>6, MineOtherTyped
<1>7. CASE ForkAll
  BY <1>7, ForkAllTyped
<1>8. CASE Sync
  <2>1. UNCHANGED parserVars
    BY <1>8 DEF Sync
  <2> QED
    BY <1>8, <2>1, OthersTyped, ParserWaits
<1>9. CASE HandleBlock
  <2>1. CASE Handling
    <3>1. ParserTyped' /\ UNCHANGED main /\ Handler
      BY <1>9, <2>1, HandledTyped DEF HandleBlock
    <3> QED
      BY <3>1, HandlerTyped
  <2>2. CASE ~Handling
    <3>1. ParserTyped' /\ UNCHANGED <<main, cellVars>>
      BY <1>9, <2>2, SteppedTyped DEF HandleBlock
    <3> QED
      BY <3>1, OthersTyped
  <2> QED
    BY <2>1, <2>2
<1>10. CASE HandleAgain
  <2>1. ParserTyped' /\ UNCHANGED main /\ Handler
    BY <1>10, BrokenTyped DEF HandleAgain, BrokenOff
  <2> QED
    BY <2>1, HandlerTyped
<1>11. CASE ParserFault
  <2>1. ParserTyped' /\ UNCHANGED <<main, cellVars>>
    BY <1>11, BrokenTyped DEF ParserFault
  <2> QED
    BY <2>1, OthersTyped
<1>12. CASE UNCHANGED vars
  <2>1. UNCHANGED parserVars /\ UNCHANGED <<main, cellVars>>
    BY <1>12 DEF vars, parserVars
  <2> QED
    BY <2>1, OthersTyped, ParserWaits
<1>13. CASE CallSteps
  <2>1. UNCHANGED parserVars
    BY <1>13, CallStepIs
  <2> QED
    BY <1>13, <2>1, OthersTyped, ParserWaits
<1> QED
  BY <1>1, <1>2, <1>3, <1>4, <1>5, <1>6, <1>7, <1>8, <1>9, <1>10, <1>11, <1>12, <1>13, NextIs

LEMMA InitTyped == Init => ParserTyped /\ CellTyped
<1> SUFFICES ASSUME Init PROVE ParserTyped /\ CellTyped
  OBVIOUS
<1>1. /\ signing = {} /\ pool = {} /\ unsaved = {} /\ lost = {} /\ calls = [c \in 1..MaxCalls |-> Idle]
      /\ tasks = <<>> /\ whitelist = {} /\ history = <<>> /\ evicted = {} /\ twice = FALSE
  BY DEF Init
<1>2. MaxTx \in Nat \ {0} /\ Start \in Nat \ {0} /\ FirstTip \in Nat /\ Start <= FirstTip
  BY CellAssumption, ParserBounds
<1>2a. /\ tasks \in Seq(Row \cup {Deleted}) /\ \A i \in 1..Len(tasks) : tasks[i].tx \in 0..Len(txs)
      /\ history \in Seq(Ids)
      /\ signing \cup pool \cup unsaved \cup lost \cup evicted \subseteq 1..Len(txs)
      /\ whitelist \subseteq [tx : Ids, type : Types, on : BOOLEAN] /\ twice \in BOOLEAN
      /\ calls \in [1..MaxCalls -> Call]
  <2>1. 1..Len(tasks) = {} /\ tasks \in Seq(Row \cup {Deleted}) /\ history \in Seq(Ids)
    BY <1>1
  <2>2. twice \in BOOLEAN /\ whitelist \subseteq [tx : Ids, type : Types, on : BOOLEAN]
    BY <1>1
  <2>3. signing \cup pool \cup unsaved \cup lost \cup evicted \subseteq 1..Len(txs)
    BY <1>1
  <2>4. calls \in [1..MaxCalls -> Call]
    BY <1>1 DEF Call, Idle, Withdrawals
  <2> QED
    BY <2>1, <2>2, <2>3, <2>4
<1>3. CASE ParserInit(0) /\ txs = <<>> /\ synced = 0
  <2>1. ParserTyped /\ Tip = FirstTip /\ \A n \in 1..Tip : main[n].tx = 0
    BY <1>3, ParserStarts DEF ParserInv
  <2>2. txs \in Seq(Tx) /\ Len(txs) = 0
    BY <1>3
  <2>3. synced \in 0..Tip
    BY <1>2, <1>3, <2>1
  <2>4. /\ Len(txs) <= MaxTx /\ 1..Len(txs) = {} /\ \A n \in 1..Tip : main[n].tx \in 0..Len(txs)
    BY <1>2, <2>1, <2>2
  <2> QED
    BY <1>2a, <2>1, <2>2, <2>3, <2>4 DEF CellTyped
<1>4. CASE ParserInit(1) /\ txs = <<Enable>> /\ synced = Start
  <2>1. ParserTyped /\ Tip = FirstTip /\ \A n \in 1..Tip : main[n].tx \in {0, 1}
    BY <1>4, ParserStarts DEF ParserInv
  <2>2. NoLists \in Lists /\ \A type \in Types : NoLists[type] = 0
    BY <1>2 DEF NoLists, Lists
  <2>3. /\ Enable \in Tx /\ Enable.from = 0
        /\ \A type \in Types : Enable.rules[type] = 0 /\ Enable.hash[type] = 0
    BY <1>2, <2>2 DEF Enable, Tx, Kinds, Signed
  <2>4. txs \in Seq(Tx) /\ Len(txs) = 1 /\ txs[1] = Enable
    BY <1>4, <2>3
  <2>5. ASSUME NEW t \in 1..Len(txs)
        PROVE  txs[t].from < t /\ \A type \in Types : {txs[t].rules[type], txs[t].hash[type]} \subseteq 0..t
    <3>1. t = 1 /\ txs[t] = Enable
      BY <2>4
    <3> QED
      BY <2>3, <3>1
  <2>6. synced \in 0..Tip
    BY <1>2, <1>4, <2>1
  <2>7. Len(txs) <= MaxTx
    BY <1>2, <2>4
  <2>8. \A n \in 1..Tip : main[n].tx \in 0..Len(txs)
    BY <2>1, <2>4
  <2> QED
    BY <1>2a, <2>1, <2>4, <2>5, <2>6, <2>7, <2>8 DEF CellTyped
<1> QED
  BY <1>3, <1>4 DEF Init

\* TypeOK: transactions, rows, white list and what the parser keeps have their
\* types, for every number of transactions, forks and faults.
THEOREM CellIsTyped == Spec => []TypeOK
<1>1. ParserTyped /\ CellTyped /\ [Next]_vars => (ParserTyped /\ CellTyped)'
  BY NextTyped
<1>2. ParserTyped /\ CellTyped => TypeOK
  <2> SUFFICES ASSUME ParserTyped, CellTyped PROVE TypeOK
    OBVIOUS
  <2>1. ParserTypeOK
    BY ParserTypes
  <2> QED
    BY <2>1 DEF TypeOK, CellTyped
<1> QED
  BY InitTyped, <1>1, <1>2, PTL DEF Spec

-----------------------------------------------------------------------------
(* Where the transactions are *)

LEMMA PoolEmpty ==
    ASSUME Placed, Accepted(LiveCell)
    PROVE  pool = {}
BY DEF Placed, SpendsLive, Accepted

\* A transaction that has just been built is nowhere.
LEMMA NewIdIsNew ==
    ASSUME ParserTyped, CellTyped
    PROVE  /\ NewId \notin OnChain \cup signing \cup pool \cup unsaved \cup evicted
           /\ \A i \in 1..Len(tasks) : tasks[i].tx # NewId
           /\ NewId # 0 /\ NewId \in Nat /\ NewId = Len(txs) + 1
<1>1. Len(txs) \in Nat /\ OnChain \subseteq 1..Len(txs)
  BY CellKnown
<1>2. signing \cup pool \cup unsaved \cup evicted \subseteq 1..Len(txs)
  BY DEF CellTyped
<1>3. \A i \in 1..Len(tasks) : tasks[i].tx \in 0..Len(txs)
  BY DEF CellTyped
<1>4. NewId \notin 0..Len(txs) /\ NewId \notin 1..Len(txs) /\ NewId # 0 /\ NewId \in Nat /\ NewId = Len(txs) + 1
  BY <1>1 DEF NewId
<1> QED
  BY <1>1, <1>2, <1>3, <1>4

LEMMA PlacedWaits ==
    ASSUME CellTyped, Placed, UNCHANGED <<main, pool, evicted>>, signing' \subseteq signing,
           \A t \in 1..Len(txs) : txs'[t] = txs[t]
    PROVE  Placed'
<1>1. /\ OnChain' = OnChain /\ LiveCell' = LiveCell /\ Unique'
  BY ChainWaits DEF Placed
<1>2. Apart'
  BY <1>1 DEF Placed, Apart
<1>3. signing \cup pool \subseteq 1..Len(txs)
  BY DEF CellTyped
<1>4. SpendsLive'
  BY <1>1, <1>3 DEF Placed, SpendsLive
<1> QED
  BY <1>1, <1>2, <1>4 DEF Placed

LEMMA PlacedMoves ==
    ASSUME Placed, Unique', OnChain' = OnChain, LiveCell' = LiveCell,
           UNCHANGED <<txs, signing, pool, evicted>>
    PROVE  Placed'
BY DEF Placed, Apart, SpendsLive

LEMMA NextPlaced ==
    ASSUME ParserTyped, CellTyped, Placed, [Next]_vars
    PROVE  Placed'
<1>1. CASE \/ doSubAccountInit \/ doPriceRuleUpdate \/ doPreservedRuleUpdate
           \/ doConfigAutoMintUpdate \/ doCustomScript
  <2>1. PICK kind \in Signed, named \in BOOLEAN, rules \in Fresh, hash \in Fresh :
          buildTx(kind, named, rules, hash)
    BY <1>1, BuildIs
  <2>2. /\ NewTx(kind, named, rules, hash, {}) /\ signing' = signing \cup {NewId}
        /\ UNCHANGED <<main, pool, evicted>>
    BY <2>1 DEF buildTx, parserVars
  <2>3. kind \in Kinds /\ {} \in SUBSET Ids
    BY DEF Kinds
  <2>4. (\A t \in 1..Len(txs) : txs'[t] = txs[t]) /\ txs'[NewId].from = LiveCell
    BY <2>2, <2>3, NewTxIs
  <2>5. OnChain' = OnChain /\ LiveCell' = LiveCell /\ Unique'
    BY <2>2, ChainWaits DEF Placed
  <2>6. NewId \notin OnChain \cup signing \cup pool \cup evicted
    BY NewIdIsNew
  <2>7. Apart'
    BY <2>2, <2>5, <2>6 DEF Placed, Apart
  <2>8. signing \cup pool \subseteq 1..Len(txs)
    BY DEF CellTyped
  <2>9. SpendsLive'
    BY <2>2, <2>4, <2>5, <2>8 DEF Placed, SpendsLive
  <2> QED
    BY <2>5, <2>7, <2>9 DEF Placed
<1>2. CASE Sending
  <2>1. PICK kind \in {"profit"} \cup Withdrawals, rules \in Fresh, pays \in SUBSET Ids :
          /\ Accepted(LiveCell)
          /\ NewTx(kind, FALSE, rules, HashOf(LiveCell), pays)
          /\ pool' = pool \cup {NewId}
          /\ UNCHANGED <<parserVars, signing, evicted>>
    BY <1>2, SendIs
  <2>2. kind \in Kinds /\ HashOf(LiveCell) \in Fresh
    BY ListsKnown DEF Kinds
  <2>3. (\A t \in 1..Len(txs) : txs'[t] = txs[t]) /\ txs'[NewId].from = LiveCell
    BY <2>1, <2>2, NewTxIs
  <2>4. OnChain' = OnChain /\ LiveCell' = LiveCell /\ Unique'
    BY <2>1, ChainWaits DEF Placed, parserVars
  <2>5. NewId \notin OnChain \cup signing \cup pool \cup evicted
    BY NewIdIsNew
  <2>6. pool' = {NewId} /\ UNCHANGED <<signing, evicted>>
    BY <2>1, PoolEmpty
  <2>7. Apart'
    BY <2>4, <2>5, <2>6 DEF Placed, Apart
  <2>8. signing \subseteq 1..Len(txs)
    BY DEF CellTyped
  <2>9. SpendsLive'
    BY <2>3, <2>4, <2>6, <2>8 DEF Placed, SpendsLive
  <2> QED
    BY <2>4, <2>7, <2>9 DEF Placed
<1>3. ASSUME NEW t \in Ids, doActionNormal(t) PROVE Placed'
  <2>1. /\ t \in signing /\ Accepted(txs[t].from) /\ pool' = pool \cup {t} /\ signing' = signing \ {t}
        /\ UNCHANGED <<main, txs, evicted>>
    BY <1>3 DEF doActionNormal, parserVars
  <2>2. OnChain' = OnChain /\ LiveCell' = LiveCell /\ Unique'
    BY <2>1, ChainWaits DEF Placed
  <2>3. pool = {}
    BY <2>1, PoolEmpty DEF Placed, SpendsLive
  <2>4. Apart'
    BY <2>1, <2>2, <2>3 DEF Placed, Apart
  <2>5. SpendsLive'
    BY <2>1, <2>2, <2>3 DEF Placed, SpendsLive
  <2> QED
    BY <2>2, <2>4, <2>5 DEF Placed
<1>4. ASSUME NEW t \in Ids, Evict(t) PROVE Placed'
  <2>1. /\ t \in pool /\ pool' = pool \ {t} /\ evicted' = evicted \cup {t}
        /\ UNCHANGED <<main, txs, signing>>
    BY <1>4 DEF Evict
  <2>2. OnChain' = OnChain /\ LiveCell' = LiveCell /\ Unique'
    BY <2>1, ChainWaits DEF Placed
  <2>3. Apart' /\ SpendsLive'
    BY <2>1, <2>2 DEF Placed, Apart, SpendsLive
  <2> QED
    BY <2>2, <2>3 DEF Placed
<1>5. ASSUME NEW t \in Ids, MineTx(t) PROVE Placed'
  <2>1. /\ t \in pool /\ Mine(t) /\ pool' = pool \ {t}
        /\ signing' = {u \in signing : txs[u].from = t}
        /\ UNCHANGED <<txs, evicted>>
    BY <1>5 DEF MineTx
  <2>2. t \in Nat \ {0} /\ t \notin OnChain
    BY <2>1, CellKnown DEF CellTyped, Placed, Apart
  <2>3. Unique' /\ OnChain' = OnChain \cup {t} /\ LiveCell' = t
    BY <2>1, <2>2, ChainGrows DEF Placed
  <2>4. pool' = {}
    BY <2>1 DEF Placed, SpendsLive
  <2>5. Apart'
    BY <2>1, <2>3, <2>4 DEF Placed, Apart
  <2>6. SpendsLive'
    BY <2>1, <2>3, <2>4 DEF SpendsLive
  <2> QED
    BY <2>3, <2>5, <2>6 DEF Placed
<1>6. CASE Update
  <2>1. /\ Accepted(LiveCell) /\ Mine(NewId) /\ signing' = {} /\ UNCHANGED <<pool, evicted>>
    BY <1>6 DEF Update
  <2>2. NewId \in Nat \ {0} /\ NewId \notin OnChain \cup evicted
    BY NewIdIsNew
  <2>3. Unique' /\ OnChain' = OnChain \cup {NewId} /\ LiveCell' = NewId
    BY <2>1, <2>2, ChainGrows DEF Placed
  <2>4. pool' = {} /\ signing' = {}
    BY <2>1, PoolEmpty
  <2>5. Apart'
    BY <2>1, <2>2, <2>3, <2>4 DEF Placed, Apart
  <2>6. SpendsLive'
    BY <2>4 DEF SpendsLive
  <2> QED
    BY <2>3, <2>5, <2>6 DEF Placed
<1>7. CASE MineOther
  <2>1. Mine(0) /\ UNCHANGED <<txs, signing, pool, evicted>>
    BY <1>7 DEF MineOther, cellVars
  <2>2. Unique' /\ OnChain' = OnChain /\ LiveCell' = LiveCell
    BY <2>1, ChainGrowsEmpty DEF Placed
  <2> QED
    BY <2>1, <2>2, PlacedMoves
<1>8. CASE ForkAll
  <2>1. Fork /\ UNCHANGED <<txs, signing, pool, evicted>>
    BY <1>8 DEF ForkAll
  <2>2. Unique' /\ OnChain' = OnChain /\ LiveCell' = LiveCell
    BY <2>1, ForkChain DEF Placed
  <2> QED
    BY <2>1, <2>2, PlacedMoves
<1>9. ASSUME UNCHANGED <<main, txs, signing, pool, evicted>> PROVE Placed'
  BY <1>9, PlacedWaits
<1>10. CASE \/ (\E t \in Ids : CreateTask(t) \/ LoseRow(t)) \/ CallSteps \/ doCheckTx \/ Sync
            \/ HandleAgain \/ ParserFault \/ UNCHANGED vars
  <2>1. UNCHANGED <<main, txs, signing, pool, evicted>>
    BY <1>10, CallStepIs DEF CreateTask, LoseRow, doCheckTx, Sync, HandleAgain, BrokenOff, Handler,
                             ParserFault, Broken, vars, parserVars, cellVars
  <2> QED
    BY <1>9, <2>1
<1>11. CASE HandleBlock
  <2>1. UNCHANGED main
    BY <1>11, HandledTyped, SteppedTyped DEF HandleBlock
  <2>2. UNCHANGED <<txs, signing, pool, evicted>>
    BY <1>11 DEF HandleBlock, Handler, cellVars
  <2> QED
    BY <1>9, <2>1, <2>2
<1> QED
  BY <1>1, <1>2, <1>3, <1>4, <1>5, <1>6, <1>7, <1>8, <1>10, <1>11, NextIs

LEMMA InitPlaced == Init => Placed
<1> SUFFICES ASSUME Init PROVE Placed
  OBVIOUS
<1>1. signing = {} /\ pool = {} /\ evicted = {}
  BY DEF Init
<1>2. Apart /\ SpendsLive
  BY <1>1 DEF Apart, SpendsLive
<1>3. PICK t \in {0, 1} : ParserInit(t)
  BY DEF Init
<1>4. Tip = FirstTip /\ \A n \in 1..FirstTip : main[n].tx = IF n = Start THEN t ELSE 0
  BY <1>3, ParserStarts
<1>5. Unique
  BY <1>4 DEF Unique
<1> QED
  BY <1>2, <1>5 DEF Placed

-----------------------------------------------------------------------------
(* Rules *)

\* Which steps build a transaction.
LEMMA TxsWait ==
    ASSUME ParserTyped, CellTyped, [Next]_vars
    PROVE  \/ doSubAccountInit \/ doPriceRuleUpdate \/ doPreservedRuleUpdate
           \/ doConfigAutoMintUpdate \/ doCustomScript
           \/ Sending \/ Update
           \/ UNCHANGED txs
BY NextIs, CallStepIs
   DEF doActionNormal, CreateTask, LoseRow, Evict, MineTx, doCheckTx, MineOther, ForkAll, Sync,
       HandleBlock, HandleAgain, ParserFault, Handler, vars, cellVars

HashIn(all, t) == IF t = 0 THEN NoLists ELSE all[t].hash
LEMMA RulesWith ==
    ASSUME ParserTyped, CellTyped, RulesKept,
           NEW kind \in Kinds, NEW named \in BOOLEAN, NEW rules \in Fresh, NEW hash \in Fresh,
           NEW pays \in SUBSET Ids, NewTx(kind, named, rules, hash, pays),
           \A type \in Types :
               /\ rules[type] \in {0, hash[type]}
               /\ hash[type] \in {0, NewId, HashOf(LiveCell)[type]}
               /\ kind = SetBy(type) => rules[type] = NewId
               /\ hash[type] = NewId => kind = SetBy(type)
    PROVE  RulesKept'
<1>1. /\ NewId = Len(txs) + 1 /\ Len(txs') = NewId
      /\ \A t \in 1..Len(txs) : txs'[t] = txs[t]
      /\ txs'[NewId].kind = kind /\ txs'[NewId].from = LiveCell
      /\ txs'[NewId].rules = rules /\ txs'[NewId].hash = hash
  BY NewTxIs
<1>2. Len(txs) \in Nat /\ LiveCell \in 0..Len(txs)
  BY CellKnown
<1>3. ASSUME NEW t \in 0..Len(txs) PROVE HashIn(txs', t) = HashOf(t)
  <2>1. t # 0 => t \in 1..Len(txs)
    BY <1>2
  <2> QED
    BY <1>1, <2>1 DEF HashOf, HashIn
<1>4. ASSUME NEW t \in 1..Len(txs), NEW type \in Types
      PROVE  /\ txs'[t].rules[type] \in {0, txs'[t].hash[type]}
             /\ txs'[t].hash[type] \in {0, t, HashIn(txs', txs'[t].from)[type]}
             /\ txs'[t].kind = SetBy(type) => txs'[t].rules[type] = t
             /\ txs'[t].hash[type] = t => txs'[t].kind = SetBy(type)
  <2>1. txs'[t] = txs[t]
    BY <1>1
  <2>2. PICK from : from = txs[t].from
    OBVIOUS
  <2>3. from \in 0..Len(txs)
    <3>1. txs[t] \in Tx /\ txs[t].from < t
      BY CellKnown DEF CellTyped
    <3>2. from \in 0..MaxTx /\ MaxTx \in Nat
      BY <2>2, <3>1, CellKnown DEF Tx
    <3> QED
      BY <1>2, <2>2, <3>1, <3>2
  <2>4. HashIn(txs', from) = HashOf(from)
    BY <1>3, <2>3
  <2>5. HashIn(txs', txs'[t].from) = HashOf(from)
    BY <2>1, <2>2, <2>4
  <2> QED
    BY <2>1, <2>2, <2>5 DEF RulesKept, Kind
<1>6. ASSUME NEW type \in Types
      PROVE  /\ txs'[NewId].rules[type] \in {0, txs'[NewId].hash[type]}
             /\ txs'[NewId].hash[type] \in {0, NewId, HashIn(txs', txs'[NewId].from)[type]}
             /\ txs'[NewId].kind = SetBy(type) => txs'[NewId].rules[type] = NewId
             /\ txs'[NewId].hash[type] = NewId => txs'[NewId].kind = SetBy(type)
  <2>1. PICK from : from = LiveCell
    OBVIOUS
  <2>2. HashIn(txs', from) = HashOf(from)
    BY <1>2, <1>3, <2>1
  <2>3. HashIn(txs', txs'[NewId].from) = HashOf(LiveCell)
    BY <1>1, <2>1, <2>2
  <2> QED
    BY <1>1, <2>3
<1>7. \A t \in 1..Len(txs') : t \in 1..Len(txs) \/ t = NewId
  BY <1>1, <1>2
<1> QED
  BY <1>4, <1>6, <1>7 DEF RulesKept, Kind, HashOf, HashIn, NoLists

LEMMA NextRules ==
    ASSUME ParserTyped, CellTyped, RulesKept, [Next]_vars
    PROVE  RulesKept'
<1>1. ASSUME NEW type \in Types
      PROVE  /\ RulesOf(LiveCell)[type] \in {0, HashOf(LiveCell)[type]}
             /\ HashOf(LiveCell)[type] # NewId /\ RulesOf(LiveCell)[type] # NewId /\ NewId # 0
  <2>1. /\ RulesOf(LiveCell)[type] \in 0..Len(txs) /\ HashOf(LiveCell)[type] \in 0..Len(txs)
        /\ LiveCell \in 0..Len(txs) /\ Len(txs) \in Nat /\ NewId = Len(txs) + 1
    BY ListsKnown, CellKnown, NewIdIsNew
  <2>2. LiveCell # 0 => LiveCell \in 1..Len(txs)
    BY <2>1
  <2>3. RulesOf(LiveCell)[type] \in {0, HashOf(LiveCell)[type]}
    BY <2>2 DEF RulesKept, RulesOf, HashOf
  <2> QED
    BY <2>1, <2>3
<1>2. \A type \in Types : SetBy(type) \notin {"profit", "withdraw", "withdraw2", "update"}
  BY DEF SetBy
<1>3. CASE \/ doSubAccountInit \/ doPriceRuleUpdate \/ doPreservedRuleUpdate
           \/ doConfigAutoMintUpdate \/ doCustomScript
  <2>1. PICK kind \in Signed, named \in BOOLEAN, rules \in Fresh, hash \in Fresh :
          /\ buildTx(kind, named, rules, hash)
          /\ \A type \in Types :
               IF kind = SetBy(type) THEN rules[type] = NewId /\ hash[type] = NewId
               ELSE /\ rules[type] \in {0, hash[type]}
                    /\ hash[type] \in {0, RulesOf(LiveCell)[type], HashOf(LiveCell)[type]}
    BY <1>3, BuildIs
  <2>2. NewTx(kind, named, rules, hash, {}) /\ kind \in Kinds /\ {} \in SUBSET Ids
    BY <2>1 DEF buildTx, Kinds
  <2>3. ASSUME NEW type \in Types
        PROVE  /\ rules[type] \in {0, hash[type]}
               /\ hash[type] \in {0, NewId, HashOf(LiveCell)[type]}
               /\ kind = SetBy(type) => rules[type] = NewId
               /\ hash[type] = NewId => kind = SetBy(type)
    <3>1. CASE kind = SetBy(type)
      BY <2>1, <3>1
    <3>2. CASE kind # SetBy(type)
      BY <1>1, <2>1, <3>2
    <3> QED
      BY <3>1, <3>2
  <2> QED
    BY <2>2, <2>3, RulesWith
<1>4. CASE Sending
  <2>1. PICK kind \in {"profit"} \cup Withdrawals, rules \in Fresh, pays \in SUBSET Ids :
          /\ NewTx(kind, FALSE, rules, HashOf(LiveCell), pays)
          /\ \A type \in Types : rules[type] \in {0, RulesOf(LiveCell)[type]}
    BY <1>4, SendIs
  <2>2. kind \in Kinds /\ HashOf(LiveCell) \in Fresh
    BY ListsKnown DEF Kinds
  <2>3. \A type \in Types : kind # SetBy(type)
    BY <1>2 DEF Withdrawals
  <2>4. PICK hash \in Fresh : hash = HashOf(LiveCell)
    BY <2>2
  <2>5. ASSUME NEW type \in Types
        PROVE  /\ rules[type] \in {0, hash[type]}
               /\ hash[type] \in {0, NewId, HashOf(LiveCell)[type]}
               /\ kind = SetBy(type) => rules[type] = NewId
               /\ hash[type] = NewId => kind = SetBy(type)
    BY <1>1, <2>1, <2>3, <2>4
  <2>6. NewTx(kind, FALSE, rules, hash, pays)
    BY <2>1, <2>4
  <2> QED
    BY <2>2, <2>5, <2>6, RulesWith
<1>5. CASE Update
  <2>1. NewTx("update", FALSE, HashOf(LiveCell), HashOf(LiveCell), {})
    BY <1>5 DEF Update
  <2>2. "update" \in Kinds /\ HashOf(LiveCell) \in Fresh /\ {} \in SUBSET Ids
    BY ListsKnown DEF Kinds
  <2>3. PICK hash \in Fresh : hash = HashOf(LiveCell)
    BY <2>2
  <2>4. PICK kind \in Kinds : kind = "update"
    BY <2>2
  <2>5. ASSUME NEW type \in Types
        PROVE  /\ hash[type] \in {0, hash[type]}
               /\ hash[type] \in {0, NewId, HashOf(LiveCell)[type]}
               /\ kind = SetBy(type) => hash[type] = NewId
               /\ hash[type] = NewId => kind = SetBy(type)
    BY <1>1, <1>2, <2>3, <2>4
  <2>6. NewTx(kind, FALSE, hash, hash, {})
    BY <2>1, <2>3, <2>4
  <2> QED
    BY <2>2, <2>5, <2>6, RulesWith
<1>6. CASE UNCHANGED txs
  BY <1>6 DEF RulesKept, HashOf, NoLists, Kind
<1> QED
  BY <1>3, <1>4, <1>5, <1>6, TxsWait

LEMMA InitRules == Init => RulesKept
<1> SUFFICES ASSUME Init PROVE RulesKept
  OBVIOUS
<1>1. CASE txs = <<>>
  <2>1. 1..Len(txs) = {}
    BY <1>1
  <2> QED
    BY <2>1 DEF RulesKept
<1>2. CASE txs = <<Enable>>
  <2>1. \A t \in 1..Len(txs) : txs[t] = Enable /\ t = 1
    BY <1>2
  <2>2. /\ Enable.kind = "enable" /\ Enable.from = 0
        /\ Enable.rules = NoLists /\ Enable.hash = NoLists
    BY DEF Enable
  <2>3. \A type \in Types : NoLists[type] = 0 /\ SetBy(type) # "enable"
    BY DEF NoLists, SetBy
  <2> QED
    BY <2>1, <2>2, <2>3 DEF RulesKept, Kind
<1> QED
  BY <1>1, <1>2 DEF Init

\* [stale rules] NoRuleRevived: a transaction on the chain or in the pool of the
\* node has in its cell, for either type, the rule list it sets itself, that of
\* the cell it spends, or none; whichever of the seven requests built it.
THEOREM NoRuleReturns == Spec => []NoRuleRevived
<1>1. ParserTyped /\ CellTyped /\ RulesKept /\ [Next]_vars => (ParserTyped /\ CellTyped /\ RulesKept)'
  BY NextTyped, NextRules
<1>2. ParserTyped /\ CellTyped /\ RulesKept => NoRuleRevived
  <2> SUFFICES ASSUME ParserTyped, CellTyped, RulesKept,
                      NEW t \in Mined(main) \cup pool, txs[t].from # 0, NEW type \in Types
               PROVE  txs[t].hash[type] \in {0, t, txs[txs[t].from].hash[type]}
    BY DEF NoRuleRevived
  <2>1. t \in 1..Len(txs)
    BY CellKnown DEF CellTyped, OnChain
  <2>2. txs[t].hash[type] \in {0, t, HashOf(txs[t].from)[type]}
    BY <2>1 DEF RulesKept
  <2> QED
    BY <2>2 DEF HashOf
<1> QED
  BY InitTyped, InitRules, <1>1, <1>2, PTL DEF Spec

-----------------------------------------------------------------------------
(* The rows of t_task_info *)

\* Transactions already built stay as they are.
LEMMA TxsStay ==
    ASSUME ParserTyped, CellTyped, [Next]_vars
    PROVE  /\ \A t \in 1..Len(txs) : txs'[t] = txs[t]
           /\ 1..Len(txs) \subseteq 1..Len(txs')
<1>1. CASE \/ doSubAccountInit \/ doPriceRuleUpdate \/ doPreservedRuleUpdate
           \/ doConfigAutoMintUpdate \/ doCustomScript
  <2>1. PICK kind \in Signed, named \in BOOLEAN, rules \in Fresh, hash \in Fresh :
          buildTx(kind, named, rules, hash)
    BY <1>1, BuildIs
  <2>2. NewTx(kind, named, rules, hash, {}) /\ kind \in Kinds /\ {} \in SUBSET Ids
    BY <2>1 DEF buildTx, Kinds
  <2> QED
    BY <2>2, NewTxIs
<1>2. CASE Sending
  <2>1. PICK kind \in {"profit"} \cup Withdrawals, rules \in Fresh, pays \in SUBSET Ids :
          NewTx(kind, FALSE, rules, HashOf(LiveCell), pays)
    BY <1>2, SendIs
  <2>2. kind \in Kinds /\ HashOf(LiveCell) \in Fresh
    BY ListsKnown DEF Kinds
  <2> QED
    BY <2>1, <2>2, NewTxIs
<1>3. CASE Update
  <2>1. NewTx("update", FALSE, HashOf(LiveCell), HashOf(LiveCell), {})
    BY <1>3 DEF Update
  <2>2. "update" \in Kinds /\ HashOf(LiveCell) \in Fresh /\ {} \in SUBSET Ids
    BY ListsKnown DEF Kinds
  <2> QED
    BY <2>1, <2>2, NewTxIs
<1>4. CASE UNCHANGED txs
  BY <1>4
<1> QED
  BY <1>1, <1>2, <1>3, <1>4, TxsWait

LEMMA LostStay ==
    ASSUME ParserTyped, CellTyped, [Next]_vars
    PROVE  lost \subseteq lost'
<1>1. CASE \/ doSubAccountInit \/ doPriceRuleUpdate \/ doPreservedRuleUpdate
           \/ doConfigAutoMintUpdate \/ doCustomScript
  BY <1>1, BuildIs DEF buildTx, withdrawalVars
<1>2. CASE Sending \/ CallSteps
  BY <1>2, SendIs, CallStepIs
<1>3. CASE \/ \E t \in Ids : doActionNormal(t) \/ CreateTask(t) \/ LoseRow(t) \/ Evict(t) \/ MineTx(t)
           \/ Update \/ doCheckTx \/ MineOther \/ ForkAll \/ Sync
           \/ HandleBlock \/ HandleAgain \/ ParserFault \/ UNCHANGED vars
  BY <1>3 DEF doActionNormal, CreateTask, LoseRow, Evict, MineTx, Update, doCheckTx, MineOther, ForkAll,
              Sync, HandleBlock, HandleAgain, ParserFault, Handler, vars, cellVars, withdrawalVars
<1> QED
  BY <1>1, <1>2, <1>3, NextIs

\* A row is inserted for a transaction that has none.
LEMMA RowsInserted ==
    ASSUME ParserTyped, CellTyped, Saved, RowsKept, NEW t \in Nat \ {0},
           t \in OnChain' \cup pool' \cup evicted', t \notin unsaved',
           tasks' = Append(tasks, [tx |-> t, status |-> "pending", bn |-> 0]),
           \A i \in 1..Len(tasks) : tasks[i].tx # t,
           OnChain' = OnChain, UNCHANGED <<lost, evicted>>,
           pool \subseteq pool', pool' \subseteq pool \cup {t},
           unsaved' \subseteq unsaved, unsaved \subseteq unsaved' \cup {t},
           \A u \in 1..Len(txs) : txs'[u] = txs[u]
    PROVE  RowsKept'
<1>1. PICK row : row = [tx |-> t, status |-> "pending", bn |-> 0]
  OBVIOUS
<1>2. row.tx = t /\ row.status = "pending"
  BY <1>1
<1>3. /\ Len(tasks) \in Nat /\ Len(tasks') = Len(tasks) + 1
      /\ \A i \in 1..Len(tasks) : tasks'[i] = tasks[i]
      /\ tasks'[Len(tasks) + 1] = row
  BY <1>1, CellKnown DEF CellTyped
<1>4. \A i \in 1..Len(tasks') : i \in 1..Len(tasks) \/ i = Len(tasks) + 1
  BY <1>3
<1>5. unsaved' \subseteq pool'
  BY DEF RowsKept
<1>6. ASSUME NEW i \in 1..Len(tasks'), tasks'[i].tx # 0
      PROVE  /\ tasks'[i].tx \in OnChain' \cup pool' \cup evicted' /\ tasks'[i].tx \notin unsaved'
             /\ tasks'[i].status = "committed" => tasks'[i].tx \in OnChain'
             /\ tasks'[i].status = "rejected" => tasks'[i].tx \in evicted'
  BY <1>2, <1>3, <1>4, <1>6 DEF RowsKept
<1>7. ASSUME NEW i \in 1..Len(tasks'), NEW j \in 1..Len(tasks'), tasks'[i].tx # 0, tasks'[i].tx = tasks'[j].tx
      PROVE  i = j
  BY <1>2, <1>3, <1>4, <1>7 DEF RowsKept
<1>8. ASSUME NEW u \in (OnChain' \cup pool') \ (unsaved' \cup lost'), txs'[u].kind \notin {"update", "enable"}
      PROVE  \E i \in 1..Len(tasks') : tasks'[i].tx = u
  <2>1. CASE u = t
    <3>1. Len(tasks) + 1 \in 1..Len(tasks')
      BY <1>3
    <3> QED
      BY <1>2, <1>3, <2>1, <3>1
  <2>2. CASE u # t
    <3>1. u \in (OnChain \cup pool) \ (unsaved \cup lost) /\ u \in 1..Len(txs)
      BY <1>8, <2>2, CellKnown DEF CellTyped
    <3>2. PICK i \in 1..Len(tasks) : tasks[i].tx = u
      BY <1>8, <3>1 DEF RowsKept, Kind
    <3>3. i \in 1..Len(tasks')
      BY <1>3
    <3> QED
      BY <1>3, <3>2, <3>3
  <2> QED
    BY <2>1, <2>2
<1> QED
  BY <1>5, <1>6, <1>7, <1>8 DEF RowsKept, Kind

\* Transactions move, and rows stay, but for their status.
LEMMA RowsStay ==
    ASSUME ParserTyped, CellTyped, Saved, RowsKept,
           Len(tasks') = Len(tasks),
           \A i \in 1..Len(tasks) : tasks[i].tx # 0 =>
               /\ tasks'[i].tx = tasks[i].tx
               /\ tasks'[i].status = tasks[i].status \/ (tasks'[i].status = "rejected" /\ tasks[i].tx \in evicted),
           \A i \in 1..Len(tasks) : tasks[i].tx = 0 => tasks'[i].tx = 0,
           OnChain \subseteq OnChain', OnChain \cup pool \cup evicted \subseteq OnChain' \cup pool' \cup evicted',
           evicted \subseteq evicted', unsaved' \subseteq pool',
           \A t \in unsaved' : t \in unsaved \/ \A i \in 1..Len(tasks) : tasks[i].tx # t,
           \A t \in (OnChain' \cup pool') \ (unsaved' \cup lost') :
               txs'[t].kind \in {"update", "enable"} \/ t \in (OnChain \cup pool) \ (unsaved \cup lost),
           \A t \in 1..Len(txs) : txs'[t] = txs[t]
    PROVE  RowsKept'
<1>1. Len(tasks) \in Nat
  BY CellKnown
<1>2. \A i \in 1..Len(tasks) : tasks'[i].tx = tasks[i].tx
  OBVIOUS
<1>3. ASSUME NEW i \in 1..Len(tasks'), tasks'[i].tx # 0
      PROVE  /\ tasks'[i].tx \in OnChain' \cup pool' \cup evicted' /\ tasks'[i].tx \notin unsaved'
             /\ tasks'[i].status = "committed" => tasks'[i].tx \in OnChain'
             /\ tasks'[i].status = "rejected" => tasks'[i].tx \in evicted'
  <2>1. i \in 1..Len(tasks) /\ tasks[i].tx # 0 /\ tasks'[i].tx = tasks[i].tx
    BY <1>2, <1>3
  <2>2. /\ tasks[i].tx \in OnChain \cup pool \cup evicted /\ tasks[i].tx \notin unsaved
        /\ tasks[i].status = "committed" => tasks[i].tx \in OnChain
        /\ tasks[i].status = "rejected" => tasks[i].tx \in evicted
    BY <2>1 DEF RowsKept
  <2>3. tasks'[i].tx \notin unsaved'
    BY <2>1, <2>2
  <2>4. tasks'[i].status = tasks[i].status \/ (tasks'[i].status = "rejected" /\ tasks[i].tx \in evicted)
    BY <2>1
  <2> QED
    BY <2>1, <2>2, <2>3, <2>4
<1>4. ASSUME NEW i \in 1..Len(tasks'), NEW j \in 1..Len(tasks'), tasks'[i].tx # 0, tasks'[i].tx = tasks'[j].tx
      PROVE  i = j
  BY <1>2, <1>4 DEF RowsKept
<1>5. ASSUME NEW u \in (OnChain' \cup pool') \ (unsaved' \cup lost'), txs'[u].kind \notin {"update", "enable"}
      PROVE  \E i \in 1..Len(tasks') : tasks'[i].tx = u
  <2>1. u \in (OnChain \cup pool) \ (unsaved \cup lost)
    BY <1>5
  <2>2. u \in 1..Len(txs)
    BY <2>1, CellKnown DEF CellTyped
  <2>3. PICK i \in 1..Len(tasks) : tasks[i].tx = u
    BY <1>5, <2>1, <2>2 DEF RowsKept, Kind
  <2> QED
    BY <1>2, <2>3
<1> QED
  BY <1>3, <1>4, <1>5 DEF RowsKept, Kind

LEMMA RowsHandled ==
    ASSUME ParserTyped, CellTyped, Placed, Saved, RowsKept, Handler, UNCHANGED main
    PROVE  RowsKept'
<1> USE DEF Kind
<1>1. OnChain' = OnChain /\ UNCHANGED <<txs, pool, unsaved, lost, evicted>>
  BY HandlerIs, ChainWaits
<1>2. Len(tasks) \in Nat /\ Deleted.tx = 0
  BY CellKnown DEF Deleted
<1>3. TxOf # 0 => TxOf \in OnChain /\ TxOf \notin unsaved
  <2>1. parser.current \in 1..Tip
    BY HandlerIs
  <2>2. TxOf # 0 => TxOf \in OnChain
    BY <2>1, OnChainIs DEF TxOf
  <2> QED
    BY <2>2 DEF Placed, Apart, RowsKept
<1>4. PICK row : row = Committed(TxOf)
  OBVIOUS
<1>5. row.tx = TxOf /\ row.status = "committed"
  BY <1>4 DEF Committed
<1>6. CASE TxOf = 0 \/ Kind(TxOf) = "update"
  <2>1. UNCHANGED tasks
    BY <1>6, HandlerIs
  <2> QED
    BY <1>1, <2>1 DEF RowsKept
<1>7. CASE TxOf # 0 /\ Kind(TxOf) \in Withdrawals
  <2>1. /\ Len(tasks') = Len(tasks)
        /\ \A i \in 1..Len(tasks) : tasks'[i] = IF tasks[i].tx = TxOf THEN row ELSE tasks[i]
    BY <1>4, <1>7, HandlerIs
  <2>2. \A i \in 1..Len(tasks) : tasks'[i].tx = tasks[i].tx
    BY <1>5, <2>1
  <2>3. ASSUME NEW i \in 1..Len(tasks'), tasks'[i].tx # 0
        PROVE  /\ tasks'[i].tx \in OnChain' \cup pool' \cup evicted' /\ tasks'[i].tx \notin unsaved'
               /\ tasks'[i].status = "committed" => tasks'[i].tx \in OnChain'
               /\ tasks'[i].status = "rejected" => tasks'[i].tx \in evicted'
    <3>1. CASE tasks[i].tx = TxOf
      BY <1>1, <1>3, <1>5, <1>7, <2>1, <3>1
    <3>2. CASE tasks[i].tx # TxOf
      BY <1>1, <2>1, <2>3, <3>2 DEF RowsKept
    <3> QED
      BY <3>1, <3>2
  <2>4. \A i, j \in 1..Len(tasks') : tasks'[i].tx # 0 /\ tasks'[i].tx = tasks'[j].tx => i = j
    BY <2>1, <2>2 DEF RowsKept
  <2>5. \A u \in (OnChain' \cup pool') \ (unsaved' \cup lost') : txs'[u].kind \notin {"update", "enable"} =>
            \E i \in 1..Len(tasks') : tasks'[i].tx = u
    BY <1>1, <2>1, <2>2 DEF RowsKept
  <2>6. unsaved' \subseteq pool'
    BY <1>1 DEF RowsKept
  <2> QED
    BY <2>3, <2>4, <2>5, <2>6 DEF RowsKept
<1>8. CASE TxOf # 0 /\ Kind(TxOf) \in Settles
  <2>1. /\ Len(tasks') = Len(tasks) + 1
        /\ \A i \in 1..Len(tasks) : tasks'[i] = IF tasks[i].tx = TxOf THEN Deleted ELSE tasks[i]
        /\ tasks'[Len(tasks) + 1] = row
    BY <1>4, <1>8, HandlerIs
  <2>2. \A i \in 1..Len(tasks') : i \in 1..Len(tasks) \/ i = Len(tasks) + 1
    BY <1>2, <2>1
  <2>3. \A i \in 1..Len(tasks) : tasks'[i].tx # 0 => tasks'[i] = tasks[i] /\ tasks[i].tx # TxOf
    BY <1>2, <2>1
  <2>4. ASSUME NEW i \in 1..Len(tasks'), tasks'[i].tx # 0
        PROVE  /\ tasks'[i].tx \in OnChain' \cup pool' \cup evicted' /\ tasks'[i].tx \notin unsaved'
               /\ tasks'[i].status = "committed" => tasks'[i].tx \in OnChain'
               /\ tasks'[i].status = "rejected" => tasks'[i].tx \in evicted'
    <3>1. CASE i = Len(tasks) + 1
      BY <1>1, <1>3, <1>5, <1>8, <2>1, <3>1
    <3>2. CASE i \in 1..Len(tasks)
      BY <1>1, <2>3, <2>4, <3>2 DEF RowsKept
    <3> QED
      BY <2>2, <3>1, <3>2
  <2>5. ASSUME NEW i \in 1..Len(tasks'), NEW j \in 1..Len(tasks'),
               tasks'[i].tx # 0, tasks'[i].tx = tasks'[j].tx
        PROVE  i = j
    BY <1>5, <2>1, <2>2, <2>3, <2>5 DEF RowsKept
  <2>6. ASSUME NEW u \in (OnChain' \cup pool') \ (unsaved' \cup lost'), txs'[u].kind \notin {"update", "enable"}
        PROVE  \E i \in 1..Len(tasks') : tasks'[i].tx = u
    <3>1. CASE u = TxOf
      <4>1. Len(tasks) + 1 \in 1..Len(tasks')
        BY <1>2, <2>1
      <4> QED
        BY <1>5, <2>1, <3>1, <4>1
    <3>2. CASE u # TxOf
      <4>1. PICK i \in 1..Len(tasks) : tasks[i].tx = u
        BY <1>1, <2>6 DEF RowsKept
      <4>2. i \in 1..Len(tasks') /\ tasks'[i] = tasks[i]
        BY <1>2, <2>1, <3>2, <4>1
      <4> QED
        BY <4>1, <4>2
    <3> QED
      BY <3>1, <3>2
  <2>7. unsaved' \subseteq pool'
    BY <1>1 DEF RowsKept
  <2> QED
    BY <2>4, <2>5, <2>6, <2>7 DEF RowsKept
<1> QED
  BY <1>6, <1>7, <1>8, HandlerIs

LEMMA NextRows ==
    ASSUME ParserTyped, CellTyped, Placed, Saved, RowsKept, [Next]_vars
    PROVE  RowsKept'
<1>1. \A t \in 1..Len(txs) : txs'[t] = txs[t]
  BY TxsStay
<1>2. CASE \/ doSubAccountInit \/ doPriceRuleUpdate \/ doPreservedRuleUpdate
           \/ doConfigAutoMintUpdate \/ doCustomScript
  <2>1. PICK kind \in Signed, named \in BOOLEAN, rules \in Fresh, hash \in Fresh :
          buildTx(kind, named, rules, hash)
    BY <1>2, BuildIs
  <2>2. UNCHANGED <<main, pool, unsaved, lost, tasks, evicted>>
    BY <2>1 DEF buildTx, parserVars, withdrawalVars
  <2>3. OnChain' = OnChain
    BY <2>2, ChainWaits
  <2>4. unsaved' \subseteq pool'
    BY <2>2 DEF RowsKept
  <2> QED
    BY <1>1, <2>2, <2>3, <2>4, RowsStay
<1>3. CASE Sending
  <2>1. pool' = pool \cup {NewId} /\ unsaved' = unsaved \cup {NewId}
        /\ UNCHANGED <<main, lost, tasks, evicted>>
    BY <1>3, SendIs DEF parserVars
  <2>2. OnChain' = OnChain
    BY <2>1, ChainWaits
  <2>3. NewId \notin unsaved /\ \A i \in 1..Len(tasks) : tasks[i].tx # NewId
    BY NewIdIsNew
  <2>4. unsaved' \subseteq pool'
    BY <2>1 DEF RowsKept
  <2>5. \A t \in unsaved' : t \in unsaved \/ \A i \in 1..Len(tasks) : tasks[i].tx # t
    BY <2>1, <2>3
  <2>6. \A t \in (OnChain' \cup pool') \ (unsaved' \cup lost') : t \in (OnChain \cup pool) \ (unsaved \cup lost)
    BY <2>1, <2>2
  <2>7. OnChain \cup pool \cup evicted \subseteq OnChain' \cup pool' \cup evicted'
    BY <2>1, <2>2
  <2> QED
    BY <1>1, <2>1, <2>2, <2>4, <2>5, <2>6, <2>7, RowsStay
<1>4. ASSUME NEW t \in Ids, doActionNormal(t) PROVE RowsKept'
  <2>1. /\ t \in signing /\ pool' = pool \cup {t} /\ unsaved' = unsaved \cup {t}
        /\ UNCHANGED <<main, lost, tasks, evicted>>
    BY <1>4 DEF doActionNormal, parserVars, withdrawalVars
  <2>2. OnChain' = OnChain
    BY <2>1, ChainWaits
  <2>3. \A i \in 1..Len(tasks) : tasks[i].tx # t
    <3>1. t # 0
      BY <2>1, CellKnown DEF CellTyped
    <3> QED
      BY <2>1, <3>1 DEF RowsKept, Placed, Apart
  <2>4. unsaved' \subseteq pool'
    BY <2>1 DEF RowsKept
  <2>5. \A u \in unsaved' : u \in unsaved \/ \A i \in 1..Len(tasks) : tasks[i].tx # u
    BY <2>1, <2>3
  <2>6. \A u \in (OnChain' \cup pool') \ (unsaved' \cup lost') : u \in (OnChain \cup pool) \ (unsaved \cup lost)
    BY <2>1, <2>2
  <2>7. OnChain \cup pool \cup evicted \subseteq OnChain' \cup pool' \cup evicted'
    BY <2>1, <2>2
  <2> QED
    BY <1>1, <2>1, <2>2, <2>4, <2>5, <2>6, <2>7, RowsStay
<1>5. ASSUME NEW t \in Ids, CreateTask(t) PROVE RowsKept'
  <2>1. /\ t \in unsaved /\ unsaved' = unsaved \ {t}
        /\ tasks' = Append(tasks, [tx |-> t, status |-> "pending", bn |-> 0])
        /\ UNCHANGED <<main, pool, lost, evicted>>
    BY <1>5 DEF CreateTask, parserVars
  <2>2. OnChain' = OnChain
    BY <2>1, ChainWaits
  <2>3. t \in Nat \ {0} /\ t \in pool
    BY <2>1, CellKnown DEF CellTyped, RowsKept
  <2>4. \A i \in 1..Len(tasks) : tasks[i].tx # t
    BY <2>1, <2>3 DEF RowsKept
  <2> QED
    BY <1>1, <2>1, <2>2, <2>3, <2>4, RowsInserted
<1>6. CASE Update
  <2>1. /\ Mine(NewId) /\ NewTx("update", FALSE, HashOf(LiveCell), HashOf(LiveCell), {})
        /\ UNCHANGED <<pool, unsaved, lost, tasks, evicted>>
    BY <1>6 DEF Update, withdrawalVars
  <2>2. "update" \in Kinds /\ HashOf(LiveCell) \in Fresh /\ {} \in SUBSET Ids
    BY ListsKnown DEF Kinds
  <2>3. txs'[NewId].kind = "update"
    BY <2>1, <2>2, NewTxIs
  <2>4. NewId \in Nat \ {0} /\ NewId \notin OnChain
    BY NewIdIsNew
  <2>5. OnChain' = OnChain \cup {NewId}
    BY <2>1, <2>4, ChainGrows DEF Placed
  <2>6. unsaved' \subseteq pool'
    BY <2>1 DEF RowsKept
  <2>7. \A t \in (OnChain' \cup pool') \ (unsaved' \cup lost') :
          txs'[t].kind \in {"update", "enable"} \/ t \in (OnChain \cup pool) \ (unsaved \cup lost)
    BY <2>1, <2>3, <2>5
  <2>8. OnChain \cup pool \cup evicted \subseteq OnChain' \cup pool' \cup evicted'
    BY <2>1, <2>5
  <2> QED
    BY <1>1, <2>1, <2>5, <2>6, <2>7, <2>8, RowsStay
<1>7. ASSUME NEW t \in Ids, Evict(t) PROVE RowsKept'
  <2>1. /\ t \in pool /\ t \notin unsaved /\ pool' = pool \ {t} /\ evicted' = evicted \cup {t}
        /\ UNCHANGED <<main, unsaved, lost, tasks>>
    BY <1>7 DEF Evict, withdrawalVars
  <2>2. OnChain' = OnChain
    BY <2>1, ChainWaits
  <2>3. unsaved' \subseteq pool'
    BY <2>1 DEF RowsKept
  <2>4. \A u \in (OnChain' \cup pool') \ (unsaved' \cup lost') : u \in (OnChain \cup pool) \ (unsaved \cup lost)
    BY <2>1, <2>2
  <2>5. OnChain \cup pool \cup evicted \subseteq OnChain' \cup pool' \cup evicted'
    BY <2>1, <2>2
  <2> QED
    BY <1>1, <2>1, <2>2, <2>3, <2>4, <2>5, RowsStay
<1>8. CASE doCheckTx
  <2>1. /\ UNCHANGED <<main, pool, unsaved, lost, evicted>> /\ Len(tasks') = Len(tasks)
        /\ \A i \in 1..Len(tasks) :
             /\ tasks'[i].tx = tasks[i].tx
             /\ \/ tasks'[i] = tasks[i]
                \/ tasks[i].tx \in evicted /\ tasks'[i].status = "rejected"
    BY <1>8, CheckIs DEF parserVars
  <2>2. OnChain' = OnChain
    BY <2>1, ChainWaits
  <2>3. unsaved' \subseteq pool'
    BY <2>1 DEF RowsKept
  <2> QED
    BY <1>1, <2>1, <2>2, <2>3, RowsStay
<1>9. ASSUME NEW t \in Ids, MineTx(t) PROVE RowsKept'
  <2>1. /\ t \in pool /\ t \notin unsaved /\ Mine(t) /\ pool' = pool \ {t}
        /\ UNCHANGED <<unsaved, lost, tasks, evicted>>
    BY <1>9 DEF MineTx, withdrawalVars
  <2>2. t \in Nat \ {0} /\ t \notin OnChain
    BY <2>1, CellKnown DEF CellTyped, Placed, Apart
  <2>3. OnChain' = OnChain \cup {t}
    BY <2>1, <2>2, ChainGrows DEF Placed
  <2>4. unsaved' \subseteq pool'
    BY <2>1 DEF RowsKept
  <2>5. \A u \in (OnChain' \cup pool') \ (unsaved' \cup lost') : u \in (OnChain \cup pool) \ (unsaved \cup lost)
    BY <2>1, <2>3
  <2>6. OnChain \cup pool \cup evicted \subseteq OnChain' \cup pool' \cup evicted'
    BY <2>1, <2>3
  <2> QED
    BY <1>1, <2>1, <2>3, <2>4, <2>5, <2>6, RowsStay
<1>10. ASSUME OnChain' = OnChain, UNCHANGED <<pool, unsaved, lost, tasks, evicted>> PROVE RowsKept'
  <2>1. unsaved' \subseteq pool'
    BY <1>10 DEF RowsKept
  <2> QED
    BY <1>1, <1>10, <2>1, RowsStay
<1>11. CASE MineOther
  <2>1. Mine(0) /\ UNCHANGED <<pool, unsaved, lost, tasks, evicted>>
    BY <1>11 DEF MineOther, cellVars, withdrawalVars
  <2>2. OnChain' = OnChain
    BY <2>1, ChainGrowsEmpty DEF Placed
  <2> QED
    BY <1>10, <2>1, <2>2
<1>12. CASE ForkAll
  <2>1. Fork /\ UNCHANGED <<pool, unsaved, lost, tasks, evicted>>
    BY <1>12 DEF ForkAll
  <2>2. OnChain' = OnChain
    BY <2>1, ForkChain DEF Placed
  <2> QED
    BY <1>10, <2>1, <2>2
<1>13. CASE CallSteps \/ Sync \/ ParserFault \/ UNCHANGED vars
  <2>1. UNCHANGED <<main, pool, unsaved, lost, tasks, evicted>>
    BY <1>13, CallStepIs DEF Sync, ParserFault, Broken, vars, parserVars, cellVars, withdrawalVars
  <2>2. OnChain' = OnChain
    BY <2>1, ChainWaits
  <2> QED
    BY <1>10, <2>1, <2>2
<1>14. CASE HandleBlock
  <2>1. UNCHANGED main
    BY <1>14, HandledTyped, SteppedTyped DEF HandleBlock
  <2>2. CASE Handling
    <3>1. Handler
      BY <1>14, <2>2 DEF HandleBlock
    <3> QED
      BY <2>1, <3>1, RowsHandled
  <2>3. CASE ~Handling
    <3>1. UNCHANGED <<pool, unsaved, lost, tasks, evicted>>
      BY <1>14, <2>3 DEF HandleBlock, cellVars, withdrawalVars
    <3>2. OnChain' = OnChain
      BY <2>1, ChainWaits
    <3> QED
      BY <1>10, <3>1, <3>2
  <2> QED
    BY <2>2, <2>3
<1>15. CASE HandleAgain
  <2>1. Handler /\ UNCHANGED main
    BY <1>15 DEF HandleAgain, BrokenOff, Broken
  <2> QED
    BY <2>1, RowsHandled
<1>16. ASSUME NEW t \in Ids, LoseRow(t) PROVE RowsKept'
  <2>1. /\ t \in unsaved /\ unsaved' = unsaved \ {t} /\ lost' = lost \cup {t}
        /\ UNCHANGED <<main, pool, tasks, evicted>>
    BY <1>16 DEF LoseRow
  <2>2. OnChain' = OnChain
    BY <2>1, ChainWaits
  <2>3. unsaved' \subseteq pool'
    BY <2>1 DEF RowsKept
  <2>4. \A u \in (OnChain' \cup pool') \ (unsaved' \cup lost') : u \in (OnChain \cup pool) \ (unsaved \cup lost)
    BY <2>1, <2>2
  <2>5. \A u \in unsaved' : u \in unsaved
    BY <2>1
  <2> QED
    BY <1>1, <2>1, <2>2, <2>3, <2>4, <2>5, RowsStay
<1> QED
  BY <1>2, <1>3, <1>4, <1>5, <1>6, <1>7, <1>8, <1>9, <1>11, <1>12, <1>13, <1>14, <1>15, <1>16, NextIs

LEMMA InitRows == Init => RowsKept
<1> SUFFICES ASSUME Init PROVE RowsKept
  OBVIOUS
<1>1. pool = {} /\ unsaved = {} /\ tasks = <<>>
  BY DEF Init
<1>2. 1..Len(tasks) = {}
  BY <1>1
<1>3. \A t \in OnChain : Kind(t) = "enable"
  <2>1. CASE ParserInit(0)
    <3>1. ParserTyped /\ Tip = FirstTip /\ \A n \in 1..FirstTip : main[n].tx = 0
      BY <2>1, ParserStarts DEF ParserInv
    <3> QED
      BY <3>1, OnChainIs
  <2>2. CASE ParserInit(1) /\ txs = <<Enable>>
    <3>1. ParserTyped /\ Tip = FirstTip /\ \A n \in 1..FirstTip : main[n].tx \in {0, 1}
      BY <2>2, ParserStarts DEF ParserInv
    <3>2. txs[1].kind = "enable"
      BY <2>2 DEF Enable
    <3> QED
      BY <3>1, <3>2, OnChainIs DEF Kind
  <2> QED
    BY <2>1, <2>2 DEF Init
<1> QED
  BY <1>1, <1>2, <1>3 DEF RowsKept

-----------------------------------------------------------------------------
(* The rows of the blocks that were handled *)

LEMMA RightStays ==
    ASSUME ParserTyped, CellTyped, NEW n \in 1..Tip, Right(n), main'[n] = main[n],
           \A t \in 1..Len(txs) : txs'[t] = txs[t], lost \subseteq lost',
           Len(tasks) <= Len(tasks'), Len(tasks') \in Nat,
           \A i \in 1..Len(tasks) :
               tasks[i].status = "committed" /\ tasks[i].tx = main[n].tx => tasks'[i] = tasks[i]
    PROVE  Right(n)'
<1>1. PICK t : t = main[n].tx
  OBVIOUS
<1>2. t # 0 => t \in 1..Len(txs)
  BY <1>1, CellKnown DEF CellTyped
<1>3. SUFFICES ASSUME t # 0, t \notin lost, txs[t].kind # "update"
               PROVE  \E i \in 1..Len(tasks') : tasks'[i] = [tx |-> t, status |-> "committed", bn |-> n]
  BY <1>1, <1>2 DEF Right, Kind
<1>4. PICK i \in 1..Len(tasks) : tasks[i] = [tx |-> t, status |-> "committed", bn |-> n]
  BY <1>1, <1>3 DEF Right, Kind
<1>5. tasks'[i] = tasks[i] /\ i \in 1..Len(tasks')
  BY <1>1, <1>4, CellKnown
<1> QED
  BY <1>4, <1>5

LEMMA DoneKnown ==
    ASSUME ParserTyped
    PROVE  Done \subseteq 1..Tip /\ \A n \in Done : n < parser.current
BY ChainKnown, ParserBounds DEF Done

\* The handlers leave the row of the block they are at, and those of other blocks.
LEMMA RightHandled ==
    ASSUME ParserTyped, CellTyped, Placed, Saved, RowsKept, RowsRight, Handler, UNCHANGED main
    PROVE  \A n \in Done \cup {parser.current} : Right(n)'
<1>1. UNCHANGED <<txs, lost>> /\ parser.current \in 1..Tip /\ Len(tasks) \in Nat
  BY HandlerIs, CellKnown
<1>2. PICK row : row = Committed(TxOf)
  OBVIOUS
<1>3. row = [tx |-> TxOf, status |-> "committed", bn |-> parser.current]
  BY <1>2 DEF Committed
<1>4. TxOf # 0 => TxOf \in OnChain
  BY <1>1, OnChainIs DEF TxOf
<1>5. ASSUME NEW n \in Done PROVE Right(n)'
  <2>1. n \in 1..Tip /\ n # parser.current
    BY DoneKnown, ChainKnown
  <2>2. main[n].tx # 0 => main[n].tx # TxOf
    BY <1>1, <2>1 DEF TxOf, Placed, Unique
  <2>3. Right(n)
    BY DEF RowsRight
  <2>4. CASE main[n].tx = 0
    BY <2>4 DEF Right
  <2>5. CASE main[n].tx # 0
    <3>1. /\ Len(tasks) <= Len(tasks') /\ Len(tasks') \in Nat
          /\ \A i \in 1..Len(tasks) : tasks[i].tx = main[n].tx => tasks'[i] = tasks[i]
      <4>1. CASE TxOf = 0 \/ Kind(TxOf) = "update"
        BY <1>1, <4>1, HandlerIs
      <4>2. CASE TxOf # 0 /\ Kind(TxOf) \in Settles
        BY <1>1, <2>2, <2>5, <4>2, HandlerIs
      <4>3. CASE TxOf # 0 /\ Kind(TxOf) \in Withdrawals
        BY <1>1, <2>2, <2>5, <4>3, HandlerIs
      <4> QED
        BY <4>1, <4>2, <4>3, HandlerIs
    <3> QED
      BY <1>1, <2>1, <2>3, <3>1, RightStays
  <2> QED
    BY <2>4, <2>5
<1>6. ASSUME NEW n, n = parser.current PROVE Right(n)'
  <2>1. n = parser.current
    BY <1>6
  <2>2. TxOf = main[n].tx
    BY <2>1 DEF TxOf
  <2>3. SUFFICES ASSUME TxOf # 0, TxOf \notin lost, Kind(TxOf) # "update"
                 PROVE  \E i \in 1..Len(tasks') : tasks'[i] = row
    BY <1>1, <1>3, <2>1, <2>2 DEF Right, Kind
  <2>4. CASE Kind(TxOf) \in Settles
    <3>1. Len(tasks') = Len(tasks) + 1 /\ tasks'[Len(tasks) + 1] = row
      BY <1>2, <2>3, <2>4, HandlerIs
    <3> QED
      BY <1>1, <3>1
  <2>5. CASE Kind(TxOf) \in Withdrawals
    <3>1. /\ Len(tasks') = Len(tasks)
          /\ \A i \in 1..Len(tasks) : tasks'[i] = IF tasks[i].tx = TxOf THEN row ELSE tasks[i]
      BY <1>2, <2>3, <2>5, HandlerIs
    <3>2. TxOf \in (OnChain \cup pool) \ (unsaved \cup lost) /\ Kind(TxOf) \notin {"update", "enable"}
      BY <1>4, <2>3, <2>5 DEF Withdrawals, RowsKept, Placed, Apart
    <3>3. PICK i \in 1..Len(tasks) : tasks[i].tx = TxOf
      BY <3>2 DEF RowsKept
    <3> QED
      BY <3>1, <3>3
  <2> QED
    BY <2>3, <2>4, <2>5, HandlerIs
<1> QED
  BY <1>5, <1>6

LEMMA RightMoves ==
    ASSUME ParserTyped, CellTyped, RowsRight, [Next]_vars,
           Done' \subseteq Done, \A n \in Done' : main'[n] = main[n],
           Len(tasks) <= Len(tasks'), Len(tasks') \in Nat,
           \A i \in 1..Len(tasks) : tasks[i].status = "committed" => tasks'[i] = tasks[i]
    PROVE  RowsRight'
<1> SUFFICES ASSUME NEW n \in Done' PROVE Right(n)'
  BY DEF RowsRight
<1>1. n \in Done /\ n \in 1..Tip /\ main'[n] = main[n] /\ Right(n)
  BY DoneKnown DEF RowsRight
<1>2. (\A t \in 1..Len(txs) : txs'[t] = txs[t]) /\ lost \subseteq lost'
  BY TxsStay, LostStay
<1> QED
  BY <1>1, <1>2, RightStays

\* The steps of others leave committed rows as they are.
LEMMA CommittedStay ==
    ASSUME ParserTyped, CellTyped, [Next]_vars
    PROVE  \/ (HandleBlock /\ Handling) \/ HandleAgain
           \/ /\ Len(tasks) <= Len(tasks') /\ Len(tasks') \in Nat
              /\ \A i \in 1..Len(tasks) : tasks[i].status = "committed" => tasks'[i] = tasks[i]
<1>1. Len(tasks) \in Nat /\ tasks \in Seq(Row \cup {Deleted})
  BY CellKnown DEF CellTyped
<1>2. ASSUME NEW row, tasks' = Append(tasks, row)
      PROVE  /\ Len(tasks) <= Len(tasks') /\ Len(tasks') \in Nat
             /\ \A i \in 1..Len(tasks) : tasks'[i] = tasks[i]
  BY <1>1, <1>2
<1>3. CASE \/ doSubAccountInit \/ doPriceRuleUpdate \/ doPreservedRuleUpdate
           \/ doConfigAutoMintUpdate \/ doCustomScript
  <2>1. UNCHANGED tasks
    BY <1>3, BuildIs DEF buildTx
  <2> QED
    BY <1>1, <2>1
<1>4. CASE Sending
  <2>1. UNCHANGED tasks
    BY <1>4, SendIs
  <2> QED
    BY <1>1, <2>1
<1>5. ASSUME NEW t \in Ids, CreateTask(t)
      PROVE  /\ Len(tasks) <= Len(tasks') /\ Len(tasks') \in Nat
             /\ \A i \in 1..Len(tasks) : tasks'[i] = tasks[i]
  BY <1>2, <1>5 DEF CreateTask
<1>6. CASE doCheckTx
  BY <1>1, <1>6, CheckIs
<1>7. CASE UNCHANGED tasks
  BY <1>1, <1>7
<1>8. CASE HandleBlock /\ ~Handling
  BY <1>7, <1>8 DEF HandleBlock, cellVars
<1> QED
  BY <1>3, <1>4, <1>5, <1>6, <1>7, <1>8, NextIs, CallStepIs
     DEF doActionNormal, LoseRow, Evict, MineTx, Update, MineOther, ForkAll, Sync, ParserFault, vars, cellVars

\* The parser, when only the world around it moves.
LEMMA NextParser ==
    ASSUME ParserInv, CellTyped, Settled, [Next]_vars
    PROVE  /\ ParserInv'
           /\ \/ (HandleBlock /\ Handling) \/ HandleAgain
              \/ Done' \subseteq Done /\ \A n \in Done' : main'[n] = main[n]
           /\ HandleBlock /\ Handling => UNCHANGED main /\ Done' \subseteq Done \cup {parser.current}
           /\ HandleAgain => UNCHANGED main /\ Done' \subseteq Done
<1>1. ParserTyped /\ ForkNoticed /\ ParserTyped'
  BY NextTyped DEF ParserInv, Settled
<1>2. ASSUME UNCHANGED parserVars
      PROVE  ParserInv' /\ Done' \subseteq Done /\ \A n \in Done' : main'[n] = main[n]
  BY <1>2, ParserWaits DEF parserVars
<1>3. ASSUME NEW t \in Nat, Mine(t)
      PROVE  ParserInv' /\ Done' \subseteq Done /\ \A n \in Done' : main'[n] = main[n]
  <2>1. ParserInv' /\ Done' = Done
    BY <1>1, <1>3, MineKept
  <2>2. \A n \in 1..Tip : main'[n] = main[n]
    BY <1>1, <1>3, MineTyped
  <2> QED
    BY <1>1, <2>1, <2>2, DoneKnown
<1>4. ASSUME HandleBlock, Handling
      PROVE  ParserInv' /\ UNCHANGED main /\ Done' \subseteq Done \cup {parser.current}
  <2>1. ParserTurn
    BY <1>4 DEF HandleBlock
  <2> QED
    BY <1>1, <1>4, <2>1, BlockStored, HandledTyped
<1>5. ASSUME HandleBlock, ~Handling
      PROVE  ParserInv' /\ Done' \subseteq Done /\ \A n \in Done' : main'[n] = main[n]
  <2>1. ParserTurn
    BY <1>5 DEF HandleBlock
  <2>2. ParserInv' /\ Done' \subseteq Done
    BY <1>5, <2>1, SteppedBack
  <2>3. UNCHANGED main
    BY <1>1, <1>5, <2>1, SteppedTyped
  <2> QED
    BY <2>2, <2>3
<1>6. ASSUME Broken PROVE ParserInv' /\ UNCHANGED main /\ Done' \subseteq Done
  BY <1>1, <1>6, BrokenKept, BrokenTyped
<1>7. ASSUME ForkAll PROVE ParserInv' /\ Done' \subseteq Done /\ \A n \in Done' : main'[n] = main[n]
  BY <1>7, ForkKept DEF ForkAll
<1>8. ASSUME NEW t \in Ids, LoseRow(t) \/ Evict(t)
      PROVE  ParserInv' /\ Done' \subseteq Done /\ \A n \in Done' : main'[n] = main[n]
  <2>1. UNCHANGED <<main, salt, parser, stored>>
    BY <1>8 DEF LoseRow, Evict
  <2> QED
    BY <1>1, <2>1 DEF ParserInv, Window, Branch, Old, Batch, Noticed, Same, Done, FarBehind, Tip
<1>9. CASE \/ doSubAccountInit \/ doPriceRuleUpdate \/ doPreservedRuleUpdate
           \/ doConfigAutoMintUpdate \/ doCustomScript
  <2>1. UNCHANGED parserVars
    BY <1>1, <1>9, BuildIs DEF buildTx
  <2> QED
    BY <1>2, <1>4, <1>6, <2>1 DEF HandleAgain, BrokenOff
<1>10. CASE Sending
  <2>1. UNCHANGED parserVars
    BY <1>1, <1>10, SendIs
  <2> QED
    BY <1>2, <1>4, <1>6, <2>1 DEF HandleAgain, BrokenOff
<1>11. CASE CallSteps \/ doCheckTx \/ Sync \/ UNCHANGED vars \/ \E t \in Ids : doActionNormal(t) \/ CreateTask(t)
  <2>1. UNCHANGED parserVars
    BY <1>1, <1>11, CallStepIs DEF doCheckTx, Sync, vars, doActionNormal, CreateTask
  <2> QED
    BY <1>2, <1>4, <1>6, <2>1 DEF HandleAgain, BrokenOff
<1>12. ASSUME NEW t \in Ids, MineTx(t)
       PROVE  ParserInv' /\ Done' \subseteq Done /\ \A n \in Done' : main'[n] = main[n]
  BY <1>3, <1>12, CellAssumption DEF MineTx, Ids
<1>13. ASSUME Update
       PROVE  ParserInv' /\ Done' \subseteq Done /\ \A n \in Done' : main'[n] = main[n]
  <2>1. Mine(NewId) /\ NewId \in Nat
    BY <1>1, <1>13, NewIdIsNew DEF Update
  <2> QED
    BY <1>3, <2>1
<1>14. ASSUME MineOther
       PROVE  ParserInv' /\ Done' \subseteq Done /\ \A n \in Done' : main'[n] = main[n]
  BY <1>3, <1>14 DEF MineOther
<1>15. ASSUME ParserFault
       PROVE  ParserInv' /\ Done' \subseteq Done /\ \A n \in Done' : main'[n] = main[n]
  BY <1>6, <1>15 DEF ParserFault
<1>16. HandleBlock /\ Handling => UNCHANGED main /\ Done' \subseteq Done \cup {parser.current}
  BY <1>4
<1>17. HandleAgain => ParserInv' /\ UNCHANGED main /\ Done' \subseteq Done
  BY <1>6 DEF HandleAgain, BrokenOff
<1> QED
  BY <1>4, <1>5, <1>7, <1>8, <1>9, <1>10, <1>11, <1>12, <1>13, <1>14, <1>15, <1>16, <1>17, NextIs

LEMMA NextRight ==
    ASSUME Settled, Saved, ParserInv, CellTyped, Placed, RowsKept, RowsRight, [Next]_vars
    PROVE  RowsRight'
<1>1. ParserTyped
  BY DEF ParserInv
<1>2. CASE HandleBlock /\ Handling
  <2>1. Handler /\ UNCHANGED main /\ Done' \subseteq Done \cup {parser.current}
    BY <1>2, NextParser DEF HandleBlock
  <2>2. \A n \in Done \cup {parser.current} : Right(n)'
    BY <1>1, <2>1, RightHandled
  <2> QED
    BY <2>1, <2>2 DEF RowsRight
<1>3. CASE HandleAgain
  <2>1. Handler /\ UNCHANGED main /\ Done' \subseteq Done
    BY <1>3, NextParser DEF HandleAgain
  <2>2. \A n \in Done \cup {parser.current} : Right(n)'
    BY <1>1, <2>1, RightHandled
  <2> QED
    BY <2>1, <2>2 DEF RowsRight
<1>4. CASE ~(HandleBlock /\ Handling) /\ ~HandleAgain
  <2>1. Done' \subseteq Done /\ \A n \in Done' : main'[n] = main[n]
    BY <1>4, NextParser
  <2>2. /\ Len(tasks) <= Len(tasks') /\ Len(tasks') \in Nat
        /\ \A i \in 1..Len(tasks) : tasks[i].status = "committed" => tasks'[i] = tasks[i]
    BY <1>1, <1>4, CommittedStay
  <2> QED
    BY <1>1, <2>1, <2>2, RightMoves
<1> QED
  BY <1>2, <1>3, <1>4

LEMMA InitParser == Init => ParserInv /\ RowsRight
<1> SUFFICES ASSUME Init PROVE ParserInv /\ RowsRight
  OBVIOUS
<1>1. PICK t \in {0, 1} : ParserInit(t)
  BY DEF Init
<1>2. ParserInv /\ Done = {}
  BY <1>1, ParserStarts
<1> QED
  BY <1>2 DEF RowsRight

\* [re-handled and orphaned blocks] RowsFollowChain: where the parser stands on the
\* main chain, each transaction in the blocks behind it has exactly one row, the
\* committed one with its block number, but for a withdrawal whose row was lost.  It
\* needs forks that the stored blocks reach (Settled) and rows written, or lost,
\* before their transaction is mined (Saved).
THEOREM RowsAreOfTheChain == Settled /\ Saved => (Spec => []RowsFollowChain)
<1> DEFINE Inv == ParserInv /\ CellTyped /\ Placed /\ RowsKept /\ RowsRight
<1> SUFFICES ASSUME Settled, Saved PROVE Spec => []RowsFollowChain
  OBVIOUS
<1>1. Init => Inv
  BY InitTyped, InitPlaced, InitRows, InitParser
<1>2. Inv /\ [Next]_vars => Inv'
  <2> SUFFICES ASSUME Inv, [Next]_vars PROVE Inv'
    OBVIOUS
  <2>1. ParserTyped
    BY DEF ParserInv
  <2>2. ParserInv'
    BY NextParser
  <2>3. CellTyped' /\ Placed'
    BY <2>1, NextTyped, NextPlaced
  <2>4. RowsKept'
    BY <2>1, NextRows
  <2>5. RowsRight'
    BY NextRight
  <2> QED
    BY <2>2, <2>3, <2>4, <2>5
<1>3. Inv => RowsFollowChain
  <2> SUFFICES ASSUME Inv, OnMain, NEW n \in First..parser.current - 1,
                      main[n].tx # 0, txs[main[n].tx].kind # "update",
                      main[n].tx \notin lost
               PROVE  LET t == main[n].tx
                          rows == {i \in 1..Len(tasks) : tasks[i].tx = t}
                      IN  \E i \in rows : rows = {i} /\ tasks[i].status = "committed" /\ tasks[i].bn = n
    BY DEF RowsFollowChain
  <2>1. n \in Done
    BY OnMainIsDone
  <2>2. PICK i \in 1..Len(tasks) : tasks[i] = [tx |-> main[n].tx, status |-> "committed", bn |-> n]
    BY <2>1 DEF RowsRight, Right, Kind
  <2>3. \A j \in 1..Len(tasks) : tasks[j].tx = main[n].tx => j = i
    BY <2>2 DEF RowsKept
  <2> QED
    BY <2>2, <2>3
<1> HIDE DEF Inv
<1> QED
  BY <1>1, <1>2, <1>3, PTL DEF Spec

-----------------------------------------------------------------------------
(* Withdrawals *)

SameChain ==
    /\ OnChain' = OnChain
    /\ \A x, y : x # 0 /\ y # 0 => (Before(x, y)' <=> Before(x, y))
Joins(t) ==
    /\ OnChain' = OnChain \cup {t} /\ t \notin OnChain
    /\ \A x, y : x # 0 /\ y # 0 => (Before(x, y)' <=> Before(x, y) \/ (x \in OnChain /\ y = t))
Building ==
    \/ doSubAccountInit \/ doPriceRuleUpdate \/ doPreservedRuleUpdate
    \/ doConfigAutoMintUpdate \/ doCustomScript

LEMMA SameChainIs ==
    ASSUME UNCHANGED main
    PROVE  SameChain
BY ChainWaits DEF SameChain

\* How a step moves transactions between the requests that wait for a signature,
\* the pool of the node and the chain.
LEMMA Moves ==
    ASSUME ParserTyped, CellTyped, Placed, [Next]_vars
    PROVE  \/ /\ Building /\ SameChain /\ pool' = pool /\ signing' = signing \cup {NewId}
              /\ UNCHANGED tasks
           \/ /\ Sending /\ SameChain /\ pool = {} /\ pool' = {NewId} /\ signing' = signing
              /\ UNCHANGED tasks
           \/ \E t \in signing :
                /\ SameChain /\ pool = {} /\ pool' = {t} /\ signing' = signing \ {t}
                /\ UNCHANGED <<txs, tasks>>
           \/ \E t \in pool :
                /\ SameChain /\ pool = {t} /\ pool' = {} /\ signing' = signing
                /\ UNCHANGED <<txs, tasks>>
           \/ \E t \in pool :
                /\ Joins(t) /\ pool = {t} /\ pool' = {} /\ signing' = {}
                /\ UNCHANGED <<txs, tasks>>
           \/ /\ Update /\ Joins(NewId) /\ pool = {} /\ pool' = {} /\ signing' = {}
              /\ UNCHANGED tasks
           \/ /\ ~Building /\ ~Sending
              /\ SameChain /\ pool' = pool /\ signing' = signing /\ UNCHANGED txs
<1>1. CASE Building
  <2>1. PICK kind \in Signed, named \in BOOLEAN, rules \in Fresh, hash \in Fresh :
          buildTx(kind, named, rules, hash)
    BY <1>1, BuildIs DEF Building
  <2>2. /\ signing' = signing \cup {NewId} /\ UNCHANGED <<main, pool, tasks>>
    BY <2>1 DEF buildTx, parserVars
  <2> QED
    BY <1>1, <2>2, SameChainIs
<1>2. CASE Sending
  <2>1. Accepted(LiveCell) /\ pool' = pool \cup {NewId} /\ UNCHANGED <<parserVars, signing, tasks>>
    BY <1>2, SendIs
  <2>2. pool = {} /\ UNCHANGED main
    BY <2>1, PoolEmpty DEF parserVars
  <2> QED
    BY <1>2, <2>1, <2>2, SameChainIs
<1>3. CASE \E t \in Ids : doActionNormal(t)
  <2>1. PICK t \in Ids : doActionNormal(t)
    BY <1>3
  <2>2. /\ t \in signing /\ Accepted(txs[t].from) /\ pool' = pool \cup {t} /\ signing' = signing \ {t}
        /\ UNCHANGED <<main, txs, tasks>>
    BY <2>1 DEF doActionNormal, parserVars
  <2>3. pool = {}
    BY <2>2, PoolEmpty DEF Placed, SpendsLive
  <2> QED
    BY <2>2, <2>3, SameChainIs
<1>4. CASE \E t \in Ids : Evict(t)
  <2>1. PICK t \in Ids : Evict(t)
    BY <1>4
  <2>2. t \in pool /\ pool' = pool \ {t} /\ UNCHANGED <<main, txs, signing, tasks>>
    BY <2>1 DEF Evict
  <2>3. pool = {t}
    BY <2>2 DEF Placed, SpendsLive
  <2> QED
    BY <2>2, <2>3, SameChainIs
<1>5. CASE \E t \in Ids : MineTx(t)
  <2>1. PICK t \in Ids : MineTx(t)
    BY <1>5
  <2>2. /\ t \in pool /\ Mine(t) /\ pool' = pool \ {t} /\ signing' \subseteq signing
        /\ UNCHANGED <<txs, tasks>>
    BY <2>1 DEF MineTx
  <2>3. pool = {t}
    BY <2>2 DEF Placed, SpendsLive
  <2>4. t \in Nat \ {0} /\ t \notin OnChain
    BY <2>2, CellKnown DEF CellTyped, Placed, Apart
  <2>5. Joins(t)
    BY <2>2, <2>4, ChainGrows DEF Placed, Joins
  <2>6. t # LiveCell
    BY <2>4, LiveCellLast DEF Placed
  <2>7. signing' = {}
    BY <2>1, <2>6 DEF MineTx, Placed, SpendsLive
  <2> QED
    BY <2>2, <2>3, <2>5, <2>7
<1>6. CASE Update
  <2>1. /\ Accepted(LiveCell) /\ Mine(NewId) /\ signing' = {} /\ UNCHANGED <<pool, tasks>>
    BY <1>6 DEF Update
  <2>2. NewId \in Nat \ {0} /\ NewId \notin OnChain
    BY NewIdIsNew
  <2>3. Joins(NewId)
    BY <2>1, <2>2, ChainGrows DEF Placed, Joins
  <2> QED
    BY <1>6, <2>1, <2>3, PoolEmpty
<1>7. CASE /\ ~Building /\ ~Sending
           /\ \/ (\E t \in Ids : CreateTask(t) \/ LoseRow(t)) \/ CallSteps \/ doCheckTx \/ Sync \/ HandleAgain \/ ParserFault
              \/ HandleBlock \/ MineOther \/ ForkAll \/ UNCHANGED vars
  <2>1. UNCHANGED <<txs, signing, pool>>
    BY <1>7, CallStepIs DEF CreateTask, LoseRow, doCheckTx, Sync, HandleAgain, Handler, ParserFault, HandleBlock,
                MineOther, ForkAll, vars, cellVars
  <2>2. SameChain
    <3>1. CASE MineOther
      BY <3>1, ChainGrowsEmpty DEF MineOther, Placed, SameChain
    <3>2. CASE ForkAll
      BY <3>2, ForkChain DEF ForkAll, Placed, SameChain
    <3>3. CASE HandleBlock
      <4>1. UNCHANGED main
        BY <3>3, HandledTyped, SteppedTyped DEF HandleBlock
      <4> QED
        BY <4>1, SameChainIs
    <3>4. CASE \/ (\E t \in Ids : CreateTask(t) \/ LoseRow(t)) \/ CallSteps \/ doCheckTx \/ Sync \/ HandleAgain \/ ParserFault
               \/ UNCHANGED vars
      <4>1. UNCHANGED main
        BY <3>4, CallStepIs DEF CreateTask, LoseRow, doCheckTx, Sync, HandleAgain, BrokenOff,
                                ParserFault, Broken, vars, parserVars
      <4> QED
        BY <4>1, SameChainIs
    <3> QED
      BY <1>7, <3>1, <3>2, <3>3, <3>4
  <2> QED
    BY <1>7, <2>1, <2>2
<1> QED
  BY <1>1, <1>2, <1>3, <1>4, <1>5, <1>6, <1>7, NextIs DEF Building

\* A row that is new is that of a transaction in the pool, or of one mined that
\* is no withdrawal.
LEMMA TasksMove ==
    ASSUME ParserTyped, CellTyped, Placed, Saved, RowsKept, [Next]_vars
    PROVE  \E t \in Nat :
             /\ \/ t = 0
                \/ t \in OnChain /\ Kind(t) \notin Withdrawals
                \/ t \in pool' /\ \A i \in 1..Len(tasks) : tasks[i].tx # t
             /\ \A i \in 1..Len(tasks') :
                  \/ tasks'[i].tx = 0
                  \/ i \in 1..Len(tasks) /\ tasks'[i].tx = tasks[i].tx
                  \/ i = Len(tasks) + 1 /\ tasks'[i].tx = t
<1>1. Len(tasks) \in Nat /\ tasks \in Seq(Row \cup {Deleted})
  BY CellKnown DEF CellTyped
<1>2. ASSUME NEW t \in Nat, NEW row, row.tx = t, tasks' = Append(tasks, row)
      PROVE  \A i \in 1..Len(tasks') :
                  \/ i \in 1..Len(tasks) /\ tasks'[i].tx = tasks[i].tx
                  \/ i = Len(tasks) + 1 /\ tasks'[i].tx = t
  BY <1>1, <1>2
<1>3. CASE UNCHANGED tasks
  BY <1>3
<1>4. CASE Building
  <2>1. UNCHANGED tasks
    BY <1>4, BuildIs DEF buildTx, Building
  <2> QED
    BY <1>3, <2>1
<1>5. CASE Sending
  BY <1>3, <1>5, SendIs
<1>6. ASSUME NEW t \in Ids, CreateTask(t)
      PROVE  /\ t \in Nat /\ t \in pool' /\ \A i \in 1..Len(tasks) : tasks[i].tx # t
             /\ \A i \in 1..Len(tasks') :
                  \/ i \in 1..Len(tasks) /\ tasks'[i].tx = tasks[i].tx
                  \/ i = Len(tasks) + 1 /\ tasks'[i].tx = t
  <2>1. /\ t \in unsaved /\ UNCHANGED pool
        /\ tasks' = Append(tasks, [tx |-> t, status |-> "pending", bn |-> 0])
    BY <1>6 DEF CreateTask
  <2>2. t \in Nat \ {0} /\ t \in pool'
    BY <2>1, CellKnown DEF CellTyped, RowsKept
  <2>3. \A i \in 1..Len(tasks) : tasks[i].tx # t
    BY <2>1, <2>2 DEF RowsKept
  <2>4. PICK row : row = [tx |-> t, status |-> "pending", bn |-> 0]
    OBVIOUS
  <2>5. row.tx = t
    BY <2>4
  <2> QED
    BY <1>2, <2>1, <2>2, <2>3, <2>4, <2>5
<1>7. CASE doCheckTx
  <2>1. Len(tasks') = Len(tasks) /\ \A i \in 1..Len(tasks) : tasks'[i].tx = tasks[i].tx
    BY <1>7, CheckIs
  <2> QED
    BY <2>1
<1>8. CASE Handler
  <2>1. Deleted.tx = 0 /\ Committed(TxOf).tx = TxOf
    BY DEF Deleted, Committed
  <2>2. CASE TxOf = 0 \/ Kind(TxOf) = "update"
    <3>1. UNCHANGED tasks
      BY <1>8, <2>2, HandlerIs
    <3> QED
      BY <1>3, <3>1
  <2>3. CASE TxOf # 0 /\ Kind(TxOf) \in Withdrawals
    <3>1. /\ Len(tasks') = Len(tasks)
          /\ \A i \in 1..Len(tasks) : tasks'[i].tx = tasks[i].tx
      BY <1>8, <2>1, <2>3, HandlerIs
    <3> QED
      BY <3>1
  <2>4. CASE TxOf # 0 /\ Kind(TxOf) \in Settles
    <3>1. parser.current \in 1..Tip
      BY <1>8, HandlerIs
    <3>2. TxOf \in OnChain /\ TxOf \in Nat
      BY <2>4, <3>1, OnChainIs DEF TxOf
    <3>3. Kind(TxOf) \notin Withdrawals
      BY <2>4 DEF Settles, Configs, Withdrawals
    <3>4. /\ Len(tasks') = Len(tasks) + 1
          /\ \A i \in 1..Len(tasks) : tasks'[i].tx = 0 \/ tasks'[i].tx = tasks[i].tx
          /\ tasks'[Len(tasks) + 1].tx = TxOf
      BY <1>8, <2>1, <2>4, HandlerIs
    <3>5. \A i \in 1..Len(tasks') : i \in 1..Len(tasks) \/ i = Len(tasks) + 1
      BY <1>1, <3>4
    <3>6. \A i \in 1..Len(tasks') :
                  \/ tasks'[i].tx = 0
                  \/ i \in 1..Len(tasks) /\ tasks'[i].tx = tasks[i].tx
                  \/ i = Len(tasks) + 1 /\ tasks'[i].tx = TxOf
      BY <3>4, <3>5
    <3> QED
      BY <3>2, <3>3, <3>6
  <2> QED
    BY <1>8, <2>2, <2>3, <2>4, HandlerIs
<1>9. CASE HandleBlock \/ HandleAgain
  BY <1>3, <1>8, <1>9 DEF HandleBlock, HandleAgain, cellVars
<1>10. CASE \/ (\E t \in Ids : doActionNormal(t) \/ LoseRow(t) \/ Evict(t) \/ MineTx(t))
            \/ CallSteps \/ Update \/ MineOther \/ ForkAll \/ Sync \/ ParserFault \/ UNCHANGED vars
  <2>1. UNCHANGED tasks
    BY <1>10, CallStepIs DEF doActionNormal, LoseRow, Evict, MineTx, Update, MineOther, ForkAll, Sync,
                             ParserFault, vars, cellVars
  <2> QED
    BY <1>3, <2>1
<1> QED
  BY <1>4, <1>5, <1>6, <1>7, <1>9, <1>10, NextIs DEF Building

LEMMA NextOrdered ==
    ASSUME ParserTyped, CellTyped, Placed, Saved, RowsKept, RowsOrdered, [Next]_vars
    PROVE  RowsOrdered'
<1>1. PICK t \in Nat :
        /\ \/ t = 0
           \/ t \in OnChain /\ Kind(t) \notin Withdrawals
           \/ t \in pool' /\ \A i \in 1..Len(tasks) : tasks[i].tx # t
        /\ \A i \in 1..Len(tasks') :
             \/ tasks'[i].tx = 0
             \/ i \in 1..Len(tasks) /\ tasks'[i].tx = tasks[i].tx
             \/ i = Len(tasks) + 1 /\ tasks'[i].tx = t
  BY TasksMove
<1>2. /\ \A u \in 1..Len(txs) : txs'[u] = txs[u]
      /\ \A i \in 1..Len(tasks) : tasks[i].tx \in 0..Len(txs) /\ tasks[i].tx # NewId
      /\ Len(txs) \in Nat /\ Len(tasks) \in Nat /\ OnChain \subseteq 1..Len(txs)
  BY TxsStay, CellKnown, NewIdIsNew
<1>3. \A i \in 1..Len(tasks) : tasks[i].tx # 0 => tasks[i].tx \notin signing
  BY DEF RowsKept, Placed, Apart
<1>4. ASSUME NEW i \in 1..Len(tasks), NEW j \in 1..Len(tasks), i < j, WithdrawalRow(i), WithdrawalRow(j),
             NEW a, NEW b, a = tasks[i].tx, b = tasks[j].tx
      PROVE  a \notin pool' /\ (a \in OnChain' /\ b \in OnChain' => Before(a, b)')
  <2>1. /\ a # 0 /\ b # 0 /\ a \notin pool /\ (a \in OnChain /\ b \in OnChain => Before(a, b))
        /\ a # NewId /\ b # NewId /\ a \notin signing /\ b \notin signing
    BY <1>2, <1>3, <1>4 DEF RowsOrdered, WithdrawalRow
  <2>2. CASE SameChain /\ pool' \subseteq pool \cup signing \cup {NewId}
    BY <2>1, <2>2 DEF SameChain
  <2>3. ASSUME NEW u \in pool \cup {NewId}, Joins(u), pool' = {}
        PROVE  a \notin pool' /\ (a \in OnChain' /\ b \in OnChain' => Before(a, b)')
    BY <2>1, <2>3 DEF Joins
  <2> QED
    BY <2>2, <2>3, Moves
<1>5. t \in pool' /\ (\A i \in 1..Len(tasks) : tasks[i].tx # t) =>
        t \notin OnChain' /\ \A i \in 1..Len(tasks) : tasks[i].tx \notin pool'
  <2>1. Placed'
    BY NextPlaced
  <2> QED
    BY <2>1 DEF Placed, Apart, SpendsLive
<1>6. ASSUME NEW i \in 1..Len(tasks'), NEW j \in 1..Len(tasks'), i < j,
             tasks'[i].tx # 0, txs'[tasks'[i].tx].kind \in Withdrawals,
             tasks'[j].tx # 0, txs'[tasks'[j].tx].kind \in Withdrawals,
             NEW a, NEW b, a = tasks'[i].tx, b = tasks'[j].tx
      PROVE  a \notin pool' /\ (a \in OnChain' /\ b \in OnChain' => Before(a, b)')
  <2>1. i \in 1..Len(tasks) /\ tasks'[i].tx = tasks[i].tx
    <3>1. j \in 1..Len(tasks) \/ j = Len(tasks) + 1
      BY <1>1, <1>6
    <3>2. i # Len(tasks) + 1
      BY <1>2, <1>6, <3>1
    <3> QED
      BY <1>1, <1>6, <3>2
  <2>2. CASE j \in 1..Len(tasks) /\ tasks'[j].tx = tasks[j].tx
    <3>1. WithdrawalRow(i) /\ WithdrawalRow(j)
      <4>1. tasks[i].tx \in 1..Len(txs) /\ tasks[j].tx \in 1..Len(txs)
        BY <1>2, <1>6, <2>1, <2>2
      <4> QED
        BY <1>2, <1>6, <2>1, <2>2, <4>1 DEF WithdrawalRow, Kind
    <3> QED
      BY <1>4, <1>6, <2>1, <2>2, <3>1
  <2>3. CASE j = Len(tasks) + 1 /\ tasks'[j].tx = t
    <3>1. t # 0
      BY <1>6, <2>3
    <3>2. ~(t \in OnChain /\ Kind(t) \notin Withdrawals)
      BY <1>2, <1>6, <2>3 DEF Kind
    <3>3. t \in pool' /\ \A k \in 1..Len(tasks) : tasks[k].tx # t
      BY <1>1, <3>1, <3>2
    <3> QED
      BY <1>5, <1>6, <2>1, <2>3, <3>3
  <2> QED
    BY <1>1, <1>6, <2>2, <2>3
<1>7. ASSUME NEW i \in 1..Len(tasks'), NEW j \in 1..Len(tasks'), i < j, WithdrawalRow(i)', WithdrawalRow(j)'
      PROVE  /\ (tasks[i].tx \notin pool)'
             /\ (tasks[i].tx \in OnChain /\ tasks[j].tx \in OnChain => Before(tasks[i].tx, tasks[j].tx))'
  <2>1. PICK a : a = tasks'[i].tx
    OBVIOUS
  <2>2. PICK b : b = tasks'[j].tx
    OBVIOUS
  <2>3. a \notin pool' /\ (a \in OnChain' /\ b \in OnChain' => Before(a, b)')
    BY <1>6, <1>7, <2>1, <2>2 DEF WithdrawalRow, Kind
  <2> QED
    BY <2>1, <2>2, <2>3 DEF Before
<1> QED
  BY <1>7 DEF RowsOrdered

\* What a step makes of the calls.
LEMMA CallMoves ==
    ASSUME ParserTyped, CellTyped, [Next]_vars, NEW c \in 1..MaxCalls
    PROVE  \/ (Sync \/ ForkAll) /\ StatementsMove
           \/ /\ ~Sync /\ ~ForkAll
              /\ \/ calls'[c] = calls[c] \/ calls'[c] = Idle
                 \/ FindSubAccountAutoMintStatements(c) \/ CheckHistory(c)
                 \/ CheckPending(c) \/ FindSubAccountAutoMintStatements2(c)
<1>1. CASE Sync \/ ForkAll
  BY <1>1 DEF Sync, ForkAll
<1>2. CASE Sending \/ Building
  <2>1. calls' = calls \/ \E d \in 1..MaxCalls : calls' = [calls EXCEPT ![d] = Idle]
    BY <1>2, SendIs, BuildIs DEF buildTx, withdrawalVars, Building
  <2>2. calls'[c] = calls[c] \/ calls'[c] = Idle
    BY <2>1 DEF CellTyped
  <2> QED
    BY <1>1, <2>2
<1>3. CASE CallSteps
  <2>1. PICK d \in 1..MaxCalls :
          buildServiceProviderWithdraw(d) \/ buildServiceProviderWithdraw2Tx(d) \/ CallFails(d)
    BY <1>3 DEF CallSteps
  <2>2. \E call : calls' = [calls EXCEPT ![d] = call]
    BY <2>1 DEF buildServiceProviderWithdraw, buildServiceProviderWithdraw2Tx, CallFails, Goes, Begins,
                FindSubAccountAutoMintStatements, CheckHistory, CheckPending,
                FindSubAccountAutoMintStatements2
  <2>3. CASE c # d
    BY <1>1, <2>2, <2>3 DEF CellTyped
  <2>4. CASE c = d
    <3>1. CallFails(c) => calls'[c] = Idle
      BY DEF CallFails, Goes, CellTyped
    <3> QED
      BY <1>1, <2>1, <2>4, <3>1 DEF buildServiceProviderWithdraw, buildServiceProviderWithdraw2Tx
  <2> QED
    BY <2>3, <2>4
<1>4. CASE \/ \E t \in Ids : doActionNormal(t) \/ CreateTask(t) \/ LoseRow(t) \/ Evict(t) \/ MineTx(t)
           \/ Update \/ doCheckTx \/ MineOther
           \/ HandleBlock \/ HandleAgain \/ ParserFault \/ UNCHANGED vars
  <2>1. UNCHANGED calls
    BY <1>4 DEF doActionNormal, CreateTask, LoseRow, Evict, MineTx, Update, doCheckTx, MineOther,
                HandleBlock, HandleAgain, ParserFault, Handler, vars, cellVars, withdrawalVars
  <2> QED
    BY <1>1, <2>1
<1> QED
  BY <1>1, <1>2, <1>3, <1>4, NextIs DEF Building

\* What is on the chain stays there.
LEMMA ChainKept ==
    ASSUME ParserTyped, CellTyped, Placed, [Next]_vars
    PROVE  /\ OnChain \subseteq OnChain' /\ OnChain' \subseteq OnChain \cup pool \cup {NewId}
           /\ pool' \subseteq pool \cup signing \cup {NewId}
BY Moves DEF SameChain, Joins

LEMMA NextPays ==
    ASSUME ParserTyped, CellTyped, Placed, PaysKept, [Next]_vars
    PROVE  PaysKept'
<1>1. /\ \A u \in 1..Len(txs) : txs'[u] = txs[u]
      /\ 1..Len(txs) \subseteq 1..Len(txs')
      /\ Len(txs) \in Nat /\ OnChain \subseteq 1..Len(txs)
      /\ signing \cup pool \subseteq 1..Len(txs)
      /\ NewId # 0 /\ NewId \notin OnChain /\ NewId = Len(txs) + 1
      /\ NewId \notin 1..Len(txs)
  BY TxsStay, CellKnown, NewIdIsNew DEF CellTyped
<1>2. ASSUME NEW c \in 1..MaxCalls PROVE calls'[c].pays \subseteq OnChain'
  <2>1. OnChain \subseteq OnChain' /\ calls[c].pays \subseteq OnChain
    BY ChainKept DEF PaysKept
  <2>2. calls \in [1..MaxCalls -> Call] /\ calls[c] \in Call
    BY CellKnown DEF CellTyped
  <2>3. \A since : Incomes(since) \subseteq OnChain
    BY DEF Incomes, OnChain
  <2>4. CASE StatementsMove
    <3>1. calls'[c].pays = calls[c].pays
      BY <2>2, <2>4 DEF StatementsMove, Call
    <3> QED
      BY <2>1, <3>1
  <2>5. CASE calls'[c] = calls[c]
    BY <2>1, <2>5
  <2>6. CASE calls'[c] = Idle
    BY <2>6 DEF Idle
  <2>7. CASE FindSubAccountAutoMintStatements(c)
    BY <2>1, <2>2, <2>3, <2>7 DEF FindSubAccountAutoMintStatements, Begins, Goes
  <2>8. CASE CheckHistory(c)
    BY <2>1, <2>2, <2>8 DEF CheckHistory, Goes, Call
  <2>9. CASE CheckPending(c)
    BY <2>1, <2>2, <2>9 DEF CheckPending, Begins, Goes
  <2>10. CASE FindSubAccountAutoMintStatements2(c)
    BY <2>1, <2>2, <2>3, <2>10 DEF FindSubAccountAutoMintStatements2, Goes, Call
  <2> QED
    BY <2>4, <2>5, <2>6, <2>7, <2>8, <2>9, <2>10, CallMoves
\* What holds of the transactions there are, however they move.
<1>3. ASSUME \A t \in 1..Len(txs') : t \in 1..Len(txs) \/ (t = NewId
                                       /\ (txs'[t].kind \notin Withdrawals => txs'[t].pays = {})),
             \A t \in signing' : txs'[t].kind \in Signed,
             \/ /\ SameChain
                /\ \A t \in OnChain' \cup pool' :
                     t \in OnChain \cup pool \/ txs'[t].pays \subseteq OnChain
             \/ \E t \in pool \cup {NewId} :
                  Joins(t) /\ pool' = {} /\ (t = NewId => txs'[t].pays = {} /\ pool = {})
      PROVE  PaysKept'
  <2>1. \A t \in 1..Len(txs') : txs'[t].kind \notin Withdrawals => txs'[t].pays = {}
    BY <1>1, <1>3 DEF PaysKept, Kind
  <2>2. ASSUME NEW t \in OnChain' \cup pool', NEW i \in txs'[t].pays
        PROVE  i \in OnChain' /\ (t \in OnChain' => Before(i, t)')
    <3>1. CASE t \in OnChain \cup pool
      <4>1. i \in txs[t].pays /\ i \in OnChain /\ (t \in OnChain => Before(i, t))
        BY <1>1, <2>2, <3>1 DEF PaysKept
      <4>2. i # 0 /\ t # 0
        BY <1>1, <3>1, <4>1
      <4>3. CASE SameChain
        <5>1. t \in OnChain' => t \in OnChain
          BY <4>3 DEF SameChain
        <5> QED
          BY <4>1, <4>2, <4>3, <5>1 DEF SameChain
      <4>4. ASSUME NEW u \in pool \cup {NewId}, Joins(u)
            PROVE  i \in OnChain' /\ (t \in OnChain' => Before(i, t)')
        BY <4>1, <4>2, <4>4 DEF Joins
      <4> QED
        BY <1>3, <4>3, <4>4
    <3>2. CASE t \notin OnChain \cup pool
      <4>1. CASE SameChain /\ txs'[t].pays \subseteq OnChain
        BY <2>2, <3>2, <4>1 DEF SameChain
      <4>2. ASSUME NEW u \in pool \cup {NewId}, Joins(u), pool' = {}, u = NewId => txs'[u].pays = {}
            PROVE  FALSE
        BY <2>2, <3>2, <4>2 DEF Joins
      <4> QED
        BY <1>3, <2>2, <3>2, <4>1, <4>2
    <3> QED
      BY <3>1, <3>2
  <2> QED
    BY <1>2, <1>3, <2>1, <2>2 DEF PaysKept, Kind
<1>4. ASSUME UNCHANGED txs PROVE \A t \in 1..Len(txs') : t \in 1..Len(txs)
  BY <1>4
<1>5. CASE Building /\ SameChain /\ pool' = pool /\ signing' = signing \cup {NewId}
  <2>1. PICK kind \in Signed, named \in BOOLEAN, rules \in Fresh, hash \in Fresh :
          buildTx(kind, named, rules, hash)
    BY <1>5, BuildIs DEF Building
  <2>2. NewTx(kind, named, rules, hash, {}) /\ kind \in Kinds /\ {} \in SUBSET Ids
    BY <2>1 DEF buildTx, Kinds
  <2>3. txs'[NewId].kind = kind /\ txs'[NewId].pays = {} /\ Len(txs') = Len(txs) + 1
    BY <2>2, NewTxIs
  <2>4. \A t \in 1..Len(txs') : t \in 1..Len(txs) \/ (t = NewId
                                       /\ (txs'[t].kind \notin Withdrawals => txs'[t].pays = {}))
    BY <1>1, <2>3
  <2>5. \A t \in signing' : txs'[t].kind \in Signed
    BY <1>1, <1>5, <2>3 DEF PaysKept, Kind
  <2>6. \A t \in OnChain' \cup pool' : t \in OnChain \cup pool
    BY <1>5 DEF SameChain
  <2> QED
    BY <1>3, <1>5, <2>4, <2>5, <2>6
<1>6. CASE \E t \in signing : /\ SameChain /\ pool = {} /\ pool' = {t} /\ signing' = signing \ {t}
                              /\ UNCHANGED txs
  <2>1. PICK t \in signing : /\ SameChain /\ pool = {} /\ pool' = {t} /\ signing' = signing \ {t}
                             /\ UNCHANGED txs
    BY <1>6
  <2>2. Kind(t) \in Signed /\ t \in 1..Len(txs)
    BY <1>1 DEF PaysKept
  <2>3. Kind(t) \notin Withdrawals
    BY <2>2 DEF Signed, Withdrawals
  <2>4. txs'[t].pays = {}
    BY <2>1, <2>2, <2>3 DEF PaysKept
  <2>5. \A u \in signing' : txs'[u].kind \in Signed
    BY <2>1 DEF PaysKept, Kind
  <2>6. \A u \in OnChain' \cup pool' : u \in OnChain \cup pool \/ txs'[u].pays \subseteq OnChain
    BY <2>1, <2>4 DEF SameChain
  <2> QED
    BY <1>3, <1>4, <2>1, <2>5, <2>6
<1>7. CASE SameChain /\ pool' \subseteq pool /\ signing' = signing /\ UNCHANGED txs
  <2>1. \A u \in signing' : txs'[u].kind \in Signed
    BY <1>7 DEF PaysKept, Kind
  <2>2. \A u \in OnChain' \cup pool' : u \in OnChain \cup pool
    BY <1>7 DEF SameChain
  <2> QED
    BY <1>3, <1>4, <1>7, <2>1, <2>2
<1>8. CASE \E t \in pool : Joins(t) /\ pool = {t} /\ pool' = {} /\ signing' = {} /\ UNCHANGED txs
  <2>1. PICK t \in pool : Joins(t) /\ pool = {t} /\ pool' = {} /\ signing' = {} /\ UNCHANGED txs
    BY <1>8
  <2>2. \A u \in signing' : txs'[u].kind \in Signed
    BY <2>1
  <2>3. t # NewId
    BY <1>1
  <2> QED
    BY <1>3, <1>4, <2>1, <2>2, <2>3
<1>9. CASE Update /\ Joins(NewId) /\ pool = {} /\ pool' = {} /\ signing' = {}
  <2>1. NewTx("update", FALSE, HashOf(LiveCell), HashOf(LiveCell), {})
    BY <1>9 DEF Update
  <2>2. "update" \in Kinds /\ HashOf(LiveCell) \in Fresh /\ {} \in SUBSET Ids
    BY ListsKnown DEF Kinds
  <2>3. txs'[NewId].kind = "update" /\ txs'[NewId].pays = {} /\ Len(txs') = Len(txs) + 1
    BY <2>1, <2>2, NewTxIs
  <2>4. \A t \in 1..Len(txs') : t \in 1..Len(txs) \/ (t = NewId
                                       /\ (txs'[t].kind \notin Withdrawals => txs'[t].pays = {}))
    BY <1>1, <2>3
  <2> QED
    BY <1>3, <1>9, <2>3, <2>4
<1>10. CASE Sending /\ SameChain /\ pool = {} /\ pool' = {NewId} /\ signing' = signing
  <2>1. PICK kind \in {"profit"} \cup Withdrawals, rules \in Fresh, pays \in SUBSET Ids :
          /\ Accepted(LiveCell)
          /\ NewTx(kind, FALSE, rules, HashOf(LiveCell), pays)
          /\ pool' = pool \cup {NewId} /\ unsaved' = unsaved \cup {NewId}
          /\ UNCHANGED <<parserVars, signing, tasks, whitelist, lost, history, synced, evicted, twice>>
          /\ \/ kind = "profit" /\ pays = {} /\ UNCHANGED calls
             \/ \E c \in 1..MaxCalls :
                   /\ calls[c].pc = "send" /\ kind = calls[c].kind /\ pays = calls[c].pays
                   /\ calls' = [calls EXCEPT ![c] = Idle]
          /\ \A type \in Types : rules[type] \in {0, RulesOf(LiveCell)[type]}
    BY <1>10, SendIs
  <2>2. kind \in Kinds /\ HashOf(LiveCell) \in Fresh
    BY ListsKnown DEF Kinds
  <2>3. txs'[NewId].kind = kind /\ txs'[NewId].pays = pays /\ Len(txs') = Len(txs) + 1
    BY <2>1, <2>2, NewTxIs
  <2>4. kind \notin Withdrawals => pays = {}
    BY <2>1, CellKnown DEF Call
  <2>5. pays \subseteq OnChain
    BY <2>1 DEF PaysKept
  <2>6. \A u \in signing' : txs'[u].kind \in Signed
    BY <1>1, <1>10 DEF PaysKept, Kind
  <2>7. \A t \in 1..Len(txs') : t \in 1..Len(txs) \/ (t = NewId
                                       /\ (txs'[t].kind \notin Withdrawals => txs'[t].pays = {}))
    BY <1>1, <2>3, <2>4
  <2>8. \A t \in OnChain' \cup pool' : t \in OnChain \cup pool \/ txs'[t].pays \subseteq OnChain
    BY <1>10, <2>3, <2>5 DEF SameChain
  <2> QED
    BY <1>3, <1>10, <2>6, <2>7, <2>8
<1>11. CASE \E t \in pool : SameChain /\ pool = {t} /\ pool' = {} /\ signing' = signing /\ UNCHANGED txs
  BY <1>7, <1>11
<1> QED
  BY <1>5, <1>6, <1>7, <1>8, <1>9, <1>10, <1>11, Moves

\* The history grows, by rows of transactions that were just sent.
LEMMA HistoryGrows ==
    ASSUME ParserTyped, CellTyped, [Next]_vars
    PROVE  /\ \/ UNCHANGED history
              \/ \E t \in unsaved : /\ history' = Append(history, t) /\ Kind(t) = "withdraw"
                                    /\ UNCHANGED <<main, txs, pool>> /\ unsaved' = unsaved \ {t}
           /\ unsaved' \subseteq unsaved \cup signing \cup {NewId}
<1>1. CASE Sending \/ Building \/ CallSteps
  BY <1>1, SendIs, BuildIs, CallStepIs DEF buildTx, withdrawalVars, Building
<1>2. ASSUME NEW t \in Ids, CreateTask(t)
      PROVE  /\ t \in unsaved /\ unsaved' = unsaved \ {t} /\ UNCHANGED <<main, txs, pool>>
             /\ history' = IF Kind(t) = "withdraw" THEN Append(history, t) ELSE history
  BY <1>2 DEF CreateTask, Kind, parserVars
<1>3. CASE \/ \E t \in Ids : doActionNormal(t) \/ LoseRow(t) \/ Evict(t) \/ MineTx(t)
           \/ Update \/ doCheckTx \/ MineOther \/ ForkAll \/ Sync
           \/ HandleBlock \/ HandleAgain \/ ParserFault \/ UNCHANGED vars
  BY <1>3 DEF doActionNormal, LoseRow, Evict, MineTx, Update, doCheckTx, MineOther, ForkAll, Sync,
              HandleBlock, HandleAgain, ParserFault, Handler, vars, cellVars, withdrawalVars
<1> QED
  BY <1>1, <1>2, <1>3, NextIs DEF Building

LEMMA NextHistory ==
    ASSUME ParserTyped, CellTyped, Placed, Saved, RowsKept, PaysKept, HistoryKept, [Next]_vars
    PROVE  HistoryKept'
<1>1. /\ \A u \in 1..Len(txs) : txs'[u] = txs[u]
      /\ 1..Len(txs) \subseteq 1..Len(txs')
      /\ NewId \notin 1..Len(txs) /\ 0 \notin 1..Len(txs)
      /\ pool \cup unsaved \subseteq 1..Len(txs)
      /\ Len(history) \in Nat /\ history \in Seq(Ids)
  BY TxsStay, CellKnown, NewIdIsNew DEF CellTyped
<1>2. \A t \in signing : Kind(t) # "withdraw"
  BY DEF PaysKept, Signed
<1>3. CASE UNCHANGED history
  <2>1. ASSUME NEW k \in 1..Len(history)
        PROVE  /\ history[k] \in 1..Len(txs') /\ txs'[history[k]].kind = "withdraw"
               /\ history[k] \notin unsaved'
               /\ history[k] \in pool' => k = Len(history)
    <3>1. /\ history[k] \in 1..Len(txs) /\ Kind(history[k]) = "withdraw"
          /\ history[k] \notin unsaved /\ (history[k] \in pool => k = Len(history))
      BY DEF HistoryKept
    <3>2. history[k] \notin signing \cup {NewId}
      BY <1>1, <1>2, <3>1
    <3>3. history[k] \notin unsaved' /\ (history[k] \in pool' => history[k] \in pool)
      BY <3>1, <3>2, HistoryGrows, ChainKept
    <3> QED
      BY <1>1, <3>1, <3>3 DEF Kind
  <2>2. ASSUME NEW j \in 1..Len(history), NEW k \in 1..Len(history), j < k,
               NEW x, NEW y, x = history[j], y = history[k], x \in OnChain', y \in OnChain'
        PROVE  Before(x, y)'
    <3>1. /\ x \in 1..Len(txs) /\ y \in 1..Len(txs)
          /\ (x \in OnChain /\ y \in OnChain => Before(x, y))
          /\ (x \in pool => j = Len(history))
      BY <2>2 DEF HistoryKept
    <3>2. x # 0 /\ y # 0 /\ x # NewId /\ y # NewId /\ x \notin pool
      BY <1>1, <2>2, <3>1
    <3>3. CASE SameChain
      BY <2>2, <3>1, <3>2, <3>3 DEF SameChain
    <3>4. ASSUME NEW u \in pool \cup {NewId}, Joins(u) PROVE Before(x, y)'
      BY <2>2, <3>1, <3>2, <3>4 DEF Joins
    <3> QED
      BY <3>3, <3>4, Moves
  <2>3. ASSUME NEW j \in 1..Len(history), NEW k \in 1..Len(history), j < k,
               history[j] \in OnChain', history[k] \in OnChain'
        PROVE  Before(history[j], history[k])'
    <3>1. PICK x : x = history[j]
      OBVIOUS
    <3>2. PICK y : y = history[k]
      OBVIOUS
    <3>3. Before(x, y)'
      BY <2>2, <2>3, <3>1, <3>2
    <3> QED
      BY <1>3, <3>1, <3>2, <3>3 DEF Before
  <2> QED
    BY <1>3, <2>1, <2>3 DEF HistoryKept, Kind
<1>4. CASE \E t \in unsaved : /\ history' = Append(history, t) /\ Kind(t) = "withdraw"
                              /\ UNCHANGED <<main, txs, pool>> /\ unsaved' = unsaved \ {t}
  <2>1. PICK t \in unsaved : /\ history' = Append(history, t) /\ Kind(t) = "withdraw"
                             /\ UNCHANGED <<main, txs, pool>> /\ unsaved' = unsaved \ {t}
    BY <1>4
  <2>2. /\ Len(history') = Len(history) + 1 /\ history'[Len(history) + 1] = t
        /\ \A k \in 1..Len(history) : history'[k] = history[k]
    BY <1>1, <2>1
  <2>3. \A k \in 1..Len(history') : k \in 1..Len(history) \/ k = Len(history) + 1
    BY <1>1, <2>2
  <2>4. OnChain' = OnChain /\ \A x, y : Before(x, y)' <=> Before(x, y)
    BY <2>1, ChainWaits
  <2>5. t \in pool /\ t \notin OnChain /\ t \in 1..Len(txs)
    BY <1>1 DEF RowsKept, Placed, Apart
  <2>6. \A k \in 1..Len(history) : history[k] \notin pool
    BY <2>5 DEF HistoryKept, Placed, SpendsLive
  <2>7. ASSUME NEW k \in 1..Len(history')
        PROVE  /\ history'[k] \in 1..Len(txs') /\ txs'[history'[k]].kind = "withdraw"
               /\ history'[k] \notin unsaved'
               /\ history'[k] \in pool' => k = Len(history')
    <3>1. CASE k = Len(history) + 1
      BY <1>1, <2>1, <2>2, <2>5, <3>1 DEF Kind
    <3>2. CASE k \in 1..Len(history)
      BY <2>1, <2>2, <2>6, <3>2 DEF HistoryKept, Kind
    <3> QED
      BY <2>3, <3>1, <3>2
  <2>8. ASSUME NEW j \in 1..Len(history'), NEW k \in 1..Len(history'), j < k,
               history'[j] \in OnChain', history'[k] \in OnChain'
        PROVE  Before(history[j], history[k])'
    <3>1. j \in 1..Len(history) /\ k \in 1..Len(history)
      BY <2>2, <2>3, <2>4, <2>5, <2>8
    <3>2. PICK x : x = history[j]
      OBVIOUS
    <3>3. PICK y : y = history[k]
      OBVIOUS
    <3>4. x = history'[j] /\ y = history'[k]
      BY <2>2, <3>1, <3>2, <3>3
    <3>5. Before(x, y)
      BY <2>4, <2>8, <3>1, <3>2, <3>3, <3>4 DEF HistoryKept
    <3>6. Before(x, y)'
      BY <2>4, <3>5
    <3> QED
      BY <3>4, <3>6 DEF Before
  <2> QED
    BY <2>7, <2>8 DEF HistoryKept, Kind
<1> QED
  BY <1>3, <1>4, HistoryGrows

\* The latest expenditure has the highest number.
LEMMA ExpendituresEnd ==
    ASSUME ParserTyped, Unique
    PROVE  /\ \A u \in Expenditures : NumberOf(u) <= LatestExpenditure
           /\ \A u \in Expenditures : NumberOf(u) \in Nat
           /\ LatestExpenditure \in Nat
<1>1. Tip \in Nat /\ Expenditures \subseteq OnChain
  BY ChainKnown DEF Expenditures, OnChain
<1>2. \A u \in Expenditures : NumberOf(u) \in 1..Tip
  BY <1>1, ChainOrder
<1>3. CASE Expenditures = {}
  BY <1>3 DEF LatestExpenditure
<1>4. CASE Expenditures # {}
  <2> DEFINE S == {NumberOf(u) : u \in Expenditures}
  <2>1. S \subseteq 0..Tip /\ S # {}
    BY <1>1, <1>2, <1>4
  <2>2. \E n \in S : \A k \in S : k <= n
    <3> HIDE DEF S
    <3> QED
      BY <1>1, <2>1, LargestExists
  <2>3. \E t \in Expenditures : \A u \in Expenditures : NumberOf(u) <= NumberOf(t)
    BY <2>2
  <2>4. PICK t : t = CHOOSE v \in Expenditures : \A u \in Expenditures : NumberOf(u) <= NumberOf(v)
    OBVIOUS
  <2>5. t \in Expenditures /\ \A u \in Expenditures : NumberOf(u) <= NumberOf(t)
    BY <2>3, <2>4
  <2>6. LatestExpenditure = NumberOf(t)
    BY <1>4, <2>4 DEF LatestExpenditure
  <2> QED
    BY <1>1, <1>2, <2>5, <2>6
<1> QED
  BY <1>3, <1>4

\* A list of incomes that starts no earlier than the latest expenditure has nothing
\* that a withdrawal with its statement pays.
LEMMA PaidBefore ==
    ASSUME ParserTyped, CellTyped, Placed, PaysKept, NEW u \in 1..Len(txs), Kind(u) \in Withdrawals,
           Statement(u), NEW since \in Int, since >= LatestExpenditure
    PROVE  txs[u].pays \cap Incomes(since) = {}
<1> SUFFICES ASSUME NEW i \in txs[u].pays, i \in Incomes(since) PROVE FALSE
  OBVIOUS
<1>1. OnChain \subseteq 1..Len(txs) /\ Unique /\ u \in OnChain
  BY CellKnown DEF Placed, Statement, OnChain
<1>2. u \in Expenditures
  BY <1>1 DEF Expenditures, Kind, OnChain
<1>3. NumberOf(u) <= LatestExpenditure /\ NumberOf(u) \in Nat /\ LatestExpenditure \in Nat
  BY <1>1, <1>2, ExpendituresEnd
<1>4. i \in OnChain /\ Before(i, u)
  BY <1>1 DEF PaysKept
<1>5. NumberOf(i) < NumberOf(u) /\ NumberOf(i) \in Nat
  <2>1. Tip \in Nat
    BY ChainKnown
  <2> QED
    BY <1>1, <1>4, <2>1, ChainOrder
<1>6. NumberOf(i) > since
  BY DEF Incomes
<1> QED
  BY <1>3, <1>5, <1>6

\* What is before a transaction that has its statement has its own.
LEMMA StatementBefore ==
    ASSUME ParserTyped, CellTyped, Unique, NEW u \in OnChain, NEW v, Statement(v),
           v = u \/ Before(u, v)
    PROVE  Statement(u)
<1>1. Tip \in Nat /\ synced \in Nat
  BY ChainKnown DEF CellTyped
<1>2. v \in OnChain /\ NumberOf(v) \in Nat /\ NumberOf(v) <= synced /\ NumberOf(u) \in Nat
  BY <1>1, ChainOrder DEF Statement, OnChain
<1>3. NumberOf(u) <= NumberOf(v)
  BY <1>2, ChainOrder
<1> QED
  BY <1>1, <1>2, <1>3 DEF Statement, OnChain

\* The older endpoint: when the last withdrawal of its history has its statement, the
\* others of it that are on the chain have theirs, and none is in the pool.
LEMMA HistorySynced ==
    ASSUME ParserTyped, CellTyped, Placed, HistoryKept,
           history # <<>> => Statement(Last(history)),
           NEW k \in 1..Len(history), history[k] \in OnChain \cup pool
    PROVE  Statement(history[k])
<1>1. history \in Seq(Ids) /\ Len(history) \in Nat
  BY DEF CellTyped
<1>2. history # <<>> /\ Len(history) \in 1..Len(history) /\ Last(history) = history[Len(history)]
  BY <1>1 DEF Last
<1>3. PICK v : v = history[Len(history)]
  OBVIOUS
<1>4. Statement(v) /\ v \in OnChain
  BY <1>2, <1>3 DEF Statement, OnChain
<1>5. PICK u : u = history[k]
  OBVIOUS
<1>6. u \in OnChain
  BY <1>3, <1>4, <1>5 DEF HistoryKept, Placed, Apart
<1>7. k = Len(history) \/ k < Len(history)
  BY <1>1
<1>8. v = u \/ Before(u, v)
  BY <1>2, <1>3, <1>4, <1>5, <1>6, <1>7 DEF HistoryKept
<1> QED
  BY <1>4, <1>5, <1>6, <1>8, StatementBefore DEF Placed

\* The other endpoint: when no row is pending and the last one committed has its
\* statement, each withdrawal that has a row and is not evicted has its statement.
LEMMA RowsSynced ==
    ASSUME ParserTyped, CellTyped, Placed, RowsKept, RowsOrdered, NoPendingWithdrawal,
           NEW i \in RowsOf(Withdrawals, Statuses), tasks[i].tx \in OnChain \cup pool
    PROVE  Statement(tasks[i].tx)
<1> DEFINE S == RowsOf(Withdrawals, {"committed"})
<1>1. i \in 1..Len(tasks) /\ Kind(tasks[i].tx) \in Withdrawals /\ tasks[i].status \in Statuses
  BY DEF RowsOf, Kind
<1>2. PICK u : u = tasks[i].tx
  OBVIOUS
<1>3. u # 0
  BY <1>2, CellKnown DEF CellTyped
<1>4. tasks[i].status # "pending"
  BY <1>1 DEF NoPendingWithdrawal, RowsOf, Kind
<1>5. tasks[i].status # "rejected"
  BY <1>1, <1>2, <1>3 DEF RowsKept, Placed, Apart
<1>6. tasks[i].status = "committed"
  BY <1>1, <1>4, <1>5 DEF Statuses
<1>7. i \in S /\ u \in OnChain
  BY <1>1, <1>2, <1>3, <1>6 DEF RowsOf, Kind, RowsKept
<1>8. Len(tasks) \in Nat /\ S \subseteq 0..Len(tasks)
  BY CellKnown DEF RowsOf
<1>9. PICK m \in S : \A k \in S : k <= m
  <2>1. S # {}
    BY <1>7
  <2> HIDE DEF S
  <2> QED
    BY <1>8, <2>1, LargestExists
<1>10. m \in 1..Len(tasks) /\ Kind(tasks[m].tx) \in Withdrawals
  BY <1>9 DEF RowsOf, Kind
<1>11. PICK v : v = tasks[m].tx
  OBVIOUS
<1>12. Statement(v)
  <2>1. m \in Latest(S)
    BY <1>9 DEF Latest
  <2> QED
    BY <1>11, <2>1 DEF NoPendingWithdrawal
<1>13. v \in OnChain /\ v # 0
  BY <1>12, OnChainIs DEF Statement, OnChain
<1>14. WithdrawalRow(i) /\ WithdrawalRow(m)
  BY <1>1, <1>2, <1>3, <1>10, <1>11, <1>13 DEF WithdrawalRow
<1>15. i = m \/ i < m
  BY <1>7, <1>8, <1>9
<1>16. v = u \/ Before(u, v)
  BY <1>1, <1>2, <1>7, <1>10, <1>11, <1>13, <1>14, <1>15 DEF RowsOrdered
<1> QED
  BY <1>2, <1>7, <1>12, <1>16, StatementBefore DEF Placed

\* Statements come and go only with the syncer and a fork.
LEMMA StatementStays ==
    ASSUME ParserTyped, CellTyped, Placed, [Next]_vars, ~Sync, ~ForkAll, NEW t
    PROVE  Statement(t)' <=> Statement(t)
<1>1. ASSUME UNCHANGED <<main, synced>> PROVE Statement(t)' <=> Statement(t)
  BY <1>1 DEF Statement, Mined, NumberOf, Tip
<1>2. ASSUME NEW x \in Nat, Mine(x), x \notin OnChain, UNCHANGED synced
      PROVE  Statement(t)' <=> Statement(t)
  <2>1. /\ Tip' = Tip + 1 /\ Tip \in Nat
        /\ \A n \in 1..Tip : main'[n] = main[n]
        /\ main'[Tip + 1].tx = x /\ ParserTyped'
    BY <1>2, MineTyped, ChainKnown
  <2>2. \A y : y \in OnChain' <=> y # 0 /\ \E n \in 1..Tip' : main'[n].tx = y
    BY DEF OnChain, Mined, Tip
  <2>3. PICK m : m = CHOOSE n \in 1..Tip' : main'[n].tx = t
    OBVIOUS
  <2>4. NumberOf(t)' = m /\ (Statement(t)' <=> t \in OnChain' /\ m <= synced')
    BY <2>3 DEF NumberOf, Statement, OnChain
  <2>5. t \in OnChain' => m \in 1..Tip' /\ main'[m].tx = t
    BY <2>2, <2>3
  <2>6. synced \in 0..Tip
    BY DEF CellTyped
  <2>7. CASE t \in OnChain
    <3>1. NumberOf(t) \in 1..Tip /\ main[NumberOf(t)].tx = t /\ t # 0
      BY <2>7, ChainOrder, OnChainIs DEF Placed
    <3>2. t \in OnChain'
      BY <2>1, <2>2, <3>1
    <3>3. m \in 1..Tip /\ main[m].tx = t
      BY <1>2, <2>1, <2>5, <2>7, <3>2
    <3>4. m = NumberOf(t)
      BY <3>1, <3>3 DEF Placed, Unique
    <3> QED
      BY <1>2, <2>4, <2>7, <3>2, <3>4 DEF Statement, OnChain
  <2>8. CASE t \notin OnChain
    <3>1. ~Statement(t)
      BY <2>8 DEF Statement, OnChain
    <3>2. ASSUME t \in OnChain' PROVE m = Tip + 1
      <4>1. m \in 1..Tip' /\ main'[m].tx = t /\ t # 0
        BY <2>2, <2>5, <3>2
      <4>2. m \notin 1..Tip
        BY <2>1, <2>8, <4>1, OnChainIs
      <4> QED
        BY <2>1, <4>1, <4>2
    <3> QED
      BY <1>2, <2>1, <2>4, <2>6, <3>1, <3>2
  <2> QED
    BY <2>7, <2>8
<1>3. CASE Sending \/ Building \/ CallSteps
  BY <1>1, <1>3, SendIs, BuildIs, CallStepIs DEF buildTx, parserVars, Building
<1>4. ASSUME NEW u \in Ids, MineTx(u) PROVE Statement(t)' <=> Statement(t)
  <2>1. u \in pool /\ Mine(u) /\ UNCHANGED synced
    BY <1>4 DEF MineTx
  <2>2. u \in Nat /\ u \notin OnChain
    BY <2>1, CellKnown DEF CellTyped, Placed, Apart
  <2> QED
    BY <1>2, <2>1, <2>2
<1>5. CASE Update
  BY <1>2, <1>5, NewIdIsNew DEF Update
<1>6. CASE MineOther
  <2>1. 0 \notin OnChain
    BY OnChainIs
  <2> QED
    BY <1>2, <1>6, <2>1 DEF MineOther, cellVars
<1>7. CASE HandleBlock
  <2>1. UNCHANGED main
    BY <1>7, HandledTyped, SteppedTyped DEF HandleBlock
  <2>2. UNCHANGED synced
    BY <1>7 DEF HandleBlock, Handler, cellVars
  <2> QED
    BY <1>1, <2>1, <2>2
<1>8. CASE \/ \E u \in Ids : doActionNormal(u) \/ CreateTask(u) \/ LoseRow(u) \/ Evict(u)
           \/ doCheckTx \/ HandleAgain \/ ParserFault \/ UNCHANGED vars
  BY <1>1, <1>8 DEF doActionNormal, CreateTask, LoseRow, Evict, doCheckTx, HandleAgain, BrokenOff,
                    Handler, ParserFault, Broken, vars, parserVars, cellVars
<1> QED
  BY <1>3, <1>4, <1>5, <1>6, <1>7, <1>8, NextIs DEF Building

\* What a call may send: it enters the last step of its endpoint with nothing that the
\* withdrawals it knows of pay, and such a withdrawal is not sent again.
LEMMA NextCalls ==
    ASSUME ParserTyped, CellTyped, Placed, Saved, RowsKept, RowsOrdered, PaysKept, HistoryKept,
           CallsKept, PaidOnce, [Next]_vars
    PROVE  CallsKept' /\ PaidOnce'
<1>1. /\ \A u \in 1..Len(txs) : txs'[u] = txs[u]
      /\ 1..Len(txs) \subseteq 1..Len(txs') /\ NewId \notin 1..Len(txs)
      /\ Len(history) \in Nat /\ history \in Seq(Ids)
      /\ calls \in [1..MaxCalls -> Call] /\ calls' \in [1..MaxCalls -> Call]
  <2>1. CellTyped'
    BY NextTyped
  <2> QED
    BY <2>1, TxsStay, CellKnown, NewIdIsNew DEF CellTyped
<1>2. \A t \in 1..Len(txs) : Kind(t) \in Withdrawals /\ t \in OnChain' \cup pool' => t \in OnChain \cup pool
  <2>1. \A t \in signing : Kind(t) \notin Withdrawals
    BY DEF PaysKept, Signed, Withdrawals
  <2> QED
    BY <1>1, <2>1, ChainKept
<1>3. \A k \in 1..Len(history) : k \in 1..Len(history') /\ history'[k] = history[k]
  <2>1. UNCHANGED history \/ \E t \in unsaved : history' = Append(history, t)
    BY HistoryGrows
  <2>2. ASSUME NEW t, history' = Append(history, t)
        PROVE  \A k \in 1..Len(history) : k \in 1..Len(history') /\ history'[k] = history[k]
    BY <1>1, <2>2
  <2> QED
    BY <2>1, <2>2
<1> DEFINE CallOk(call) ==
               /\ \A t \in call.known : t \in 1..Len(txs') /\ txs'[t].kind \in Withdrawals
               /\ call.pc = "check" => \A t \in call.known :
                      /\ \E k \in 1..Len(history') : history'[k] = t
                      /\ Statement(t)' => txs'[t].pays \cap call.pays = {}
               /\ call.pc = "list" => \A t \in call.known \cap (OnChain' \cup pool') : Statement(t)'
               /\ call.pc = "send" => \A t \in call.known \cap (OnChain' \cup pool') :
                                          txs'[t].pays \cap call.pays = {}
<1>4. SUFFICES ASSUME NEW c \in 1..MaxCalls PROVE CallOk(calls'[c])
  BY DEF CallsKept, PaidOnce, Kind, OnChain
<1>5. PICK call \in Call : call = calls[c]
  BY <1>1
<1>6. /\ \A t \in call.known : t \in 1..Len(txs) /\ Kind(t) \in Withdrawals
      /\ call.pc = "check" => \A t \in call.known :
             /\ \E k \in 1..Len(history) : history[k] = t
             /\ Statement(t) => txs[t].pays \cap call.pays = {}
      /\ call.pc = "list" => \A t \in call.known \cap (OnChain \cup pool) : Statement(t)
      /\ call.pc = "send" => \A t \in call.known \cap (OnChain \cup pool) :
                                 txs[t].pays \cap call.pays = {}
  BY <1>5 DEF CallsKept, PaidOnce, OnChain
\* A call that only forgets some withdrawals.
<1>7. ASSUME NEW next \in Call, next.pc = call.pc, next.pays = call.pays, next.known \subseteq call.known,
             call.pc \in {"check", "list"} => \A t \in next.known : Statement(t)' <=> Statement(t)
      PROVE  CallOk(next)
  <2>1. \A t \in next.known : /\ t \in 1..Len(txs') /\ txs'[t] = txs[t] /\ Kind(t) \in Withdrawals
                              /\ t \in OnChain' \cup pool' => t \in OnChain \cup pool
    BY <1>1, <1>2, <1>6, <1>7
  <2>2. \A t \in next.known : t \in 1..Len(txs') /\ txs'[t].kind \in Withdrawals
    BY <2>1 DEF Kind
  <2>3. ASSUME next.pc = "check", NEW t \in next.known
        PROVE  /\ \E k \in 1..Len(history') : history'[k] = t
               /\ Statement(t)' => txs'[t].pays \cap next.pays = {}
    BY <1>3, <1>6, <1>7, <2>1, <2>3
  <2>4. ASSUME next.pc = "list", NEW t \in next.known \cap (OnChain' \cup pool') PROVE Statement(t)'
    BY <1>6, <1>7, <2>1, <2>4
  <2>5. ASSUME next.pc = "send", NEW t \in next.known \cap (OnChain' \cup pool')
        PROVE  txs'[t].pays \cap next.pays = {}
    BY <1>6, <1>7, <2>1, <2>5
  <2> QED
    BY <2>2, <2>3, <2>4, <2>5
<1> HIDE DEF CallOk
<1>8. CASE StatementsMove
  <2>1. calls'[c] = IF call.pc \in {"check", "list"}
                    THEN [call EXCEPT !.known = {t \in call.known : Statement(t) <=> Statement(t)'}]
                    ELSE call
    BY <1>1, <1>5, <1>8 DEF StatementsMove
  <2>2. PICK known : known = {t \in call.known : Statement(t) <=> Statement(t)'}
    OBVIOUS
  <2>3. CASE call.pc \in {"check", "list"}
    <3>1. PICK next : next = [call EXCEPT !.known = known]
      OBVIOUS
    <3>2. /\ next \in Call /\ next.pc = call.pc /\ next.pays = call.pays /\ next.known = known
      BY <2>2, <3>1 DEF Call
    <3>3. CallOk(next)
      BY <1>7, <2>2, <3>2
    <3> QED
      BY <2>1, <2>2, <2>3, <3>1, <3>3
  <2>4. CASE call.pc \notin {"check", "list"}
    BY <1>7, <2>1, <2>4
  <2> QED
    BY <2>3, <2>4
<1>9. CASE calls'[c] = Idle
  <2>1. PICK next : next = Idle
    OBVIOUS
  <2>2. next.pc = "idle" /\ next.known = {}
    BY <2>1 DEF Idle
  <2> QED
    BY <1>9, <2>1, <2>2 DEF CallOk
<1>10. CASE ~Sync /\ ~ForkAll /\ calls'[c] = calls[c]
  BY <1>5, <1>7, <1>10, StatementStays
\* A step of the call: the rest stays as it is.
<1>11. ASSUME NEW next \in Call, Goes(c, next) PROVE calls'[c] = next /\ UNCHANGED <<main, txs, pool, history>>
              /\ OnChain' = OnChain
  BY <1>1, <1>11, ChainWaits DEF Goes, parserVars
<1>12. CASE ~Sync /\ ~ForkAll /\ FindSubAccountAutoMintStatements(c)
  <2>1. PICK since \in LatestExpenditure..synced :
          Begins(c, [pc |-> "check", kind |-> "withdraw", pays |-> Incomes(since),
                     known |-> OnRecord("withdraw")])
    BY <1>12 DEF FindSubAccountAutoMintStatements
  <2>2. PICK next : next = [pc |-> "check", kind |-> "withdraw", pays |-> Incomes(since),
                            known |-> OnRecord("withdraw")]
    OBVIOUS
  <2>3. next.pc = "check" /\ next.pays = Incomes(since) /\ next.known = ToSet(history)
    BY <2>2 DEF OnRecord
  <2>4. ToSet(history) \subseteq Ids
    BY <1>1 DEF ToSet
  <2>5. next \in Call
    BY <2>2, <2>4, CellKnown DEF Call, OnRecord, Withdrawals
  <2>6. Goes(c, next)
    BY <2>1, <2>2 DEF Begins
  <2>7. /\ calls'[c] = next /\ UNCHANGED <<txs, history>>
    BY <1>11, <2>5, <2>6
  <2>8. since \in Int /\ since >= LatestExpenditure
    <3>1. LatestExpenditure \in Nat
      BY ExpendituresEnd DEF Placed
    <3>2. synced \in Nat
      BY ChainKnown DEF CellTyped
    <3> QED
      BY <2>1, <3>1, <3>2
  <2>9. ASSUME NEW t \in next.known
        PROVE  /\ t \in 1..Len(txs) /\ Kind(t) \in Withdrawals
               /\ \E k \in 1..Len(history) : history[k] = t
               /\ Statement(t)' => txs[t].pays \cap next.pays = {}
    <3>1. PICK k \in 1..Len(history) : history[k] = t
      BY <2>3 DEF ToSet
    <3>2. t \in 1..Len(txs) /\ Kind(t) \in Withdrawals
      BY <3>1 DEF HistoryKept, Withdrawals
    <3>3. Statement(t)' => Statement(t)
      BY <1>12, StatementStays
    <3>4. Statement(t) => txs[t].pays \cap Incomes(since) = {}
      BY <2>8, <3>2, PaidBefore
    <3> QED
      BY <2>3, <3>1, <3>2, <3>3, <3>4
  <2>10. CallOk(next)
    BY <2>3, <2>7, <2>9 DEF CallOk, Kind
  <2> QED
    BY <2>7, <2>10
<1>13. CASE ~Sync /\ ~ForkAll /\ CheckHistory(c)
  <2>1. call.pc = "check" /\ (history # <<>> => Statement(Last(history)))
    BY <1>5, <1>13 DEF CheckHistory
  <2>2. PICK next : next = [call EXCEPT !.pc = "send"]
    OBVIOUS
  <2>3. next \in Call /\ next.pc = "send" /\ next.pays = call.pays /\ next.known = call.known
    BY <2>2 DEF Call
  <2>4. Goes(c, next)
    BY <1>5, <1>13, <2>2 DEF CheckHistory
  <2>5. calls'[c] = next /\ UNCHANGED <<txs, pool>> /\ OnChain' = OnChain
    BY <1>11, <2>3, <2>4
  <2>6. ASSUME NEW t \in call.known \cap (OnChain \cup pool) PROVE txs[t].pays \cap call.pays = {}
    <3>1. PICK k \in 1..Len(history) : history[k] = t
      BY <1>6, <2>1
    <3>2. Statement(t)
      BY <2>1, <3>1, HistorySynced
    <3> QED
      BY <1>6, <2>1, <3>2
  <2>7. CallOk(next)
    BY <1>6, <2>3, <2>5, <2>6 DEF CallOk, Kind
  <2> QED
    BY <2>5, <2>7
<1>14. CASE ~Sync /\ ~ForkAll /\ CheckPending(c)
  <2>1. PICK next : next = [pc |-> "list", kind |-> "withdraw2", pays |-> {},
                            known |-> OnRecord("withdraw2")]
    OBVIOUS
  <2>2. /\ next.pc = "list" /\ next.pays = {}
        /\ next.known = {tasks[i].tx : i \in RowsOf(Withdrawals, Statuses)}
    BY <2>1 DEF OnRecord
  <2>3. \A i \in RowsOf(Withdrawals, Statuses) :
          /\ tasks[i].tx \in 1..Len(txs) /\ tasks[i].tx \in Ids /\ Kind(tasks[i].tx) \in Withdrawals
    <3> SUFFICES ASSUME NEW i \in RowsOf(Withdrawals, Statuses)
                 PROVE  /\ tasks[i].tx \in 1..Len(txs) /\ tasks[i].tx \in Ids
                        /\ Kind(tasks[i].tx) \in Withdrawals
      OBVIOUS
    <3>1. /\ i \in 1..Len(tasks) /\ tasks[i].status # "deleted" /\ Kind(tasks[i].tx) \in Withdrawals
      BY DEF RowsOf, Statuses, Kind
    <3>2. tasks[i] \in Row /\ tasks[i].tx \in 0..Len(txs)
      BY <3>1, CellKnown DEF Deleted
    <3>3. tasks[i].tx \in Ids /\ tasks[i].tx # 0
      BY <3>2, CellAssumption DEF Row, Ids
    <3> QED
      BY <3>1, <3>2, <3>3, CellKnown
  <2>4. next \in Call
    BY <2>1, <2>2, <2>3 DEF Call, Withdrawals
  <2>5. Goes(c, next) /\ NoPendingWithdrawal
    BY <1>14, <2>1 DEF CheckPending, Begins
  <2>6. calls'[c] = next /\ UNCHANGED <<txs, pool>> /\ OnChain' = OnChain
    BY <1>11, <2>4, <2>5
  <2>7. ASSUME NEW t \in next.known \cap (OnChain \cup pool) PROVE Statement(t)'
    <3>1. PICK i \in RowsOf(Withdrawals, Statuses) : t = tasks[i].tx
      BY <2>2
    <3>2. Statement(t)
      BY <2>5, <3>1, RowsSynced
    <3> QED
      BY <1>14, <3>2, StatementStays
  <2>8. \A t \in next.known : t \in 1..Len(txs) /\ Kind(t) \in Withdrawals
    BY <2>2, <2>3
  <2>9. CallOk(next)
    BY <2>2, <2>6, <2>7, <2>8 DEF CallOk, Kind
  <2> QED
    BY <2>6, <2>9
<1>15. CASE ~Sync /\ ~ForkAll /\ FindSubAccountAutoMintStatements2(c)
  <2>1. PICK incomes : incomes = Incomes(LatestExpenditure)
    OBVIOUS
  <2>2. PICK next : next = [call EXCEPT !.pc = "send", !.pays = incomes]
    OBVIOUS
  <2>3. incomes \subseteq Ids
    BY <2>1, CellKnown
  <2>4. next \in Call /\ next.pc = "send" /\ next.pays = incomes /\ next.known = call.known
    BY <2>2, <2>3 DEF Call
  <2>5. Goes(c, next) /\ call.pc = "list"
    BY <1>5, <1>15, <2>1, <2>2 DEF FindSubAccountAutoMintStatements2
  <2>6. calls'[c] = next /\ UNCHANGED <<txs, pool>> /\ OnChain' = OnChain
    BY <1>11, <2>4, <2>5
  <2>7. ASSUME NEW t \in call.known \cap (OnChain \cup pool) PROVE txs[t].pays \cap incomes = {}
    <3>1. Statement(t) /\ t \in 1..Len(txs) /\ Kind(t) \in Withdrawals
      BY <1>6, <2>5
    <3>2. LatestExpenditure \in Int /\ LatestExpenditure >= LatestExpenditure
      BY ExpendituresEnd DEF Placed
    <3> QED
      BY <2>1, <3>1, <3>2, PaidBefore
  <2>8. CallOk(next)
    BY <1>6, <2>4, <2>6, <2>7 DEF CallOk, Kind
  <2> QED
    BY <2>6, <2>8
<1> QED
  BY <1>8, <1>9, <1>10, <1>12, <1>13, <1>14, <1>15, CallMoves

LEMMA InitPaid == Init => RowsOrdered /\ PaysKept /\ HistoryKept /\ CallsKept /\ PaidOnce
<1> SUFFICES ASSUME Init PROVE RowsOrdered /\ PaysKept /\ HistoryKept /\ CallsKept /\ PaidOnce
  OBVIOUS
<1>1. pool = {} /\ signing = {} /\ Len(history) = 0 /\ Len(tasks) = 0
  BY DEF Init
<1>2. ParserTyped /\ CellTyped
  BY InitTyped
<1>3. \A t \in 1..Len(txs) : txs[t].pays = {}
  <2>1. CASE txs = <<>>
    BY <2>1
  <2>2. CASE txs = <<Enable>>
    <3>1. PICK e : e = Enable
      OBVIOUS
    <3>2. e.pays = {}
      BY <3>1 DEF Enable
    <3>3. \A t \in 1..Len(txs) : txs[t] = e
      BY <2>2, <3>1
    <3> QED
      BY <3>2, <3>3
  <2> QED
    BY <2>1, <2>2 DEF Init
<1>4. OnChain \subseteq 1..Len(txs)
  BY <1>2, CellKnown
<1>5. \A c \in 1..MaxCalls : calls[c].pc = "idle" /\ calls[c].known = {} /\ calls[c].pays = {}
  BY DEF Init, Idle
<1>6. RowsOrdered /\ HistoryKept
  BY <1>1 DEF RowsOrdered, HistoryKept
<1>7. PaysKept
  BY <1>1, <1>3, <1>4, <1>5 DEF PaysKept
<1>8. CallsKept /\ PaidOnce
  BY <1>5 DEF CallsKept, PaidOnce
<1> QED
  BY <1>6, <1>7, <1>8

\* [two withdrawals] PaidOnce: a call that is about to send a withdrawal pays nothing
\* that is paid by a withdrawal in the pool of the node or on the chain, if the check
\* of its endpoint could find that withdrawal when the call began.  It needs rows that
\* are written, or lost, before their transaction leaves the pool (Saved).
THEOREM IncomesArePaidOnce == Saved => (Spec => []PaidOnce)
<1> DEFINE Inv == /\ ParserTyped /\ CellTyped /\ Placed /\ RowsKept
                  /\ RowsOrdered /\ PaysKept /\ HistoryKept /\ CallsKept /\ PaidOnce
<1> SUFFICES ASSUME Saved PROVE Spec => []PaidOnce
  OBVIOUS
<1>1. Init => Inv
  BY InitTyped, InitPlaced, InitRows, InitPaid
<1>2. Inv /\ [Next]_vars => Inv'
  <2> SUFFICES ASSUME Inv, [Next]_vars PROVE Inv'
    OBVIOUS
  <2>1. ParserTyped' /\ CellTyped' /\ Placed'
    BY NextTyped, NextPlaced
  <2>2. RowsKept' /\ RowsOrdered'
    BY NextRows, NextOrdered
  <2>3. PaysKept' /\ HistoryKept'
    BY NextPays, NextHistory
  <2>4. CallsKept' /\ PaidOnce'
    BY NextCalls
  <2> QED
    BY <2>1, <2>2, <2>3, <2>4
<1>3. Inv => PaidOnce
  OBVIOUS
<1> HIDE DEF Inv
<1> QED
  BY <1>1, <1>2, <1>3, PTL DEF Spec

-----------------------------------------------------------------------------
(* White lists *)

\* The whitelist's row of the list that t set.
Entry(t, type, on) == [tx |-> t, type |-> type, on |-> on]

LEMMA EntryIs ==
    ASSUME NEW t, NEW type, NEW on
    PROVE  /\ Entry(t, type, on).tx = t /\ Entry(t, type, on).type = type
           /\ Entry(t, type, on).on = on
           /\ [Entry(t, type, on) EXCEPT !.on = TRUE] = Entry(t, type, TRUE)
<1>1. PICK w : w = [tx |-> t, type |-> type, on |-> on]
  OBVIOUS
<1>2. w.tx = t /\ w.type = type /\ w.on = on
  BY <1>1
<1>3. w \in [tx : {t}, type : {type}, on : {on}]
  BY <1>1
<1>4. PICK v : v = [w EXCEPT !.on = TRUE]
  OBVIOUS
<1>5. v \in [tx : {t}, type : {type}, on : {TRUE, on}] /\ v.on = TRUE /\ v.tx = t /\ v.type = type
  BY <1>3, <1>4
<1>6. v = [tx |-> t, type |-> type, on |-> TRUE]
  BY <1>5
<1> QED
  BY <1>1, <1>2, <1>4, <1>6 DEF Entry

\* Configurations that set a list set that of one type.
LEMMA OneType ==
    /\ \A type \in Types : SetBy(type) \in Configs
    /\ \A type, other \in Types : SetBy(type) = SetBy(other) => type = other
BY CellAssumption DEF Types, SetBy, Configs

\* The rows that go when a list comes into force are of the type of that list.
LEMMA CommitIs ==
    ASSUME CellTyped, WhiteTyped, CommitWhitelist
    PROVE  /\ \A w \in whitelist' : \E v \in whitelist : v.tx = w.tx /\ v.type = w.type
           /\ \A w \in whitelist : w \in whitelist' \/ Kind(TxOf) = SetBy(w.type)
           /\ \A type \in Types, on \in BOOLEAN :
                Entry(TxOf, type, on) \in whitelist => Entry(TxOf, type, TRUE) \in whitelist'
<1> DEFINE own == {w \in whitelist : w.tx = TxOf}
<1>1. whitelist' = IF own = {} THEN whitelist
                   ELSE {[w EXCEPT !.on = TRUE] : w \in own}
                        \cup {w \in whitelist \ own : \A o \in own : w.type # o.type}
  BY DEF CommitWhitelist
<1>2. \A o \in own : Kind(TxOf) = SetBy(o.type)
  BY DEF WhiteTyped
<1>3. CASE own = {}
  <2>1. whitelist' = whitelist
    BY <1>1, <1>3
  <2>2. ASSUME NEW type \in Types, NEW on \in BOOLEAN, Entry(TxOf, type, on) \in whitelist PROVE FALSE
    <3>1. PICK w : w = Entry(TxOf, type, on)
      OBVIOUS
    <3>2. w.tx = TxOf
      BY <3>1 DEF Entry
    <3> QED
      BY <1>3, <2>2, <3>1, <3>2
  <2> QED
    BY <2>1, <2>2
<1>4. CASE own # {}
  <2>1. whitelist' = {[w EXCEPT !.on = TRUE] : w \in own}
                     \cup {w \in whitelist \ own : \A o \in own : w.type # o.type}
    BY <1>1, <1>4
  <2>2. ASSUME NEW w \in own
        PROVE  [w EXCEPT !.on = TRUE].tx = w.tx /\ [w EXCEPT !.on = TRUE].type = w.type
    <3>1. w \in [tx : Ids, type : Types, on : BOOLEAN]
      BY DEF CellTyped
    <3> QED
      BY <3>1
  <2>3. ASSUME NEW w \in whitelist' PROVE \E v \in whitelist : v.tx = w.tx /\ v.type = w.type
    BY <2>1, <2>2
  <2>4. ASSUME NEW w \in whitelist, w \notin whitelist' PROVE Kind(TxOf) = SetBy(w.type)
    <3>1. w \in own \/ \E o \in own : w.type = o.type
      BY <2>1, <2>4
    <3> QED
      BY <1>2, <3>1
  <2>5. ASSUME NEW type \in Types, NEW on \in BOOLEAN, Entry(TxOf, type, on) \in whitelist
        PROVE  Entry(TxOf, type, TRUE) \in whitelist'
    <3>1. PICK w : w = Entry(TxOf, type, on)
      OBVIOUS
    <3>2. w.tx = TxOf
      BY <3>1 DEF Entry
    <3>3. [w EXCEPT !.on = TRUE] = Entry(TxOf, type, TRUE)
      <4>1. PICK t : t = TxOf
        OBVIOUS
      <4>2. [Entry(t, type, on) EXCEPT !.on = TRUE] = Entry(t, type, TRUE)
        BY EntryIs
      <4> QED
        BY <3>1, <4>1, <4>2
    <3>4. w \in own
      BY <2>5, <3>1, <3>2
    <3> QED
      BY <2>1, <3>3, <3>4
  <2> QED
    BY <2>3, <2>4, <2>5
<1> QED
  BY <1>3, <1>4

\* What a handler does to the rows and to the white list.
LEMMA HandlerLists ==
    ASSUME ParserTyped, CellTyped, WhiteTyped, Handler, UNCHANGED main
    PROVE  /\ SameChain /\ UNCHANGED <<txs, signing, pool>>
           /\ TxOf \in OnChain \/ TxOf = 0
           /\ twice' <=> twice \/ Handled(TxOf)
           /\ \A w \in whitelist' : \E v \in whitelist : v.tx = w.tx /\ v.type = w.type
           /\ \A w \in whitelist : w \in whitelist' \/ (TxOf # 0 /\ Kind(TxOf) = SetBy(w.type))
           /\ \A type \in Types, on \in BOOLEAN :
                TxOf # 0 /\ Kind(TxOf) = SetBy(type) /\ Entry(TxOf, type, on) \in whitelist
                  => Entry(TxOf, type, TRUE) \in whitelist'
           /\ \A i \in 1..Len(tasks') : tasks'[i].tx # 0 =>
                \/ i \in 1..Len(tasks) /\ tasks'[i] = tasks[i]
                \/ TxOf # 0 /\ tasks'[i].tx = TxOf
           /\ \A i \in 1..Len(tasks) : tasks[i].tx # TxOf => i \in 1..Len(tasks') /\ tasks'[i] = tasks[i]
           /\ TxOf # 0 /\ Kind(TxOf) \in Configs =>
                /\ Len(tasks') = Len(tasks) + 1 /\ tasks'[Len(tasks) + 1].tx = TxOf
                /\ tasks'[Len(tasks) + 1].status = "committed"
                /\ \A i \in 1..Len(tasks) : tasks'[i].tx # TxOf
<1>1. UNCHANGED <<txs, signing, pool>> /\ (twice' <=> twice \/ Handled(TxOf)) /\ parser.current \in 1..Tip
  BY HandlerIs DEF Handled
<1>2. TxOf \in OnChain \/ TxOf = 0
  BY <1>1, OnChainIs DEF TxOf
<1>3. Len(tasks) \in Nat /\ Deleted.tx = 0 /\ \A w \in whitelist : w.type \in Types
  BY CellKnown DEF Deleted, CellTyped
<1>4. PICK row : row = Committed(TxOf)
  OBVIOUS
<1>5. row.tx = TxOf /\ row.status = "committed"
  BY <1>4 DEF Committed
<1>6. CASE TxOf = 0 \/ Kind(TxOf) = "update"
  <2>1. UNCHANGED <<tasks, whitelist>>
    BY <1>6, HandlerIs
  <2>2. TxOf # 0 => Kind(TxOf) \notin Configs
    BY <1>6 DEF Configs
  <2>3. TxOf # 0 => \A type \in Types : Kind(TxOf) # SetBy(type)
    BY <2>2, OneType
  <2> QED
    BY <1>1, <1>2, <2>1, <2>2, <2>3, SameChainIs
<1>7. CASE TxOf # 0 /\ Kind(TxOf) \in Withdrawals
  <2>1. /\ Len(tasks') = Len(tasks) /\ UNCHANGED whitelist
        /\ \A i \in 1..Len(tasks) :
             tasks'[i] = IF tasks[i].tx = TxOf THEN row ELSE tasks[i]
    BY <1>4, <1>7, HandlerIs
  <2>2. Kind(TxOf) \notin Configs
    BY <1>7 DEF Configs, Withdrawals
  <2>3. \A type \in Types : Kind(TxOf) # SetBy(type)
    BY <2>2, OneType
  <2>4. \A i \in 1..Len(tasks') :
                \/ i \in 1..Len(tasks) /\ tasks'[i] = tasks[i]
                \/ tasks'[i].tx = TxOf
    BY <1>5, <2>1
  <2> QED
    BY <1>1, <1>2, <1>7, <2>1, <2>2, <2>3, <2>4, SameChainIs
<1>8. CASE TxOf # 0 /\ Kind(TxOf) \in Settles
  <2>1. /\ Len(tasks') = Len(tasks) + 1
        /\ \A i \in 1..Len(tasks) :
             tasks'[i] = IF tasks[i].tx = TxOf THEN Deleted ELSE tasks[i]
        /\ tasks'[Len(tasks) + 1] = row
        /\ UNCHANGED whitelist \/ CommitWhitelist
        /\ Kind(TxOf) \in Configs => CommitWhitelist
    BY <1>4, <1>8, HandlerIs
  <2>2. \A i \in 1..Len(tasks') : i \in 1..Len(tasks) \/ i = Len(tasks) + 1
    BY <1>3, <2>1
  <2>3. \A i \in 1..Len(tasks') : tasks'[i].tx # 0 =>
                \/ i \in 1..Len(tasks) /\ tasks'[i] = tasks[i]
                \/ tasks'[i].tx = TxOf
    BY <1>3, <1>5, <2>1, <2>2
  <2>4. \A i \in 1..Len(tasks) : tasks[i].tx # TxOf => i \in 1..Len(tasks') /\ tasks'[i] = tasks[i]
    BY <1>3, <2>1
  <2>5. \A i \in 1..Len(tasks) : tasks'[i].tx # TxOf
    BY <1>3, <1>8, <2>1
  <2>6. /\ \A w \in whitelist' : \E v \in whitelist : v.tx = w.tx /\ v.type = w.type
        /\ \A w \in whitelist : w \in whitelist' \/ Kind(TxOf) = SetBy(w.type)
    BY <2>1, CommitIs
  <2>7. \A type \in Types, on \in BOOLEAN :
          Kind(TxOf) = SetBy(type) /\ Entry(TxOf, type, on) \in whitelist
            => Entry(TxOf, type, TRUE) \in whitelist'
    BY <2>1, CommitIs, OneType
  <2> QED
    BY <1>1, <1>2, <1>5, <1>8, <2>1, <2>3, <2>4, <2>5, <2>6, <2>7, SameChainIs
<1> QED
  BY <1>6, <1>7, <1>8, HandlerIs

\* A step that is no handler leaves the committed rows, and a row it inserts is
\* that of a transaction in the pool.
LEMMA Calm ==
    ASSUME ParserTyped, CellTyped, RowsKept, [Next]_vars
    PROVE  \/ Handler /\ UNCHANGED main
           \/ /\ UNCHANGED twice /\ (Building \/ UNCHANGED whitelist)
              /\ \A i \in 1..Len(tasks) : i \in 1..Len(tasks') /\ tasks'[i].tx = tasks[i].tx
              /\ \A i \in 1..Len(tasks) : tasks[i].status = "committed" => tasks'[i] = tasks[i]
              /\ \A i \in 1..Len(tasks') : tasks'[i].status = "committed" => i \in 1..Len(tasks)
              /\ \A i \in 1..Len(tasks) : tasks'[i].status = "committed" => tasks'[i] = tasks[i]
              /\ \A i \in 1..Len(tasks') :
                   i \in 1..Len(tasks) \/ (i = Len(tasks) + 1 /\ tasks'[i].tx \in pool')
<1>1. Len(tasks) \in Nat /\ tasks \in Seq(Row \cup {Deleted})
  BY CellKnown DEF CellTyped
<1> DEFINE Rows == /\ \A i \in 1..Len(tasks) : i \in 1..Len(tasks') /\ tasks'[i].tx = tasks[i].tx
                   /\ \A i \in 1..Len(tasks) : tasks[i].status = "committed" => tasks'[i] = tasks[i]
                   /\ \A i \in 1..Len(tasks') : tasks'[i].status = "committed" => i \in 1..Len(tasks)
                   /\ \A i \in 1..Len(tasks) : tasks'[i].status = "committed" => tasks'[i] = tasks[i]
                   /\ \A i \in 1..Len(tasks') :
                        i \in 1..Len(tasks) \/ (i = Len(tasks) + 1 /\ tasks'[i].tx \in pool')
<1>2. ASSUME NEW row, tasks' = Append(tasks, row), row.tx \in pool', row.status = "pending" PROVE Rows
  <2>1. /\ Len(tasks') = Len(tasks) + 1 /\ tasks'[Len(tasks) + 1] = row
        /\ \A i \in 1..Len(tasks) : tasks'[i] = tasks[i]
    BY <1>1, <1>2
  <2>2. /\ \A i \in 1..Len(tasks') : i \in 1..Len(tasks) \/ i = Len(tasks) + 1
        /\ 1..Len(tasks) \subseteq 1..Len(tasks')
    BY <1>1, <2>1
  <2> QED
    BY <1>2, <2>1, <2>2
<1>3. ASSUME UNCHANGED tasks PROVE Rows
  BY <1>3
<1>4. ASSUME NEW t, tasks' = Append(tasks, [tx |-> t, status |-> "pending", bn |-> 0]), t \in pool'
      PROVE  Rows
  <2>1. PICK row : row = [tx |-> t, status |-> "pending", bn |-> 0]
    OBVIOUS
  <2>2. row.tx = t /\ row.status = "pending" /\ tasks' = Append(tasks, row)
    BY <1>4, <2>1
  <2> QED
    BY <1>2, <1>4, <2>2
<1>5. CASE Building
  <2>1. UNCHANGED <<tasks, twice>>
    BY <1>5, BuildIs DEF buildTx, Building
  <2> QED
    BY <1>3, <1>5, <2>1
<1>6. CASE Sending \/ CallSteps
  <2>1. UNCHANGED <<tasks, whitelist, twice>>
    BY <1>6, SendIs, CallStepIs
  <2> QED
    BY <1>3, <2>1
<1>7. ASSUME NEW t \in Ids, CreateTask(t) PROVE UNCHANGED <<whitelist, twice>> /\ Rows
  <2>1. /\ tasks' = Append(tasks, [tx |-> t, status |-> "pending", bn |-> 0])
        /\ t \in unsaved /\ UNCHANGED <<pool, whitelist, twice>>
    BY <1>7 DEF CreateTask
  <2> QED
    BY <1>4, <2>1 DEF RowsKept
<1>8. CASE doCheckTx
  <2>1. /\ UNCHANGED <<whitelist, twice>> /\ Len(tasks') = Len(tasks)
        /\ \A i \in 1..Len(tasks) :
                /\ tasks'[i].tx = tasks[i].tx
                /\ \/ tasks'[i] = tasks[i]
                   \/ tasks[i].status = "pending" /\ tasks'[i].status = "rejected"
    BY <1>8, CheckIs
  <2> QED
    BY <2>1
<1>9. CASE \/ \E t \in Ids : doActionNormal(t) \/ LoseRow(t) \/ Evict(t) \/ MineTx(t)
           \/ Update \/ MineOther \/ ForkAll \/ Sync \/ ParserFault \/ UNCHANGED vars
           \/ (HandleBlock /\ ~Handling)
  <2>1. UNCHANGED <<tasks, whitelist, twice>>
    BY <1>9 DEF doActionNormal, LoseRow, Evict, MineTx, Update, MineOther, ForkAll, Sync, ParserFault, vars,
                cellVars, HandleBlock
  <2> QED
    BY <1>3, <2>1
<1>10. CASE (HandleBlock /\ Handling) \/ HandleAgain
  <2>1. UNCHANGED main
    BY <1>10, HandledTyped, SteppedTyped DEF HandleBlock, HandleAgain, BrokenOff, Broken
  <2> QED
    BY <1>10, <2>1 DEF HandleBlock, HandleAgain
<1> QED
  BY <1>5, <1>6, <1>7, <1>8, <1>9, <1>10, NextIs DEF Building

LEMMA NextSetters ==
    ASSUME ParserTyped, CellTyped, Placed, RulesKept, RulesKept', Setters, [Next]_vars
    PROVE  Setters'
<1>1. /\ \A u \in 1..Len(txs) : txs'[u] = txs[u]
      /\ 1..Len(txs) \subseteq 1..Len(txs') /\ pool \subseteq 1..Len(txs)
      /\ OnChain \subseteq 1..Len(txs) /\ 0 \notin OnChain
      /\ Unique /\ LiveCell \in 0..Len(txs)
  <2>1. OnChain \subseteq 1..Len(txs) /\ LiveCell \in 0..Len(txs) /\ Len(txs) \in Nat
    BY CellKnown
  <2>2. 0 \notin OnChain
    BY <2>1
  <2> QED
    BY <2>1, <2>2, TxsStay DEF CellTyped, Placed
\* The list in the cell of one that was on the chain before.
<1>2. ASSUME NEW v \in OnChain, NEW type \in Types, NEW s, s = txs[v].hash[type], s # 0
      PROVE  /\ s \in OnChain /\ s # 0 /\ v # 0 /\ txs'[s].kind = SetBy(type) /\ txs'[v].hash[type] = s
             /\ s = v \/ Before(s, v)
             /\ \A x \in OnChain : txs'[x].kind = SetBy(type) /\ Before(s, x) => x # v /\ ~Before(x, v)
  <2>1. /\ s \in OnChain /\ txs[s].kind = SetBy(type)
        /\ s = v \/ Before(s, v)
        /\ \A x \in OnChain : txs[x].kind = SetBy(type) /\ Before(s, x) => x # v /\ ~Before(x, v)
    BY <1>2 DEF Setters, Kind
  <2>2. \A x \in OnChain : x # 0 /\ txs'[x] = txs[x]
    BY <1>1
  <2> QED
    BY <1>2, <2>1, <2>2
<1> DEFINE SetsLast(v, type, s) ==
             /\ s \in OnChain' /\ txs'[s].kind = SetBy(type) /\ (s = v \/ Before(s, v)')
             /\ \A x \in OnChain' : txs'[x].kind = SetBy(type) /\ Before(s, x)' => x # v /\ ~Before(x, v)'
<1>3. ASSUME SameChain, NEW v \in OnChain', NEW type \in Types, NEW s, s = txs'[v].hash[type], s # 0
      PROVE  SetsLast(v, type, s)
  <2>1. v \in OnChain /\ s = txs[v].hash[type]
    BY <1>1, <1>3 DEF SameChain
  <2>2. /\ s \in OnChain /\ s # 0 /\ v # 0 /\ txs'[s].kind = SetBy(type)
        /\ s = v \/ Before(s, v)
        /\ \A x \in OnChain : txs'[x].kind = SetBy(type) /\ Before(s, x) => x # v /\ ~Before(x, v)
    BY <1>2, <1>3, <2>1
  <2>3. \A x \in OnChain : x # 0
    BY <1>1
  <2> QED
    BY <1>3, <2>2, <2>3 DEF SameChain
<1>4. ASSUME NEW t \in 1..Len(txs'), Joins(t), txs'[t].from = LiveCell, t # 0,
             NEW v \in OnChain', NEW type \in Types, NEW s, s = txs'[v].hash[type], s # 0
      PROVE  SetsLast(v, type, s)
  <2>1. /\ OnChain' = OnChain \cup {t} /\ t \notin OnChain
        /\ \A x, y : x # 0 /\ y # 0 => (Before(x, y)' <=> Before(x, y) \/ (x \in OnChain /\ y = t))
    BY <1>4 DEF Joins
  <2>2. \A x, y : (Before(x, y) /\ x # 0 => x \in OnChain) /\ (Before(x, y) /\ y # 0 => y \in OnChain)
    BY <1>1, ChainOrder
  <2>3. CASE v \in OnChain
    <3>1. s = txs[v].hash[type] /\ v # t /\ v # 0
      BY <1>1, <1>4, <2>1, <2>3
    <3>2. /\ s \in OnChain /\ txs'[s].kind = SetBy(type)
          /\ s = v \/ Before(s, v)
          /\ \A x \in OnChain : txs'[x].kind = SetBy(type) /\ Before(s, x) => x # v /\ ~Before(x, v)
      BY <1>2, <1>4, <2>3, <3>1
    <3>3. s = v \/ Before(s, v)'
      BY <1>4, <2>1, <3>1, <3>2
    <3>4. ASSUME NEW x \in OnChain', txs'[x].kind = SetBy(type), Before(s, x)'
          PROVE  x # v /\ ~Before(x, v)'
      <4>1. CASE x = t
        BY <1>4, <2>1, <2>2, <3>1, <4>1
      <4>2. CASE x \in OnChain
        <5>1. x # 0 /\ x # t
          BY <1>1, <2>1, <4>2
        <5>2. Before(s, x)
          BY <1>4, <2>1, <3>4, <5>1
        <5>3. x # v /\ ~Before(x, v)
          BY <3>2, <3>4, <4>2, <5>2
        <5> QED
          BY <2>1, <3>1, <5>1, <5>3
      <4> QED
        BY <2>1, <4>1, <4>2
    <3> QED
      BY <2>1, <3>2, <3>3, <3>4
  <2>4. CASE v = t /\ s = t
    <3>1. txs'[t].kind = SetBy(type)
      BY <1>4, <2>4 DEF RulesKept, Kind
    <3>2. \A x \in OnChain' : ~Before(t, x)'
      <4>1. Unique' /\ ParserTyped'
        BY NextPlaced, NextTyped DEF Placed
      <4>2. ASSUME NEW x \in OnChain', Before(t, x)' PROVE FALSE
        <5>1. x # 0
          BY <1>1, <1>4, <2>1
        <5>2. Before(t, x) \/ t \in OnChain
          BY <1>4, <2>1, <4>2, <5>1
        <5> QED
          BY <1>4, <2>1, <2>2, <5>2
      <4> QED
        BY <4>2
    <3> QED
      BY <2>1, <2>4, <3>1, <3>2
  <2>5. CASE v = t /\ s # t
    <3>1. s = HashIn(txs', LiveCell)[type]
      <4>1. txs'[t].hash[type] \in {0, t, HashIn(txs', txs'[t].from)[type]}
        BY <1>4 DEF RulesKept, HashIn, HashOf
      <4> QED
        BY <1>4, <2>5, <4>1
    <3>2. LiveCell # 0
      BY <1>4, <3>1 DEF HashIn, NoLists
    <3>3. PICK l : l = LiveCell
      OBVIOUS
    <3>4. l \in OnChain /\ \A x \in OnChain : x = l \/ Before(x, l)
      BY <1>1, <3>2, <3>3, LiveCellLast
    <3>5. s = txs[l].hash[type]
      BY <1>1, <3>1, <3>2, <3>3, <3>4 DEF HashIn
    <3>6. /\ s \in OnChain /\ txs'[s].kind = SetBy(type)
          /\ \A x \in OnChain : txs'[x].kind = SetBy(type) /\ Before(s, x) => x # l /\ ~Before(x, l)
      BY <1>2, <1>4, <3>4, <3>5
    <3>7. Before(s, v)'
      BY <1>4, <2>1, <2>5, <3>6
    <3>8. txs'[t].kind # SetBy(type)
      <4>1. txs'[t].kind = SetBy(type) => txs'[t].rules[type] = t /\ txs'[t].rules[type] \in {0, txs'[t].hash[type]}
        BY <1>4 DEF RulesKept, Kind
      <4> QED
        BY <1>4, <2>5, <4>1
    <3>9. ASSUME NEW x \in OnChain', txs'[x].kind = SetBy(type), Before(s, x)' PROVE FALSE
      <4>1. x \in OnChain /\ x # 0 /\ x # t
        BY <1>1, <2>1, <3>8, <3>9
      <4>2. Before(s, x)
        BY <1>4, <2>1, <3>9, <4>1
      <4> QED
        BY <3>4, <3>6, <3>9, <4>1, <4>2
    <3> QED
      BY <2>1, <3>6, <3>7, <3>9
  <2> QED
    BY <2>1, <2>3, <2>4, <2>5
<1>5. ASSUME \A v \in OnChain', type \in Types : \A s :
                s = txs'[v].hash[type] /\ s # 0 => SetsLast(v, type, s)
      PROVE  Setters'
  <2>1. ASSUME NEW v \in OnChain', NEW type \in Types, (txs[v].hash[type] # 0)'
        PROVE  (LET s == txs[v].hash[type]
                IN  /\ s \in OnChain /\ Kind(s) = SetBy(type) /\ (s = v \/ Before(s, v))
                    /\ \A x \in OnChain : Kind(x) = SetBy(type) /\ Before(s, x) => x # v /\ ~Before(x, v))'
    <3>1. PICK s : s = txs'[v].hash[type]
      OBVIOUS
    <3>2. SetsLast(v, type, s)
      BY <1>5, <2>1, <3>1
    <3> QED
      BY <3>1, <3>2 DEF Before, Kind
  <2> QED
    BY <2>1 DEF Setters
<1>6. ASSUME NEW t \in 1..Len(txs'), Joins(t), txs'[t].from = LiveCell, t # 0 PROVE Setters'
  <2>1. \A v \in OnChain', type \in Types : \A s :
          s = txs'[v].hash[type] /\ s # 0 => SetsLast(v, type, s)
    BY <1>4, <1>6
  <2> HIDE DEF SetsLast
  <2> QED
    BY <1>5, <2>1
<1>7. CASE \E t \in pool : Joins(t) /\ UNCHANGED txs
  <2>1. PICK t \in pool : Joins(t) /\ UNCHANGED txs
    BY <1>7
  <2>2. t \in 1..Len(txs') /\ txs'[t].from = LiveCell
    BY <1>1, <2>1 DEF Placed, SpendsLive
  <2>3. t # 0
    BY <1>1, <2>1, CellKnown
  <2> QED
    BY <1>6, <2>1, <2>2, <2>3
<1>8. CASE Update /\ Joins(NewId)
  <2>1. NewTx("update", FALSE, HashOf(LiveCell), HashOf(LiveCell), {})
    BY <1>8 DEF Update
  <2>2. "update" \in Kinds /\ HashOf(LiveCell) \in Fresh /\ {} \in SUBSET Ids
    BY ListsKnown DEF Kinds
  <2>3. PICK t : t = NewId
    OBVIOUS
  <2>4. t = Len(txs') /\ txs'[t].from = LiveCell /\ t # 0 /\ t \in Nat
    BY <2>1, <2>2, <2>3, NewTxIs, NewIdIsNew
  <2>5. t \in 1..Len(txs') /\ Joins(t)
    BY <1>8, <2>3, <2>4 DEF Joins
  <2> QED
    BY <1>6, <2>4, <2>5
<1>9. CASE SameChain
  <2>1. \A v \in OnChain', type \in Types : \A s :
          s = txs'[v].hash[type] /\ s # 0 => SetsLast(v, type, s)
    BY <1>3, <1>9
  <2> HIDE DEF SetsLast
  <2> QED
    BY <1>5, <2>1
<1> QED
  BY <1>7, <1>8, <1>9, Moves

LEMMA NextWhite ==
    ASSUME ParserTyped, CellTyped, RowsKept, WhiteTyped, [Next]_vars
    PROVE  WhiteTyped'
<1>1. /\ \A t \in 1..Len(txs) : txs'[t] = txs[t]
      /\ 1..Len(txs) \subseteq 1..Len(txs')
  BY TxsStay
<1>2. ASSUME \A w \in whitelist' : \E v \in whitelist : v.tx = w.tx /\ v.type = w.type
      PROVE  WhiteTyped'
  <2> SUFFICES ASSUME NEW w \in whitelist'
               PROVE  w.tx \in 1..Len(txs') /\ txs'[w.tx].kind = SetBy(w.type) /\ txs'[w.tx].named
    BY DEF WhiteTyped, Kind
  <2>1. PICK v \in whitelist : v.tx = w.tx /\ v.type = w.type
    BY <1>2
  <2>2. v.tx \in 1..Len(txs) /\ txs[v.tx].kind = SetBy(v.type) /\ txs[v.tx].named
    BY DEF WhiteTyped, Kind
  <2> QED
    BY <1>1, <2>1, <2>2
<1>3. CASE Building
  <2>1. PICK kind \in Signed, named \in BOOLEAN, rules \in Fresh, hash \in Fresh :
          /\ buildTx(kind, named, rules, hash)
          /\ IF named THEN \E type \in Types :
                             /\ kind = SetBy(type)
                             /\ whitelist' = whitelist
                                   \cup {[tx |-> NewId, type |-> type, on |-> FALSE]}
                      ELSE UNCHANGED whitelist
    BY <1>3, BuildIs DEF Building
  <2>2. NewTx(kind, named, rules, hash, {}) /\ kind \in Kinds /\ {} \in SUBSET Ids
    BY <2>1 DEF buildTx, Kinds
  <2>3. txs'[NewId].kind = kind /\ txs'[NewId].named = named /\ NewId \in 1..Len(txs')
    <3>1. txs'[NewId].kind = kind /\ txs'[NewId].named = named /\ Len(txs') = NewId
      BY <2>2, NewTxIs
    <3> QED
      BY <3>1, NewIdIsNew
  <2>4. CASE named
    <3>1. PICK type \in Types : kind = SetBy(type)
                                /\ whitelist' = whitelist \cup {[tx |-> NewId, type |-> type, on |-> FALSE]}
      BY <2>1, <2>4
    <3>2. PICK new : new = [tx |-> NewId, type |-> type, on |-> FALSE]
      OBVIOUS
    <3>3. new.tx = NewId /\ new.type = type /\ whitelist' = whitelist \cup {new}
      BY <3>1, <3>2
    <3>4. ASSUME NEW w \in whitelist'
          PROVE  w.tx \in 1..Len(txs') /\ txs'[w.tx].kind = SetBy(w.type) /\ txs'[w.tx].named
      <4>1. CASE w \in whitelist
        BY <1>1, <4>1 DEF WhiteTyped, Kind
      <4>2. CASE w = new
        BY <2>3, <2>4, <3>1, <3>3, <4>2
      <4> QED
        BY <3>3, <4>1, <4>2
    <3> QED
      BY <3>4 DEF WhiteTyped, Kind
  <2> QED
    BY <1>2, <2>1, <2>4
<1>4. CASE UNCHANGED whitelist
  BY <1>2, <1>4
<1>5. CASE Handler /\ UNCHANGED main
  BY <1>2, <1>5, HandlerLists
<1> QED
  BY <1>3, <1>4, <1>5, Calm

\* No row is lost but that of a withdrawal.
LEMMA NextLost ==
    ASSUME ParserTyped, CellTyped, LostPay, [Next]_vars
    PROVE  LostPay'
<1>1. \A t \in lost : t \in 1..Len(txs) /\ txs'[t] = txs[t] /\ Kind(t) \in Withdrawals
  BY TxsStay DEF CellTyped, LostPay
<1>2. lost' = lost \/ \E t \in Ids : LoseRow(t)
  <2>1. CASE Building
    BY <2>1, BuildIs DEF buildTx, withdrawalVars, Building
  <2>2. CASE Sending \/ CallSteps
    BY <2>2, SendIs, CallStepIs
  <2>3. CASE \/ \E t \in Ids : doActionNormal(t) \/ CreateTask(t) \/ Evict(t) \/ MineTx(t)
             \/ Update \/ doCheckTx \/ MineOther \/ ForkAll \/ Sync
             \/ HandleBlock \/ HandleAgain \/ ParserFault \/ UNCHANGED vars
    BY <2>3 DEF doActionNormal, CreateTask, Evict, MineTx, Update, doCheckTx, MineOther, ForkAll,
                Sync, HandleBlock, HandleAgain, ParserFault, Handler, vars, cellVars, withdrawalVars
  <2> QED
    BY <2>1, <2>2, <2>3, NextIs DEF Building
<1>3. ASSUME NEW t \in Ids, LoseRow(t) PROVE lost' = lost \cup {t} /\ txs'[t].kind \in Withdrawals
  BY <1>3 DEF LoseRow
<1> QED
  BY <1>1, <1>2, <1>3 DEF LostPay, Kind

\* A configuration that is mined and not handled is still pending.
LEMMA CheckClosed ==
    ASSUME ParserTyped, CellTyped, Placed, RowsKept, LostPay, OpenLast, check,
           NEW u \in OnChain, Kind(u) \in Configs
    PROVE  Handled(u)
<1> SUFFICES ASSUME ~Handled(u) PROVE FALSE
  OBVIOUS
<1>1. OnChain \subseteq 1..Len(txs) /\ u # 0
  BY CellKnown
<1>2. Kind(u) \notin {"update", "enable"} /\ u \notin unsaved \cup lost
  BY DEF Configs, Withdrawals, LostPay, RowsKept, Placed, Apart
<1>3. PICK i \in 1..Len(tasks) : tasks[i].tx = u
  BY <1>2 DEF RowsKept
<1>4. tasks[i] \in Row
  BY <1>1, <1>3, CellKnown DEF Deleted
<1>5. tasks[i].status = "pending"
  BY <1>1, <1>3, <1>4 DEF Row, Statuses, Handled, RowsKept, Placed, Apart
<1>6. i \in Latest(RowsOf(Configs, Statuses))
  <2>1. i \in RowsOf(Configs, Statuses)
    BY <1>3, <1>4 DEF RowsOf, Row, Kind
  <2>2. ASSUME NEW j \in RowsOf(Configs, Statuses) PROVE j <= i
    <3>1. j \in 1..Len(tasks) /\ tasks[j].status \in Statuses /\ Kind(tasks[j].tx) \in Configs
      BY DEF RowsOf, Kind
    <3>2. tasks[j].tx # 0
      <4>1. tasks[j] \in Row \cup {Deleted}
        BY <3>1, CellKnown
      <4>2. tasks[j] # Deleted
        BY <3>1 DEF Statuses, Deleted
      <4>3. tasks[j].tx \in Ids
        BY <4>1, <4>2 DEF Row
      <4> QED
        BY <4>3, CellAssumption DEF Ids
    <3> QED
      BY <1>3, <3>1, <3>2 DEF OpenLast, ConfigRow
  <2> QED
    BY <2>1, <2>2 DEF Latest
<1> QED
  BY <1>5, <1>6 DEF check

\* A list that an open configuration carries over is in force.
LEMMA CarriedInForce ==
    ASSUME ParserTyped, CellTyped, Placed, RulesKept, Setters, OneOpen, InForce,
           NEW u \in OnChain, Kind(u) \in Configs, ~Handled(u),
           NEW type \in Types, NEW s, s = txs[u].rules[type], s # 0, txs[s].named
    PROVE  \/ s = u /\ Kind(u) = SetBy(type)
           \/ Kind(u) # SetBy(type) /\ Entry(s, type, TRUE) \in whitelist
<1>1. u \in 1..Len(txs)
  BY CellKnown
<1>2. s = txs[u].hash[type]
  BY <1>1 DEF RulesKept
<1>3. /\ s \in OnChain /\ Kind(s) = SetBy(type) /\ (s = u \/ Before(s, u))
      /\ \A x \in OnChain : Kind(x) = SetBy(type) /\ Before(s, x) => x # u /\ ~Before(x, u)
  BY <1>2 DEF Setters
<1>4. CASE s = u
  BY <1>3, <1>4
<1>5. CASE s # u
  <2>1. Kind(u) # SetBy(type)
    BY <1>1, <1>5 DEF RulesKept
  <2>2. \A x \in OnChain : Kind(x) \in Configs => x = u \/ (Handled(x) /\ Before(x, u))
    BY DEF OneOpen
  <2>3. Handled(s)
    BY <1>3, <1>5, <2>2, OneType
  <2>4. \A x \in OnChain : Kind(x) = SetBy(type) /\ Handled(x) => ~Before(s, x)
    BY <1>3, <2>2, OneType
  <2> QED
    BY <1>3, <2>1, <2>3, <2>4 DEF InForce, Entry
<1> QED
  BY <1>4, <1>5

LEMMA CommittedTyped ==
    ASSUME ParserTyped, CellTyped, NEW i \in 1..Len(tasks), tasks[i].status = "committed"
    PROVE  tasks[i].tx \in 1..Len(txs) /\ tasks[i].tx # 0
<1>1. tasks[i] \in Row \cup {Deleted} /\ tasks[i].tx \in 0..Len(txs) /\ Len(txs) \in Nat /\ MaxTx \in Nat
  BY CellKnown
<1>2. tasks[i] # Deleted
  BY DEF Deleted
<1>3. tasks[i].tx \in 1..MaxTx
  BY <1>1, <1>2 DEF Row, Ids
<1> QED
  BY <1>1, <1>3

\* As long as the committed configurations are the same and no row of the
\* white list goes, what was served is.
LEMMA ServedStays ==
    ASSUME ParserTyped, CellTyped, WhitelistServed, ~twice,
           \A t \in 1..Len(txs) : txs'[t] = txs[t],
           \A i \in 1..Len(tasks) : tasks[i].status = "committed" /\ Kind(tasks[i].tx) \in Configs
               => i \in 1..Len(tasks') /\ tasks'[i] = tasks[i],
           \A i \in 1..Len(tasks') : tasks'[i].status = "committed" /\ txs'[tasks'[i].tx].kind \in Configs
               => i \in 1..Len(tasks) /\ tasks'[i] = tasks[i],
           whitelist \subseteq whitelist'
    PROVE  WhitelistServed'
<1> DEFINE Rows == RowsOf(Configs, {"committed"})
<1>1. \A i : i \in Rows <=> i \in 1..Len(tasks) /\ tasks[i].status = "committed" /\ Kind(tasks[i].tx) \in Configs
  BY DEF RowsOf, Kind
<1>2. \A i : i \in Rows' <=> i \in 1..Len(tasks') /\ tasks'[i].status = "committed"
                             /\ txs'[tasks'[i].tx].kind \in Configs
  BY DEF RowsOf
<1>3. ASSUME NEW i \in Rows PROVE i \in Rows'
  <2>1. tasks[i].tx \in 1..Len(txs) /\ i \in 1..Len(tasks') /\ tasks'[i] = tasks[i]
    BY <1>1, CommittedTyped
  <2> QED
    BY <1>1, <1>2, <2>1 DEF Kind
<1>4. ASSUME NEW i \in Rows' PROVE i \in Rows /\ tasks'[i] = tasks[i] /\ tasks[i].tx \in 1..Len(txs)
  <2>1. i \in 1..Len(tasks) /\ tasks'[i] = tasks[i] /\ tasks[i].status = "committed"
    BY <1>2
  <2>2. tasks[i].tx \in 1..Len(txs)
    BY <2>1, CommittedTyped
  <2> QED
    BY <1>1, <1>2, <2>1, <2>2 DEF Kind
<1>5. ASSUME NEW i \in Latest(Rows)', NEW type \in Types,
             txs'[tasks'[i].tx].rules[type] # 0, txs'[txs'[tasks'[i].tx].rules[type]].named
      PROVE  [tx |-> txs'[tasks'[i].tx].rules[type], type |-> type, on |-> TRUE] \in whitelist'
  <2>1. i \in Rows' /\ \A j \in Rows' : j <= i
    BY <1>5 DEF Latest
  <2>2. i \in Latest(Rows)
    BY <1>3, <1>4, <2>1 DEF Latest
  <2>3. PICK t : t = tasks[i].tx
    OBVIOUS
  <2>4. t \in 1..Len(txs) /\ tasks'[i].tx = t /\ txs'[t] = txs[t]
    BY <1>4, <2>1, <2>3
  <2>5. PICK set : set = txs[t].rules[type]
    OBVIOUS
  <2>6. txs'[t].rules[type] = set /\ set # 0 /\ txs'[set].named
    BY <1>5, <2>4, <2>5
  <2>7. set \in 1..Len(txs)
    <3>1. set \in 0..t /\ Len(txs) \in Nat
      BY <2>4, <2>5, CellKnown DEF CellTyped
    <3> QED
      BY <2>4, <2>6, <3>1
  <2>8. txs[set].named
    BY <2>6, <2>7
  <2>9. [tx |-> set, type |-> type, on |-> TRUE] \in whitelist
    BY <2>2, <2>3, <2>5, <2>6, <2>8 DEF WhitelistServed
  <2> QED
    BY <2>4, <2>6, <2>9
<1> QED
  BY <1>5 DEF WhitelistServed

\* The handler of a configuration, or of another transaction.
LEMMA ConfigsHandled ==
    ASSUME ParserTyped, CellTyped, Placed, RulesKept, RowsKept, WhiteTyped, Setters,
           Listed, OneOpen, OpenLast, InForce, WhitelistServed, Handler, UNCHANGED main, ~twice'
    PROVE  (Listed /\ OneOpen /\ OpenLast /\ InForce /\ WhitelistServed)'
<1>1. /\ OnChain' = OnChain /\ UNCHANGED <<txs, signing, pool>>
      /\ \A x, y : x # 0 /\ y # 0 => (Before(x, y)' <=> Before(x, y))
      /\ TxOf \in OnChain \/ TxOf = 0
      /\ ~twice /\ ~Handled(TxOf)
      /\ OnChain \subseteq 1..Len(txs) /\ 0 \notin OnChain /\ Len(tasks) \in Nat
  <2>1. OnChain \subseteq 1..Len(txs) /\ 0 \notin OnChain /\ Len(tasks) \in Nat
    BY CellKnown
  <2> QED
    BY <2>1, HandlerLists DEF SameChain
<1>2. /\ \A w \in whitelist : w \in whitelist' \/ (TxOf # 0 /\ Kind(TxOf) = SetBy(w.type))
      /\ \A type \in Types, on \in BOOLEAN :
           TxOf # 0 /\ Kind(TxOf) = SetBy(type) /\ Entry(TxOf, type, on) \in whitelist
             => Entry(TxOf, type, TRUE) \in whitelist'
  BY HandlerLists
<1>3. /\ \A i \in 1..Len(tasks') : tasks'[i].tx # 0 =>
           \/ i \in 1..Len(tasks) /\ tasks'[i] = tasks[i]
           \/ TxOf # 0 /\ tasks'[i].tx = TxOf
      /\ \A i \in 1..Len(tasks) : tasks[i].tx # TxOf => i \in 1..Len(tasks') /\ tasks'[i] = tasks[i]
      /\ TxOf # 0 /\ Kind(TxOf) \in Configs =>
           /\ Len(tasks') = Len(tasks) + 1 /\ tasks'[Len(tasks) + 1].tx = TxOf
           /\ tasks'[Len(tasks) + 1].status = "committed"
           /\ \A i \in 1..Len(tasks) : tasks'[i].tx # TxOf
  BY HandlerLists
<1>4. PICK c : c = TxOf
  OBVIOUS
<1>5. ASSUME NEW t, t # 0, t # c PROVE Handled(t)' <=> Handled(t)
  BY <1>3, <1>4, <1>5 DEF Handled
<1>6. c # 0 /\ Kind(c) \in Configs => Handled(c)' /\ c \in OnChain /\ ~Handled(c)
  <2>1. Len(tasks) + 1 \in 1..(Len(tasks) + 1)
    BY <1>1
  <2> QED
    BY <1>1, <1>3, <1>4, <2>1 DEF Handled
<1>7. c # 0 /\ Kind(c) \in Configs =>
        /\ \A v \in OnChain : Kind(v) \in Configs => v = c \/ (Handled(v) /\ Before(v, c))
        /\ \A t \in signing \cup pool : Kind(t) \notin Configs
  BY <1>6 DEF OneOpen
<1>8. \A x \in OnChain \cup pool \cup signing : x # 0 /\ x \in 1..Len(txs)
  BY <1>1, CellKnown DEF CellTyped
<1>9. \A w \in whitelist : w \in whitelist' \/ (c # 0 /\ Kind(c) = SetBy(w.type) /\ Kind(c) \in Configs)
  BY <1>2, <1>4, OneType DEF CellTyped
<1>10. OneOpen'
  <2> SUFFICES ASSUME NEW u \in OnChain, Kind(u) \in Configs, ~Handled(u)'
               PROVE  /\ \A v \in OnChain : Kind(v) \in Configs => v = u \/ (Handled(v)' /\ Before(v, u)')
                      /\ \A t \in signing \cup pool : Kind(t) \notin Configs
    BY <1>1 DEF OneOpen, Kind
  <2>1. u # c /\ u # 0
    BY <1>6, <1>8
  <2>2. ~Handled(u)
    BY <1>5, <2>1
  <2>3. /\ \A v \in OnChain : Kind(v) \in Configs => v = u \/ (Handled(v) /\ Before(v, u))
        /\ \A t \in signing \cup pool : Kind(t) \notin Configs
    BY <2>2 DEF OneOpen
  <2>4. ASSUME NEW v \in OnChain, Kind(v) \in Configs, v # u PROVE Handled(v)' /\ Before(v, u)'
    <3>1. Handled(v) /\ Before(v, u) /\ v # 0
      BY <1>8, <2>3, <2>4
    <3>2. v # c
      BY <1>1, <1>4, <3>1
    <3> QED
      BY <1>1, <1>5, <2>1, <3>1, <3>2
  <2> QED
    BY <2>3, <2>4
<1>11. Listed'
  <2> SUFFICES ASSUME NEW t \in signing \cup pool \cup OnChain, NEW type \in Types,
                      Kind(t) = SetBy(type), txs[t].named, ~Handled(t)'
               PROVE  \E on \in BOOLEAN : [tx |-> t, type |-> type, on |-> on] \in whitelist'
    BY <1>1 DEF Listed, Kind
  <2>1. Kind(t) \in Configs /\ t # 0
    BY <1>8, OneType
  <2>2. t # c
    BY <1>6, <2>1
  <2>3. ~Handled(t)
    BY <1>5, <2>1, <2>2
  <2>4. PICK on \in BOOLEAN : [tx |-> t, type |-> type, on |-> on] \in whitelist
    BY <2>3 DEF Listed
  <2>5. ~(c # 0 /\ Kind(c) \in Configs)
    BY <1>7, <2>1, <2>2, <2>3
  <2> QED
    BY <1>9, <2>4, <2>5
<1>12. OpenLast'
  <2> SUFFICES ASSUME NEW u \in OnChain \cup pool, Kind(u) \in Configs, ~Handled(u)',
                      NEW i \in 1..Len(tasks'), NEW j \in 1..Len(tasks'), tasks'[i].tx = u,
                      tasks'[j].tx # 0, Kind(tasks'[j].tx) \in Configs
               PROVE  j <= i
    BY <1>1 DEF OpenLast, ConfigRow, Kind
  <2>1. u # c /\ u # 0
    BY <1>6, <1>8
  <2>2. ~Handled(u)
    BY <1>5, <2>1
  <2>3. ~(c # 0 /\ Kind(c) \in Configs)
    BY <1>7, <2>1, <2>2
  <2>4. tasks'[j].tx # c
    BY <2>3
  <2>5. i \in 1..Len(tasks) /\ tasks'[i] = tasks[i] /\ j \in 1..Len(tasks) /\ tasks'[j] = tasks[j]
    BY <1>3, <1>4, <2>1, <2>4
  <2> QED
    BY <2>2, <2>5 DEF OpenLast, ConfigRow
<1>13. InForce'
  <2> SUFFICES ASSUME NEW s \in OnChain, NEW type \in Types,
                      Kind(s) = SetBy(type), txs[s].named, Handled(s)',
                      \A x \in OnChain : Kind(x) = SetBy(type) /\ Handled(x)' => ~Before(s, x)'
               PROVE  [tx |-> s, type |-> type, on |-> TRUE] \in whitelist'
    BY <1>1 DEF InForce, Kind
  <2>1. Kind(s) \in Configs /\ s # 0
    BY <1>8, OneType
  <2>2. CASE s = c
    <3>1. ~Handled(c)
      BY <1>1, <1>4
    <3>2. PICK on \in BOOLEAN : [tx |-> s, type |-> type, on |-> on] \in whitelist
      BY <2>2, <3>1 DEF Listed
    <3> QED
      BY <1>2, <1>4, <2>1, <2>2, <3>2 DEF Entry
  <2>3. CASE s # c
    <3>1. Handled(s)
      BY <1>5, <2>1, <2>3
    <3>2. ASSUME NEW x \in OnChain, Kind(x) = SetBy(type), Handled(x) PROVE ~Before(s, x)
      <4>1. x # 0 /\ x # c
        BY <1>1, <1>4, <1>8, <3>2
      <4>2. Handled(x)'
        BY <1>5, <3>2, <4>1
      <4> QED
        BY <1>1, <2>1, <3>2, <4>1, <4>2
    <3>3. [tx |-> s, type |-> type, on |-> TRUE] \in whitelist
      BY <3>1, <3>2 DEF InForce
    <3>4. ~(c # 0 /\ Kind(c) = SetBy(type) /\ Kind(c) \in Configs)
      <4> SUFFICES ASSUME c # 0, Kind(c) = SetBy(type), Kind(c) \in Configs PROVE FALSE
        OBVIOUS
      <4>1. Handled(c)' /\ c \in OnChain /\ Before(s, c)
        BY <1>6, <1>7, <2>1, <2>3
      <4> QED
        BY <1>1, <2>1, <4>1
    <3> QED
      BY <1>9, <3>3, <3>4
  <2> QED
    BY <2>2, <2>3
<1>14. CASE ~(c # 0 /\ Kind(c) \in Configs)
  <2>1. whitelist \subseteq whitelist'
    BY <1>9, <1>14
  <2>2. ASSUME NEW i \in 1..Len(tasks), tasks[i].status = "committed", Kind(tasks[i].tx) \in Configs
        PROVE  i \in 1..Len(tasks') /\ tasks'[i] = tasks[i]
    <3>1. tasks[i].tx # 0
      BY <2>2, CommittedTyped
    <3> QED
      BY <1>3, <1>4, <1>14, <2>2, <3>1
  <2>3. ASSUME NEW i \in 1..Len(tasks'), tasks'[i].status = "committed", txs'[tasks'[i].tx].kind \in Configs
        PROVE  i \in 1..Len(tasks) /\ tasks'[i] = tasks[i]
    <3>1. tasks'[i].tx # 0
      <4>1. tasks' \in Seq(Row \cup {Deleted})
        BY HandlerIs
      <4>2. tasks'[i] \in Row \cup {Deleted}
        BY <4>1
      <4>3. tasks'[i] # Deleted
        BY <2>3 DEF Deleted
      <4>4. tasks'[i].tx \in Ids
        BY <4>2, <4>3 DEF Row
      <4> QED
        BY <4>4, CellAssumption DEF Ids
    <3>2. tasks'[i].tx = c => c # 0 /\ Kind(c) \in Configs
      BY <1>1, <2>3, <3>1 DEF Kind
    <3> QED
      BY <1>3, <1>4, <1>14, <3>1, <3>2
  <2>4. \A t \in 1..Len(txs) : txs'[t] = txs[t]
    BY <1>1
  <2>5. WhitelistServed'
    BY <1>1, <2>1, <2>2, <2>3, <2>4, ServedStays
  <2> QED
    BY <1>10, <1>11, <1>12, <1>13, <2>5
\* The configuration handled is the last one committed.
<1>15. CASE c # 0 /\ Kind(c) \in Configs
  <2>1. ASSUME NEW i \in Latest(RowsOf(Configs, {"committed"}))'
        PROVE  tasks'[i].tx = c
    <3>1. i \in RowsOf(Configs, {"committed"})' /\ \A j \in RowsOf(Configs, {"committed"})' : j <= i
      BY DEF Latest
    <3>2. Len(tasks) + 1 \in RowsOf(Configs, {"committed"})'
      <4>1. Len(tasks) + 1 \in 1..Len(tasks') /\ tasks'[Len(tasks) + 1].tx = c
            /\ tasks'[Len(tasks) + 1].status = "committed"
        BY <1>1, <1>3, <1>4, <1>15
      <4> QED
        BY <1>1, <1>15, <4>1 DEF RowsOf, Kind
    <3>3. i \in 1..(Len(tasks) + 1) /\ Len(tasks) + 1 <= i
      BY <1>3, <1>4, <1>15, <3>1, <3>2 DEF RowsOf
    <3>4. i = Len(tasks) + 1
      BY <1>1, <3>3
    <3> QED
      BY <1>3, <1>4, <1>15, <3>4
  <2>2. ASSUME NEW type \in Types, NEW set, set = txs[c].rules[type], set # 0, txs[set].named
        PROVE  [tx |-> set, type |-> type, on |-> TRUE] \in whitelist'
    <3>1. \/ set = c /\ Kind(c) = SetBy(type)
          \/ Kind(c) # SetBy(type) /\ Entry(set, type, TRUE) \in whitelist
      BY <1>6, <1>15, <2>2, CarriedInForce
    <3>2. CASE set = c /\ Kind(c) = SetBy(type)
      <4>1. PICK on \in BOOLEAN : [tx |-> c, type |-> type, on |-> on] \in whitelist
        BY <1>6, <1>15, <2>2, <3>2 DEF Listed
      <4> QED
        BY <1>2, <1>4, <1>15, <3>2, <4>1 DEF Entry
    <3>3. CASE Kind(c) # SetBy(type) /\ Entry(set, type, TRUE) \in whitelist
      <4>1. PICK w \in whitelist : w = Entry(set, type, TRUE)
        BY <3>3
      <4>2. w.type = type
        BY <4>1 DEF Entry
      <4>3. w \in whitelist'
        BY <1>9, <3>3, <4>2
      <4> QED
        BY <4>1, <4>3 DEF Entry
    <3> QED
      BY <3>1, <3>2, <3>3
  <2>3. ASSUME NEW i \in Latest(RowsOf(Configs, {"committed"}))', NEW type \in Types,
               txs'[tasks'[i].tx].rules[type] # 0, txs'[txs'[tasks'[i].tx].rules[type]].named
        PROVE  [tx |-> txs'[tasks'[i].tx].rules[type], type |-> type, on |-> TRUE] \in whitelist'
    <3>1. tasks'[i].tx = c /\ txs' = txs
      BY <1>1, <2>1
    <3> QED
      BY <2>2, <2>3, <3>1
  <2>4. WhitelistServed'
    BY <2>3 DEF WhitelistServed
  <2> QED
    BY <1>10, <1>11, <1>12, <1>13, <2>4
<1> QED
  BY <1>14, <1>15

\* The other steps.
LEMMA ConfigsCalm ==
    ASSUME ParserTyped, CellTyped, Placed, Placed', RowsKept, LostPay, RowsKept', WhiteTyped,
           Listed, OneOpen, OpenLast, InForce, WhitelistServed,
           [Next]_vars, ~(Handler /\ UNCHANGED main), ~twice'
    PROVE  (Listed /\ OneOpen /\ OpenLast /\ InForce /\ WhitelistServed)'
<1>1. /\ \A t \in 1..Len(txs) : txs'[t] = txs[t]
      /\ OnChain \cup pool \cup signing \subseteq 1..Len(txs) /\ Len(tasks) \in Nat
      /\ \A t \in 1..Len(txs) : t # 0
      /\ NewId # 0 /\ NewId \notin OnChain \cup pool \cup signing
      /\ \A i \in 1..Len(tasks) : tasks[i].tx # NewId
  <2>1. NewId # 0 /\ NewId \notin OnChain \cup pool \cup signing /\ \A i \in 1..Len(tasks) : tasks[i].tx # NewId
    BY NewIdIsNew
  <2> QED
    BY <2>1, TxsStay, CellKnown DEF CellTyped
<1>2. /\ ~twice /\ (Building \/ UNCHANGED whitelist)
      /\ \A i \in 1..Len(tasks) : i \in 1..Len(tasks') /\ tasks'[i].tx = tasks[i].tx
      /\ \A i \in 1..Len(tasks) : tasks[i].status = "committed" => tasks'[i] = tasks[i]
      /\ \A i \in 1..Len(tasks') : tasks'[i].status = "committed" => i \in 1..Len(tasks)
      /\ \A i \in 1..Len(tasks) : tasks'[i].status = "committed" => tasks'[i] = tasks[i]
      /\ \A i \in 1..Len(tasks') :
           i \in 1..Len(tasks) \/ (i = Len(tasks) + 1 /\ tasks'[i].tx \in pool')
  BY Calm
<1>3. ASSUME NEW t PROVE Handled(t)' <=> Handled(t)
  BY <1>2 DEF Handled
<1>4. \A t : Handled(t) => t \in OnChain \/ t = 0
  BY DEF Handled, RowsKept
\* A transaction built or sent sets a list only if it is a request that was checked.
<1>5. /\ whitelist \subseteq whitelist'
      /\ \A type \in Types : NewId \in OnChain' \cup pool' \cup signing'
              /\ txs'[NewId].kind = SetBy(type) /\ txs'[NewId].named
                => \E on \in BOOLEAN : [tx |-> NewId, type |-> type, on |-> on] \in whitelist'
      /\ NewId \in OnChain' \cup pool' \cup signing' /\ txs'[NewId].kind \in Configs =>
           Building /\ check
  <2>1. CASE Building
    <3>1. PICK kind \in Signed, named \in BOOLEAN, rules \in Fresh, hash \in Fresh :
            /\ buildTx(kind, named, rules, hash)
            /\ IF named THEN \E type \in Types :
                               /\ kind = SetBy(type)
                               /\ whitelist' = whitelist
                                     \cup {[tx |-> NewId, type |-> type, on |-> FALSE]}
                        ELSE UNCHANGED whitelist
            /\ kind \in Configs => check
      BY <2>1, BuildIs DEF Building
    <3>2. NewTx(kind, named, rules, hash, {}) /\ kind \in Kinds /\ {} \in SUBSET Ids
      BY <3>1 DEF buildTx, Kinds
    <3>3. txs'[NewId].kind = kind /\ txs'[NewId].named = named
      BY <3>2, NewTxIs
    <3>4. ASSUME named, NEW type \in Types, kind = SetBy(type)
          PROVE  [tx |-> NewId, type |-> type, on |-> FALSE] \in whitelist'
      BY <3>1, <3>4, OneType
    <3>5. whitelist \subseteq whitelist'
      BY <3>1
    <3> QED
      BY <2>1, <3>1, <3>3, <3>4, <3>5
  <2>2. ASSUME ~Building, NewId \in OnChain' \cup pool' \cup signing'
        PROVE  txs'[NewId].kind \notin Configs
    <3>1. CASE Sending
      <4>1. PICK kind \in {"profit"} \cup Withdrawals, rules \in Fresh, pays \in SUBSET Ids :
              NewTx(kind, FALSE, rules, HashOf(LiveCell), pays)
        BY <3>1, SendIs DEF Sending
      <4>2. kind \in Kinds /\ HashOf(LiveCell) \in Fresh
        BY ListsKnown DEF Kinds
      <4>3. txs'[NewId].kind = kind
        BY <4>1, <4>2, NewTxIs
      <4> QED
        BY <4>3 DEF Configs, Withdrawals
    <3>2. CASE Update
      <4>1. NewTx("update", FALSE, HashOf(LiveCell), HashOf(LiveCell), {})
        BY <3>2 DEF Update
      <4>2. "update" \in Kinds /\ HashOf(LiveCell) \in Fresh /\ {} \in SUBSET Ids
        BY ListsKnown DEF Kinds
      <4>3. txs'[NewId].kind = "update"
        BY <4>1, <4>2, NewTxIs
      <4> QED
        BY <4>3 DEF Configs
    <3>3. CASE ~Sending /\ ~Update
      <4>1. OnChain' \cup pool' \cup signing' \subseteq OnChain \cup pool \cup signing
        BY <2>2, <3>3, Moves DEF SameChain, Joins
      <4> QED
        BY <1>1, <2>2, <4>1
    <3> QED
      BY <3>1, <3>2, <3>3
  <2>3. CASE ~Building
    BY <1>2, <2>2, <2>3, OneType
  <2> QED
    BY <2>1, <2>3
<1>6. OnChain' \cup pool' \cup signing' \subseteq OnChain \cup pool \cup signing \cup {NewId}
  BY Moves DEF SameChain, Joins
<1>7. Listed'
  <2> SUFFICES ASSUME NEW t \in signing' \cup pool' \cup OnChain', NEW type \in Types,
                      txs'[t].kind = SetBy(type), txs'[t].named, ~Handled(t)'
               PROVE  \E on \in BOOLEAN : [tx |-> t, type |-> type, on |-> on] \in whitelist'
    BY DEF Listed, Kind
  <2>1. CASE t = NewId
    BY <1>5, <2>1
  <2>2. CASE t # NewId
    <3>1. t \in OnChain \cup pool \cup signing
      BY <1>6, <2>2
    <3>2. Kind(t) = SetBy(type) /\ txs[t].named
      BY <1>1, <3>1 DEF Kind
    <3>3. ~Handled(t)
      BY <1>3
    <3>4. \E on \in BOOLEAN : [tx |-> t, type |-> type, on |-> on] \in whitelist
      BY <3>1, <3>2, <3>3 DEF Listed
    <3> QED
      BY <1>5, <3>4
  <2> QED
    BY <2>1, <2>2
<1>8. OneOpen'
  <2> SUFFICES ASSUME NEW u \in OnChain', txs'[u].kind \in Configs, ~Handled(u)'
               PROVE  /\ \A v \in OnChain' : txs'[v].kind \in Configs => v = u \/ (Handled(v)' /\ Before(v, u)')
                      /\ \A t \in signing' \cup pool' : txs'[t].kind \notin Configs
    BY DEF OneOpen, Kind
  <2>1. ~Handled(u)
    BY <1>3
  <2>2. ASSUME u \in OnChain
        PROVE  /\ u # 0 /\ Kind(u) \in Configs
               /\ \A v \in OnChain : txs'[v].kind \in Configs => v = u \/ (Handled(v) /\ Before(v, u))
               /\ \A t \in signing \cup pool : txs'[t].kind \notin Configs
               /\ ~check
    <3>1. u # 0 /\ Kind(u) \in Configs
      BY <1>1, <2>2 DEF Kind
    <3>2. /\ \A v \in OnChain : Kind(v) \in Configs => v = u \/ (Handled(v) /\ Before(v, u))
          /\ \A t \in signing \cup pool : Kind(t) \notin Configs
      BY <2>1, <2>2, <3>1 DEF OneOpen
    <3>3. ~check
      BY <2>1, <2>2, <3>1, CheckClosed
    <3>4. \A t \in OnChain \cup signing \cup pool : txs'[t].kind = Kind(t)
      BY <1>1 DEF Kind
    <3> QED
      BY <3>1, <3>2, <3>3, <3>4
  <2>3. \A v \in OnChain : v # 0
    BY <1>1
  <2>4. CASE SameChain
    <3>1. u \in OnChain
      BY <2>4 DEF SameChain
    <3>2. NewId \in pool' \cup signing' => txs'[NewId].kind \notin Configs
      BY <1>5, <2>2, <3>1
    <3>3. pool' \cup signing' \subseteq pool \cup signing \cup {NewId}
      BY <1>1, <1>6, <2>4, Moves DEF SameChain, Joins
    <3>4. \A t \in signing' \cup pool' : txs'[t].kind \notin Configs
      BY <2>2, <3>1, <3>2, <3>3
    <3>5. ASSUME NEW v \in OnChain', txs'[v].kind \in Configs, v # u
          PROVE  Handled(v)' /\ Before(v, u)'
      <4>1. v \in OnChain /\ v # 0 /\ u # 0
        BY <2>2, <2>3, <2>4, <3>1 DEF SameChain
      <4>2. Handled(v) /\ Before(v, u)
        BY <2>2, <3>1, <3>5, <4>1
      <4> QED
        BY <1>3, <2>4, <4>1, <4>2 DEF SameChain
    <3> QED
      BY <3>4, <3>5
  <2>5. ASSUME NEW t \in pool \cup {NewId}, Joins(t), pool' = {}, signing' = {},
               t \in pool \/ txs'[t].kind \notin Configs
        PROVE  \A v \in OnChain' : txs'[v].kind \in Configs => v = u \/ (Handled(v)' /\ Before(v, u)')
    <3> SUFFICES ASSUME NEW v \in OnChain', txs'[v].kind \in Configs, v # u
                 PROVE  Handled(v)' /\ Before(v, u)'
      OBVIOUS
    <3>1. /\ OnChain' = OnChain \cup {t} /\ t \notin OnChain /\ t # 0
          /\ \A x, y : x # 0 /\ y # 0 => (Before(x, y)' <=> Before(x, y) \/ (x \in OnChain /\ y = t))
      BY <1>1, <2>5 DEF Joins
    <3>2. CASE u = t
      <4>1. v \in OnChain /\ v # 0 /\ t \in pool
        BY <2>3, <2>5, <3>1, <3>2
      <4>2. Kind(v) \in Configs /\ Kind(t) \in Configs
        BY <1>1, <3>2, <4>1 DEF Kind
      <4>3. Handled(v)
        BY <4>1, <4>2 DEF OneOpen
      <4> QED
        BY <1>3, <3>1, <3>2, <4>1, <4>3
    <3>3. CASE u # t
      <4>1. u \in OnChain /\ u # 0
        BY <2>3, <3>1, <3>3
      <4>2. txs'[t].kind \notin Configs
        BY <2>2, <2>5, <4>1
      <4>3. v \in OnChain /\ v # 0
        BY <2>3, <3>1, <4>2
      <4>4. Handled(v) /\ Before(v, u)
        BY <2>2, <4>1, <4>3
      <4> QED
        BY <1>3, <3>1, <4>1, <4>3, <4>4
    <3> QED
      BY <3>2, <3>3
  <2>6. ASSUME Update, Joins(NewId), pool' = {}, signing' = {}
        PROVE  NewId \in OnChain' /\ txs'[NewId].kind \notin Configs
    <3>1. NewTx("update", FALSE, HashOf(LiveCell), HashOf(LiveCell), {})
      BY <2>6 DEF Update
    <3>2. "update" \in Kinds /\ HashOf(LiveCell) \in Fresh /\ {} \in SUBSET Ids
      BY ListsKnown DEF Kinds
    <3>3. txs'[NewId].kind = "update"
      BY <3>1, <3>2, NewTxIs
    <3> QED
      BY <2>6, <3>3 DEF Configs, Joins
  <2> QED
    BY <2>4, <2>5, <2>6, Moves
<1>9. OpenLast'
  <2> SUFFICES ASSUME NEW u \in OnChain' \cup pool', txs'[u].kind \in Configs, ~Handled(u)',
                      NEW i \in 1..Len(tasks'), NEW j \in 1..Len(tasks'), tasks'[i].tx = u,
                      tasks'[j].tx # 0, txs'[tasks'[j].tx].kind \in Configs
               PROVE  j <= i
    BY DEF OpenLast, ConfigRow, Kind
  <2>1. ~Handled(u)
    BY <1>3
  <2>2. CASE i \notin 1..Len(tasks)
    BY <1>1, <1>2, <2>2
  <2>3. CASE i \in 1..Len(tasks) /\ j \in 1..Len(tasks)
    <3>1. tasks[i].tx = u /\ tasks[j].tx = tasks'[j].tx
      BY <1>2, <2>3
    <3>2. u # 0
      <4>1. u \in OnChain \cup pool \cup signing \cup {NewId}
        BY <1>6
      <4> QED
        BY <1>1, <4>1
    <3>3. u \in OnChain \cup pool
      <4>1. u # NewId /\ u \notin signing
        BY <1>1, <2>3, <3>1, <3>2 DEF RowsKept, Placed, Apart
      <4> QED
        BY <1>6, <4>1
    <3>4. Kind(u) \in Configs
      BY <1>1, <3>3 DEF Kind
    <3>5. ConfigRow(j)
      <4>1. tasks[j].tx \in 1..Len(txs)
        BY <2>3, <3>1, CellKnown
      <4> QED
        BY <1>1, <3>1, <4>1 DEF ConfigRow, Kind
    <3> QED
      BY <2>1, <2>3, <3>1, <3>3, <3>4, <3>5 DEF OpenLast
  <2>4. CASE i \in 1..Len(tasks) /\ j \notin 1..Len(tasks)
    <3>1. PICK t : t = tasks'[j].tx
      OBVIOUS
    <3>2. t \in pool' /\ txs'[t].kind \in Configs /\ t # 0
      BY <1>2, <2>4, <3>1
    <3>3. t # u
      BY <2>4, <3>1, <3>2 DEF RowsKept
    <3>4. u \notin pool'
      BY <3>2, <3>3 DEF Placed, SpendsLive
    <3>5. u \in OnChain'
      BY <3>4
    <3> QED
      BY <1>8, <3>2, <3>5 DEF OneOpen, Kind
  <2> QED
    BY <2>2, <2>3, <2>4
<1>10. InForce'
  <2> SUFFICES ASSUME NEW s \in OnChain', NEW type \in Types,
                      txs'[s].kind = SetBy(type), txs'[s].named, Handled(s)',
                      \A x \in OnChain' : txs'[x].kind = SetBy(type) /\ Handled(x)' => ~Before(s, x)'
               PROVE  [tx |-> s, type |-> type, on |-> TRUE] \in whitelist'
    BY DEF InForce, Kind
  <2>1. Handled(s) /\ (s = 0 \/ s \in OnChain)
    BY <1>3, <1>4
  <2>2. s # 0
    BY <1>1, <1>6
  <2>3. s \in OnChain /\ Kind(s) = SetBy(type) /\ txs[s].named
    BY <1>1, <2>1, <2>2 DEF Kind
  <2>4. ASSUME NEW x \in OnChain, Kind(x) = SetBy(type), Handled(x) PROVE ~Before(s, x)
    <3>1. x # 0 /\ txs'[x].kind = SetBy(type) /\ Handled(x)'
      BY <1>1, <1>3, <2>4 DEF Kind
    <3>2. SameChain \/ \E t \in pool \cup {NewId} : Joins(t)
      BY Moves
    <3>3. x \in OnChain' /\ (Before(s, x) => Before(s, x)')
      BY <2>2, <3>1, <3>2 DEF SameChain, Joins
    <3> QED
      BY <3>1, <3>3
  <2>5. [tx |-> s, type |-> type, on |-> TRUE] \in whitelist
    BY <2>1, <2>3, <2>4 DEF InForce
  <2> QED
    BY <1>5, <2>5
<1>11. WhitelistServed'
  BY <1>1, <1>2, <1>5, ServedStays
<1> QED
  BY <1>7, <1>8, <1>9, <1>10, <1>11

LEMMA NextConfigs ==
    ASSUME ParserTyped, CellTyped, Placed, RulesKept, Saved, RowsKept, LostPay, ConfigsKept,
           ~twice => WhitelistServed, [Next]_vars
    PROVE  ConfigsKept' /\ (~twice' => WhitelistServed')
<1>1. WhiteTyped' /\ Setters'
  BY NextWhite, NextSetters, NextRules DEF ConfigsKept
<1>2. ASSUME ~twice' PROVE (Listed /\ OneOpen /\ OpenLast /\ InForce /\ WhitelistServed)'
  <2>1. ~twice
    <3>1. CASE Handler /\ UNCHANGED main
      BY <1>2, <3>1, HandlerLists DEF ConfigsKept
    <3>2. CASE ~(Handler /\ UNCHANGED main)
      BY <1>2, <3>2, Calm
    <3> QED
      BY <3>1, <3>2
  <2>2. WhiteTyped /\ Setters /\ Listed /\ OneOpen /\ OpenLast /\ InForce /\ WhitelistServed
    BY <2>1 DEF ConfigsKept
  <2>3. Placed' /\ RowsKept'
    BY NextPlaced, NextRows
  <2>4. CASE Handler /\ UNCHANGED main
    BY <1>2, <2>2, <2>4, ConfigsHandled
  <2>5. CASE ~(Handler /\ UNCHANGED main)
    BY <1>2, <2>2, <2>3, <2>5, ConfigsCalm
  <2> QED
    BY <2>4, <2>5
<1> QED
  BY <1>1, <1>2 DEF ConfigsKept

LEMMA InitConfigs == Init => ConfigsKept /\ WhitelistServed
<1> SUFFICES ASSUME Init PROVE ConfigsKept /\ WhitelistServed
  OBVIOUS
<1>1. pool = {} /\ signing = {} /\ whitelist = {} /\ Len(tasks) = 0
  BY DEF Init
<1>2. ParserTyped /\ CellTyped
  BY InitTyped
<1>3. \A t \in 1..Len(txs) : Kind(t) = "enable" /\ \A type \in Types : txs[t].hash[type] = 0
  <2>1. CASE txs = <<>>
    BY <2>1
  <2>2. CASE txs = <<Enable>>
    <3>1. PICK e : e = Enable
      OBVIOUS
    <3>2. e.kind = "enable" /\ \A type \in Types : e.hash[type] = 0
      BY <3>1 DEF Enable, NoLists
    <3>3. \A t \in 1..Len(txs) : txs[t] = e
      BY <2>2, <3>1
    <3> QED
      BY <3>2, <3>3 DEF Kind
  <2> QED
    BY <2>1, <2>2 DEF Init
<1>4. OnChain \subseteq 1..Len(txs)
  BY <1>2, CellKnown
<1>5. \A t \in OnChain : Kind(t) \notin Configs /\ \A type \in Types : Kind(t) # SetBy(type)
  BY <1>3, <1>4, OneType DEF Configs
<1>6. WhiteTyped /\ Setters
  BY <1>1, <1>3, <1>4 DEF WhiteTyped, Setters
<1>7. Listed /\ OneOpen /\ OpenLast /\ InForce
  BY <1>1, <1>5 DEF Listed, OneOpen, OpenLast, InForce
<1>8. WhitelistServed
  <2>1. RowsOf(Configs, {"committed"}) = {}
    BY <1>1 DEF RowsOf
  <2> QED
    BY <2>1 DEF WhitelistServed, Latest
<1> QED
  BY <1>6, <1>7, <1>8 DEF ConfigsKept

\* [white list written before the signature] WhitelistServed: the accounts that the
\* rule lists of the last configuration seen name are in the white list, committed,
\* as long as no configuration was handled twice.  It needs rows written before
\* their transaction is mined (Saved).
THEOREM NamedAreServed == Saved => (Spec => []WhitelistServed)
<1> DEFINE Inv == /\ ParserTyped /\ CellTyped /\ Placed
                  /\ RulesKept /\ RowsKept /\ LostPay /\ ConfigsKept
                  /\ (~twice => WhitelistServed)
<1> SUFFICES ASSUME Saved PROVE Spec => []WhitelistServed
  OBVIOUS
<1>1. Init => Inv
  BY InitTyped, InitPlaced, InitRules, InitRows, InitConfigs DEF Init, LostPay
<1>2. Inv /\ [Next]_vars => Inv'
  <2> SUFFICES ASSUME Inv, [Next]_vars PROVE Inv'
    OBVIOUS
  <2>1. ParserTyped' /\ CellTyped' /\ Placed'
    BY NextTyped, NextPlaced
  <2>2. RulesKept' /\ RowsKept' /\ LostPay'
    BY NextRules, NextRows, NextLost
  <2>3. ConfigsKept' /\ (~twice' => WhitelistServed')
    BY NextConfigs
  <2> QED
    BY <2>1, <2>2, <2>3
<1>3. Inv => WhitelistServed
  BY DEF WhitelistServed
<1> HIDE DEF Inv
<1> QED
  BY <1>1, <1>2, <1>3, PTL DEF Spec

=============================================================================
