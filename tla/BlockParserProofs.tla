-------------------------- MODULE BlockParserProofs --------------------------
(* What the block parser keeps true whatever its handlers do: which of the   *)
(* blocks below the parser are on the main chain of the node as it handled   *)
(* them.  For every confirmation depth, batch, window of stored blocks and   *)
(* number of forks, failed handlers and restarts.                            *)
EXTENDS BlockParser, WellFoundedInduction, TLAPS

\* Forks are no deeper than the window of stored blocks reaches, and leave what
\* a batch has handled alone; a stored block that has left the main chain is
\* noticed before the parser is far behind again.
Settled ==
    /\ ForkNoticed
    /\ MaxDepth <= ConfirmNum + Kept + 1
    /\ MaxDepth <= ConfirmNum + 3

Block == [salt : Nat, tx : Nat]

-----------------------------------------------------------------------------
(* The invariant of the parser *)

\* The chain, the parser and the stored blocks have their types; the last block
\* of the chain is never handled, and a batch ends before the blocks left to settle.
ParserTyped ==
    /\ main \in Seq(Block) /\ Tip \in FirstTip..MaxBlocks
    /\ \A n \in 1..Tip : main[n].salt <= salt
    /\ salt \in 0..faults /\ faults \in 0..MaxFaults
    /\ parser \in [current : First..Tip, left : 0..ConcurrencyNum]
    /\ parser.left > 0 => parser.current + parser.left + ConfirmNum + 1 <= Tip
    /\ \A n \in DOMAIN stored : n \in First..(Tip - 1) /\ stored[n] \in 0..salt
    /\ stored # <<>> => DOMAIN stored # {}

\* The stored blocks are those of an interval, and the parser stands in it or
\* just behind it.
Window ==
    /\ \A n, k \in DOMAIN stored : \A m \in n..k : m \in DOMAIN stored
    /\ stored # <<>> => parser.current - 1 \in DOMAIN stored \/ parser.current \in DOMAIN stored
    /\ stored = <<>> => parser.current = First

Same(n) == stored[n] = main[n].salt

\* Stored blocks ahead of the parser have left the main chain; where a stored
\* block is on it, so are those below.
Branch ==
    /\ \A n \in DOMAIN stored : n >= parser.current => ~Same(n)
    /\ \A n, k \in DOMAIN stored : n < k /\ Same(k) => Same(n)

\* A block that was handled and is not stored any more is too old for a fork.
Old ==
    \A n \in First..(parser.current - 1) : n \notin DOMAIN stored => n + MaxDepth <= Tip

\* Between two blocks of a batch the parser stands on the main chain.
Batch ==
    parser.left > 0 => parser.current - 1 \in DOMAIN stored /\ Same(parser.current - 1)

\* A stored block that has left the main chain is not far behind.
Noticed == \A n \in DOMAIN stored : ~Same(n) => ~FarBehind(n, Tip)

ParserInv == ParserTyped /\ Window /\ Branch /\ Old /\ Batch /\ Noticed

\* The blocks handled that are still on the main chain.
Done == {n \in First..(parser.current - 1) : n \in DOMAIN stored => Same(n)}

-----------------------------------------------------------------------------
(* Constants and typing *)

LEMMA ParserBounds ==
    /\ Start \in Nat \ {0} /\ Kept \in Nat \ {0} /\ ConfirmNum \in Nat /\ ConcurrencyNum \in Nat
    /\ MaxDepth \in Nat /\ MaxBlocks \in Nat /\ MaxFaults \in Nat
    /\ First = Start + 1 /\ First \in Nat /\ FirstTip = ConfirmNum + ConcurrencyNum
    /\ FirstTip \in Nat /\ First <= FirstTip /\ FirstTip <= MaxBlocks
BY ParserAssumption DEF ParserAssumption, First, FirstTip

LEMMA ChainKnown ==
    ASSUME ParserTyped
    PROVE  /\ Tip \in Nat /\ Tip >= First /\ DOMAIN main = 1..Tip
           /\ \A n \in 1..Tip : main[n] \in Block /\ main[n].salt \in 0..salt /\ main[n].tx \in Nat
           /\ salt \in Nat /\ faults \in Nat
           /\ parser.current \in First..Tip /\ parser.current \in Nat
           /\ parser.left \in 0..ConcurrencyNum /\ parser.left \in Nat
           /\ DOMAIN stored \subseteq First..(Tip - 1) /\ DOMAIN stored \subseteq Nat
           /\ DOMAIN stored \subseteq 1..Tip
<1>1. main \in Seq(Block) /\ Tip \in Nat /\ Tip >= First /\ salt \in Nat /\ faults \in Nat
  BY ParserBounds DEF ParserTyped
<1>2. DOMAIN main = 1..Tip /\ \A n \in 1..Tip : main[n] \in Block
  BY <1>1 DEF Tip
<1>3. \A n \in 1..Tip : main[n].salt \in 0..salt /\ main[n].tx \in Nat
  BY <1>1, <1>2 DEF ParserTyped, Block
<1>4. /\ parser.current \in First..Tip /\ parser.current \in Nat
      /\ parser.left \in 0..ConcurrencyNum /\ parser.left \in Nat
  BY <1>1, ParserBounds DEF ParserTyped
<1>5. DOMAIN stored \subseteq First..(Tip - 1)
  BY DEF ParserTyped
<1>6. DOMAIN stored \subseteq Nat /\ DOMAIN stored \subseteq 1..Tip
  BY <1>1, <1>5, ParserBounds
<1> QED
  BY <1>1, <1>2, <1>3, <1>4, <1>5, <1>6

\* A function on 1..n is a sequence of length n.
LEMMA SequenceIs ==
    ASSUME NEW S, NEW n \in Nat, NEW f, f = [i \in 1..n |-> f[i]], \A i \in 1..n : f[i] \in S
    PROVE  f \in Seq(S) /\ Len(f) = n
<1>1. f \in [1..n -> S]
  OBVIOUS
<1>2. f \in Seq(S)
  BY <1>1
<1> QED
  BY <1>1, <1>2

\* A set of numbers of the chain that is not empty has a largest member.
LEMMA LargestExists ==
    ASSUME NEW top \in Nat, NEW S \in SUBSET (0..top), S # {}
    PROVE  \E n \in S : \A k \in S : k <= n
<1> DEFINE down == {top - n : n \in S}
<1>1. down \subseteq Nat /\ down # {}
  <2>1. \A n \in S : n \in Nat /\ top - n \in Nat
    OBVIOUS
  <2>2. PICK n \in S : TRUE
    OBVIOUS
  <2>3. top - n \in down
    BY <2>2
  <2>4. down \subseteq Nat
    BY <2>1
  <2> HIDE DEF down
  <2> QED
    BY <2>3, <2>4
<1>2. PICK x \in down : \A y \in down : ~ (<<y, x>> \in OpToRel(<, Nat))
  BY <1>1, NatLessThanWellFounded, WFMin
<1>3. \A y \in down : ~ (y < x)
  BY <1>1, <1>2 DEF OpToRel
<1>4. PICK n \in S : x = top - n
  OBVIOUS
<1>5. ASSUME NEW k \in S PROVE k <= n
  <2>1. ~ (top - k < x)
    BY <1>3
  <2> QED
    BY <1>4, <2>1
<1> QED
  BY <1>5

\* Where the parser starts again: behind the highest stored block.
LEMMA RestartKnown ==
    ASSUME ParserTyped
    PROVE  /\ stored = <<>> => initCurrentBlockNumber = First
           /\ stored # <<>> => /\ initCurrentBlockNumber - 1 \in DOMAIN stored
                               /\ \A k \in DOMAIN stored : k <= initCurrentBlockNumber - 1
           /\ initCurrentBlockNumber \in First..Tip
<1>1. CASE stored = <<>>
  BY <1>1, ParserBounds, ChainKnown DEF initCurrentBlockNumber, First
<1>2. CASE stored # <<>>
  <2>1. DOMAIN stored # {} /\ DOMAIN stored \subseteq 0..Tip /\ Tip \in Nat
    BY <1>2, ChainKnown DEF ParserTyped
  <2>2. \E n \in DOMAIN stored : \A k \in DOMAIN stored : k <= n
    BY <2>1, LargestExists
  <2>3. PICK n : n = CHOOSE m \in DOMAIN stored : \A k \in DOMAIN stored : k <= m
    OBVIOUS
  <2>4. n \in DOMAIN stored /\ \A k \in DOMAIN stored : k <= n
    BY <2>2, <2>3
  <2>5. n \in First..(Tip - 1) /\ n \in Nat
    BY <2>4, ChainKnown
  <2>6. initCurrentBlockNumber = 1 + n
    BY <1>2, <2>3 DEF initCurrentBlockNumber
  <2> QED
    BY <1>2, <2>4, <2>5, <2>6, ChainKnown, ParserBounds
<1> QED
  BY <1>1, <1>2

-----------------------------------------------------------------------------
(* The types, step by step *)

\* The handlers of a block run: it is none of those left to settle.
LEMMA HandledIs ==
    ASSUME ParserTyped, ParserTurn, Handling
    PROVE  /\ parser.current + ConfirmNum + 1 <= Tip
           /\ \E left \in 0..ConcurrencyNum :
                /\ parsingBlockData(left)
                /\ left > 0 => parser.current + left + ConfirmNum + 2 <= Tip
<1>1. /\ parser.current \in Nat /\ parser.left \in Nat /\ parser.left <= ConcurrencyNum
      /\ Tip \in Nat /\ ConfirmNum \in Nat /\ ConcurrencyNum \in Nat
  BY ChainKnown, ParserBounds
<1>2. CASE parser.left > 0
  <2>1. PICK left : left = parser.left - 1
    OBVIOUS
  <2>2. parsingBlockData(left)
    BY <1>2, <2>1 DEF ParserTurn, parserSubMode, parserConcurrencyMode
  <2>3. parser.current + parser.left + ConfirmNum + 1 <= Tip
    BY <1>2 DEF ParserTyped
  <2> QED
    BY <1>1, <1>2, <2>1, <2>2, <2>3
<1>3. CASE parser.left = 0 /\ ConcurrencyMode
  <2>1. PICK left : left = ConcurrencyNum - 1
    OBVIOUS
  <2>2. parsingBlockData(left) /\ FarBehind(parser.current, Tip) /\ ConcurrencyNum > 1
    BY <1>3, <2>1 DEF ParserTurn, parserSubMode, parserConcurrencyMode, ConcurrencyMode, Ready
  <2>3. parser.current < Tip - ConfirmNum - ConcurrencyNum
    BY <2>2 DEF FarBehind
  <2> QED
    BY <1>1, <2>1, <2>2, <2>3
<1>4. CASE parser.left = 0 /\ ~ConcurrencyMode
  <2>1. parsingBlockData(0) /\ parser.current < Tip - ConfirmNum
    BY <1>4 DEF ParserTurn, parserSubMode, parserConcurrencyMode, Handling, Ready
  <2> QED
    BY <1>1, <2>1
<1> QED
  BY <1>1, <1>2, <1>3, <1>4

\* What is stored with a block: the blocks before it, without those too old.
LEMMA StoredIs ==
    ASSUME ParserTyped, NEW left \in 0..ConcurrencyNum, parsingBlockData(left)
    PROVE  LET n == parser.current
               D == DOMAIN stored'
           IN  /\ UNCHANGED <<main, salt, faults>> /\ Tip' = Tip
               /\ parser' = [current |-> n + 1, left |-> left]
               /\ n \in D /\ D \subseteq DOMAIN stored \cup {n}
               /\ \A k \in DOMAIN stored \cup {n} : k \notin D => k <= n - Kept
               /\ \A m \in D, k \in DOMAIN stored \cup {n} : m <= k => k \in D
               /\ stored'[n] = main[n].salt
               /\ \A k \in D : k # n => stored'[k] = stored[k]
<1> DEFINE n == parser.current
<1>1. n \in Nat /\ Kept \in Nat \ {0} /\ DOMAIN stored \subseteq Nat
  BY ChainKnown, ParserBounds
<1>2. /\ UNCHANGED <<main, salt, faults>>
      /\ parser' = [current |-> n + 1, left |-> left]
      /\ stored' = IF left = 0 THEN DeleteBlockInfo(CreateBlockInfo(stored, n), n + 1 - Kept)
                                ELSE CreateBlockInfo(stored, n)
  BY DEF parsingBlockData
<1>3. PICK D : D = IF left = 0 THEN {k \in DOMAIN stored \cup {n} : k >= n + 1 - Kept}
                               ELSE DOMAIN stored \cup {n}
  OBVIOUS
<1>4. stored' = [k \in D |-> IF k = n THEN main[n].salt ELSE stored[k]]
  BY <1>2, <1>3 DEF DeleteBlockInfo, CreateBlockInfo
<1>5. DOMAIN stored' = D
  BY <1>4
<1>6. n \in D /\ D \subseteq DOMAIN stored \cup {n}
  BY <1>1, <1>3
<1>7. \A k \in DOMAIN stored \cup {n} : k \notin D => k <= n - Kept
  BY <1>1, <1>3
<1>8. \A m \in D, k \in DOMAIN stored \cup {n} : m <= k => k \in D
  BY <1>1, <1>3
<1>9. stored'[n] = main[n].salt /\ \A k \in D : k # n => stored'[k] = stored[k]
  BY <1>4, <1>6
<1>10. Tip' = Tip
  BY <1>2 DEF Tip
<1> QED
  BY <1>2, <1>5, <1>6, <1>7, <1>8, <1>9, <1>10

LEMMA HandledTyped ==
    ASSUME ParserTyped, ParserTurn, Handling
    PROVE  ParserTyped' /\ UNCHANGED main
<1> DEFINE n == parser.current
<1>1. n + ConfirmNum + 1 <= Tip
  BY HandledIs
<1>2. PICK left \in 0..ConcurrencyNum :
        parsingBlockData(left) /\ (left > 0 => n + left + ConfirmNum + 2 <= Tip)
  BY HandledIs
<1>3. /\ UNCHANGED <<main, salt, faults>> /\ Tip' = Tip
      /\ parser' = [current |-> n + 1, left |-> left]
      /\ n \in DOMAIN stored' /\ DOMAIN stored' \subseteq DOMAIN stored \cup {n}
      /\ stored'[n] = main[n].salt
      /\ \A k \in DOMAIN stored' : k # n => stored'[k] = stored[k]
  BY <1>2, StoredIs
<1>4. /\ parser'.current = n + 1 /\ parser'.left = left /\ n \in Nat /\ First \in Nat /\ n >= First
      /\ Tip \in Nat /\ ConfirmNum \in Nat /\ main[n].salt \in 0..salt
  BY <1>3, ChainKnown, ParserBounds
<1>5. parser' \in [current : First..Tip, left : 0..ConcurrencyNum]
  BY <1>1, <1>3, <1>4
<1>6. parser'.left > 0 => parser'.current + parser'.left + ConfirmNum + 1 <= Tip
  BY <1>2, <1>4
<1>7. \A k \in DOMAIN stored' : k \in First..(Tip - 1) /\ stored'[k] \in 0..salt
  <2> SUFFICES ASSUME NEW k \in DOMAIN stored'
               PROVE k \in First..(Tip - 1) /\ stored'[k] \in 0..salt
    OBVIOUS
  <2>1. CASE k = n
    BY <1>1, <1>3, <1>4, <2>1
  <2>2. CASE k # n
    BY <1>3, <2>2 DEF ParserTyped
  <2> QED
    BY <2>1, <2>2
<1> QED
  BY <1>3, <1>5, <1>6, <1>7 DEF ParserTyped

LEMMA SteppedTyped ==
    ASSUME ParserTyped, ParserTurn, ~Handling
    PROVE  /\ parser.left = 0 /\ parser.current - 1 \in DOMAIN stored /\ ~Same(parser.current - 1)
           /\ parser' = Turn(parser.current - 1) /\ UNCHANGED <<main, salt, stored, faults>>
           /\ ParserTyped'
<1>1. /\ parser.left = 0 /\ checkFork(parser.current)
      /\ parser' = Turn(parser.current - 1) /\ UNCHANGED <<main, salt, stored, faults>>
  <2>1. parser.left \in Nat
    BY ChainKnown
  <2> QED
    BY <2>1 DEF ParserTurn, parserSubMode, parserConcurrencyMode, Handling, Ready
<1>2. PICK n : n = parser.current - 1
  OBVIOUS
<1>3. n \in DOMAIN stored /\ ~Same(n) /\ n \in First..(Tip - 1) /\ Tip \in Nat
  <2>1. parser.current \in Nat /\ parser.current > 1
    BY ChainKnown, ParserBounds
  <2> QED
    BY <1>1, <1>2, <2>1, ChainKnown DEF checkFork, ParentSalt, Same
<1>4. parser' = [current |-> n, left |-> 0] /\ Tip' = Tip
  BY <1>1, <1>2 DEF Turn, Tip
<1>5. parser' \in [current : First..Tip, left : 0..ConcurrencyNum] /\ parser'.left = 0
  BY <1>3, <1>4, ParserBounds
<1> QED
  BY <1>1, <1>2, <1>3, <1>4, <1>5 DEF ParserTyped

LEMMA BrokenTyped ==
    ASSUME ParserTyped, Broken
    PROVE  ParserTyped' /\ UNCHANGED <<main, salt, stored>>
<1>1. /\ UNCHANGED <<main, salt, stored>>
      /\ faults < MaxFaults /\ faults' = faults + 1
      /\ parser' \in {Turn(parser.current), Turn(initCurrentBlockNumber)}
  BY DEF Broken, Trouble
<1>2. PICK n \in {parser.current, initCurrentBlockNumber} : parser' = Turn(n)
  BY <1>1
<1>3. n \in First..Tip /\ salt \in Nat /\ faults \in Nat /\ MaxFaults \in Nat
      /\ ConcurrencyNum \in Nat
  BY <1>2, RestartKnown, ChainKnown, ParserBounds
<1>4. parser' = [current |-> n, left |-> 0] /\ Tip' = Tip
  BY <1>1, <1>2 DEF Turn, Tip
<1>5. parser' \in [current : First..Tip, left : 0..ConcurrencyNum] /\ parser'.left = 0
  BY <1>3, <1>4
<1>6. faults' \in 0..MaxFaults /\ salt \in 0..faults'
  BY <1>1, <1>3 DEF ParserTyped
<1> QED
  BY <1>1, <1>4, <1>5, <1>6 DEF ParserTyped

\* Where blocks are: the chain of a fork, by the depth and the side it moves to.
Moved(d, by) ==
    [n \in 1..(Tip + 1) |->
        IF n <= Tip - d THEN main[n]
        ELSE [salt |-> salt + 1,
              tx |-> IF n - by \in (Tip - d + 1)..Tip THEN main[n - by].tx ELSE 0]]

LEMMA ForkIs ==
    ASSUME ParserTyped, Fork
    PROVE  \E d \in 1..MaxDepth, by \in {-1, 0, 1} :
             /\ d < Tip /\ Trouble
             /\ by = -1 => main[Tip - d + 1].tx = 0
             /\ salt' = salt + 1 /\ NewChain(Moved(d, by))
             /\ UNCHANGED <<parser, stored>>
BY DEF Fork, Moved

LEMMA MovedKnown ==
    ASSUME ParserTyped, NEW d \in 1..MaxDepth, NEW by \in {-1, 0, 1}, d < Tip
    PROVE  /\ Moved(d, by) \in Seq(Block) /\ Len(Moved(d, by)) = Tip + 1
           /\ \A n \in 1..(Tip + 1) :
                /\ n <= Tip - d => n \in 1..Tip /\ Moved(d, by)[n] = main[n]
                /\ n > Tip - d =>
                     /\ Moved(d, by)[n].salt = salt + 1
                     /\ Moved(d, by)[n].tx =
                          IF n - by \in (Tip - d + 1)..Tip THEN main[n - by].tx ELSE 0
<1> USE ParserBounds, ChainKnown
<1>1. PICK chain : chain = Moved(d, by)
  OBVIOUS
<1>2. /\ DOMAIN chain = 1..(Tip + 1)
      /\ \A n \in 1..(Tip + 1) :
           /\ n <= Tip - d => n \in 1..Tip /\ chain[n] = main[n]
           /\ n > Tip - d =>
                chain[n] = [salt |-> salt + 1,
                            tx |-> IF n - by \in (Tip - d + 1)..Tip THEN main[n - by].tx ELSE 0]
  BY <1>1 DEF Moved
<1>3. \A n \in (Tip - d + 1)..Tip : n \in 1..Tip
  OBVIOUS
<1>4. \A n \in 1..(Tip + 1) : chain[n] \in Block
  <2> SUFFICES ASSUME NEW n \in 1..(Tip + 1) PROVE chain[n] \in Block
    OBVIOUS
  <2>1. CASE n <= Tip - d
    BY <1>2, <2>1
  <2>2. CASE n > Tip - d
    <3>1. PICK tx : tx = IF n - by \in (Tip - d + 1)..Tip THEN main[n - by].tx ELSE 0
      OBVIOUS
    <3>2. tx \in Nat
      BY <1>3, <3>1
    <3>3. chain[n] = [salt |-> salt + 1, tx |-> tx]
      BY <1>2, <2>2, <3>1
    <3> QED
      BY <3>2, <3>3 DEF Block
  <2> QED
    BY <2>1, <2>2
<1>5. chain = [n \in 1..(Tip + 1) |-> chain[n]]
  BY <1>1, <1>2 DEF Moved
<1>6. chain \in Seq(Block) /\ Len(chain) = Tip + 1
  <2>1. Tip + 1 \in Nat
    OBVIOUS
  <2> QED
    BY <1>4, <1>5, <2>1, SequenceIs
<1>7. \A n \in 1..(Tip + 1) : n > Tip - d =>
        /\ chain[n].salt = salt + 1
        /\ chain[n].tx = IF n - by \in (Tip - d + 1)..Tip THEN main[n - by].tx ELSE 0
  <2> SUFFICES ASSUME NEW n \in 1..(Tip + 1), n > Tip - d
               PROVE  /\ chain[n].salt = salt + 1
                      /\ chain[n].tx = IF n - by \in (Tip - d + 1)..Tip
                                       THEN main[n - by].tx ELSE 0
    OBVIOUS
  <2>1. PICK tx : tx = IF n - by \in (Tip - d + 1)..Tip THEN main[n - by].tx ELSE 0
    OBVIOUS
  <2>2. chain[n] = [salt |-> salt + 1, tx |-> tx]
    BY <1>2, <2>1
  <2>3. chain[n].salt = salt + 1 /\ chain[n].tx = tx
    BY <2>2
  <2> QED
    BY <2>1, <2>3
<1> QED
  BY <1>1, <1>2, <1>6, <1>7

LEMMA ForkTyped ==
    ASSUME ParserTyped, Fork
    PROVE  /\ ParserTyped'
           /\ \E d \in 1..MaxDepth, by \in {-1, 0, 1} :
                /\ d < Tip /\ (by = -1 => main[Tip - d + 1].tx = 0)
                /\ UNCHANGED <<parser, stored>> /\ salt' = salt + 1
                /\ main' = Moved(d, by) /\ Tip' = Tip + 1
                /\ \A n \in 1..Tip' : /\ n <= Tip - d => n \in 1..Tip /\ main'[n] = main[n]
                                      /\ n > Tip - d => main'[n].salt = salt + 1
                /\ ForkNoticed => \A n \in DOMAIN stored : ~Same(n)' => ~FarBehind(n, Tip')
<1>1. PICK d \in 1..MaxDepth, by \in {-1, 0, 1} :
        /\ d < Tip /\ Trouble /\ (by = -1 => main[Tip - d + 1].tx = 0)
        /\ salt' = salt + 1 /\ NewChain(Moved(d, by))
        /\ UNCHANGED <<parser, stored>>
  BY ForkIs
<1>2. /\ main' = Moved(d, by) /\ Len(Moved(d, by)) <= MaxBlocks
      /\ ForkNoticed => \A n \in DOMAIN stored :
             stored[n] # Moved(d, by)[n].salt => ~FarBehind(n, Len(Moved(d, by)))
      /\ faults' = faults + 1 /\ faults < MaxFaults
  BY <1>1 DEF NewChain, Trouble, OffMain
<1>3. /\ Tip \in Nat /\ salt \in Nat /\ faults \in Nat /\ MaxFaults \in Nat /\ First \in Nat
      /\ MaxBlocks \in Nat /\ FirstTip \in Nat
      /\ \A n \in 1..Tip : main[n].salt \in 0..salt
  BY ChainKnown, ParserBounds
<1>4. Moved(d, by) \in Seq(Block) /\ Len(Moved(d, by)) = Tip + 1
  BY <1>1, MovedKnown
<1>5. \A n \in 1..(Tip + 1) : n <= Tip - d => n \in 1..Tip /\ Moved(d, by)[n] = main[n]
  BY <1>1, MovedKnown, SMT
<1>6. \A n \in 1..(Tip + 1) : n > Tip - d => Moved(d, by)[n].salt = salt + 1
  BY <1>1, MovedKnown, SMT
<1>7. Tip' = Tip + 1
  <2>1. Tip' = Len(main')
    BY DEF Tip
  <2> QED
    BY <1>2, <1>4, <2>1
<1>8. \A n \in 1..Tip' : main'[n].salt <= salt'
  <2> SUFFICES ASSUME NEW n \in 1..Tip' PROVE main'[n].salt <= salt + 1
    BY <1>1
  <2>1. n \in 1..(Tip + 1) /\ n \in Nat /\ d \in Nat
    BY <1>3, <1>7, ParserBounds
  <2>2. CASE n <= Tip - d
    <3>1. n \in 1..Tip /\ main'[n] = main[n]
      BY <1>2, <1>5, <2>1, <2>2
    <3>2. main[n].salt \in 0..salt
      BY <1>3, <3>1
    <3> QED
      BY <1>3, <3>1, <3>2
  <2>3. CASE n > Tip - d
    <3>1. main'[n].salt = salt + 1
      BY <1>2, <1>6, <2>1, <2>3
    <3> QED
      BY <1>3, <3>1
  <2> QED
    BY <1>3, <2>1, <2>2, <2>3
<1>9. /\ parser \in [current : First..Tip', left : 0..ConcurrencyNum]
      /\ parser.left > 0 => parser.current + parser.left + ConfirmNum + 1 <= Tip'
  <2>1. /\ parser \in [current : First..Tip, left : 0..ConcurrencyNum]
        /\ parser.left > 0 => parser.current + parser.left + ConfirmNum + 1 <= Tip
    BY DEF ParserTyped
  <2>2. parser.current \in Nat /\ parser.left \in Nat /\ ConfirmNum \in Nat
    BY ChainKnown, ParserBounds
  <2> QED
    BY <1>3, <1>7, <2>1, <2>2
<1>10. \A n \in DOMAIN stored : n \in First..(Tip' - 1) /\ stored[n] \in 0..salt'
  BY <1>1, <1>3, <1>7 DEF ParserTyped
<1>11. Tip' \in FirstTip..MaxBlocks /\ salt' \in 0..faults' /\ faults' \in 0..MaxFaults
  BY <1>1, <1>2, <1>3, <1>4, <1>7 DEF ParserTyped
<1>12. ParserTyped'
  BY <1>1, <1>2, <1>4, <1>8, <1>9, <1>10, <1>11 DEF ParserTyped
<1>13. ForkNoticed => \A n \in DOMAIN stored : ~Same(n)' => ~FarBehind(n, Tip')
  BY <1>1, <1>2, <1>4, <1>7 DEF Same
<1> QED
  BY <1>1, <1>2, <1>5, <1>6, <1>7, <1>12, <1>13

\* A new block leaves the others where they are.
LEMMA MineTyped ==
    ASSUME ParserTyped, NEW t \in Nat, Mine(t)
    PROVE  /\ ParserTyped'
           /\ UNCHANGED <<salt, parser, stored, faults>> /\ Tip' = Tip + 1
           /\ \A n \in 1..Tip : main'[n] = main[n]
           /\ main'[Tip + 1].tx = t
           /\ ForkNoticed => \A n \in DOMAIN stored : ~Same(n)' => ~FarBehind(n, Tip')
<1>1. PICK block : block = [salt |-> salt, tx |-> t]
  OBVIOUS
<1>2. /\ Tip \in Nat /\ salt \in Nat /\ First \in Nat /\ ConfirmNum \in Nat
      /\ MaxBlocks \in Nat /\ FirstTip \in Nat /\ main \in Seq(Block)
      /\ \A n \in 1..Tip : main[n].salt \in 0..salt
  BY ChainKnown, ParserBounds DEF ParserTyped
<1>3. block \in Block /\ block.salt = salt /\ block.tx = t
  BY <1>1, <1>2 DEF Block
<1>4. /\ main' = Append(main, block) /\ Len(Append(main, block)) <= MaxBlocks
      /\ ForkNoticed => \A n \in DOMAIN stored :
            stored[n] # Append(main, block)[n].salt => ~FarBehind(n, Len(Append(main, block)))
      /\ UNCHANGED <<salt, parser, stored, faults>>
  BY <1>1 DEF Mine, NewChain, OffMain
<1>5. /\ main' \in Seq(Block) /\ Tip' = Tip + 1 /\ Tip + 1 <= MaxBlocks
      /\ \A n \in 1..Tip : main'[n] = main[n]
      /\ main'[Tip + 1] = block
  BY <1>2, <1>3, <1>4 DEF Tip
<1>6. \A n \in 1..(Tip + 1) : main'[n].salt <= salt
  BY <1>2, <1>3, <1>5
<1>7. /\ parser \in [current : First..(Tip + 1), left : 0..ConcurrencyNum]
      /\ parser.left > 0 => parser.current + parser.left + ConfirmNum + 1 <= Tip + 1
  <2>1. /\ parser \in [current : First..Tip, left : 0..ConcurrencyNum]
        /\ parser.left > 0 => parser.current + parser.left + ConfirmNum + 1 <= Tip
    BY DEF ParserTyped
  <2>2. parser.current \in Nat /\ parser.left \in Nat
    BY ChainKnown
  <2> QED
    BY <1>2, <2>1, <2>2
<1>8. \A n \in DOMAIN stored : n \in First..((Tip + 1) - 1) /\ stored[n] \in 0..salt
  BY <1>2 DEF ParserTyped
<1>9. Tip + 1 \in FirstTip..MaxBlocks
  BY <1>2, <1>5 DEF ParserTyped
<1>10. ParserTyped'
  BY <1>4, <1>5, <1>6, <1>7, <1>8, <1>9 DEF ParserTyped
<1>11. ForkNoticed => \A n \in DOMAIN stored : ~Same(n)' => ~FarBehind(n, Tip')
  BY <1>4 DEF Same, Tip
<1> QED
  BY <1>3, <1>4, <1>5, <1>10, <1>11

-----------------------------------------------------------------------------
(* The branch, step by step *)

\* When the handlers of a block run, what was handled below it is on the main
\* chain.
LEMMA HandledBelow ==
    ASSUME ParserInv, ForkNoticed, ParserTurn, Handling
    PROVE  \A n \in DOMAIN stored : n < parser.current => Same(n)
<1>1. /\ parser.current \in Nat /\ parser.left \in Nat /\ Tip \in Nat /\ ConfirmNum \in Nat
      /\ ConcurrencyNum \in Nat /\ DOMAIN stored \subseteq Nat
  BY ChainKnown, ParserBounds DEF ParserInv
<1>2. parser.current - 1 \in DOMAIN stored => Same(parser.current - 1)
  <2>1. CASE parser.left > 0
    BY <2>1 DEF Batch, ParserInv
  <2>2. CASE ConcurrencyMode
    <3>1. parser.current < Tip - ConfirmNum - ConcurrencyNum
      BY <2>2 DEF ConcurrencyMode, FarBehind
    <3>2. PICK n : n = parser.current - 1
      OBVIOUS
    <3>3. n \in DOMAIN stored => n < Tip - ConfirmNum - ConcurrencyNum
      BY <1>1, <3>1, <3>2
    <3> QED
      BY <3>2, <3>3 DEF Noticed, FarBehind, ParserInv
  <2>3. CASE Ready /\ ~checkFork(parser.current)
    <3>1. parser.current > 1
      BY ChainKnown, ParserBounds DEF ParserInv
    <3> QED
      BY <1>1, <2>3, <3>1 DEF checkFork, ParentSalt, Same
  <2> QED
    BY <2>1, <2>2, <2>3 DEF Handling
<1>3. SUFFICES ASSUME NEW n \in DOMAIN stored, n < parser.current PROVE Same(n)
  OBVIOUS
<1>4. stored # <<>>
  BY DEF ParserInv, ParserTyped
<1>5. parser.current - 1 \in DOMAIN stored
  <2>1. CASE parser.current \in DOMAIN stored
    <3>1. parser.current - 1 \in n..parser.current
      BY <1>1, <1>3
    <3> QED
      BY <2>1, <3>1 DEF Window, ParserInv
  <2> QED
    BY <1>4, <2>1 DEF Window, ParserInv
<1>6. n = parser.current - 1 \/ n < parser.current - 1
  BY <1>1, <1>3
<1> QED
  BY <1>2, <1>5, <1>6 DEF Branch, ParserInv

\* A block that is handled and stored.
LEMMA BlockStored ==
    ASSUME ParserInv, Settled, ParserTurn, Handling
    PROVE  ParserInv' /\ Done' \subseteq Done \cup {parser.current}
<1> DEFINE n == parser.current
           D == DOMAIN stored'
<1>1. \A k \in DOMAIN stored : k < n => Same(k)
  BY HandledBelow DEF Settled
<1>2. n + ConfirmNum + 1 <= Tip
  BY HandledIs DEF ParserInv
<1>3. PICK left \in 0..ConcurrencyNum : parsingBlockData(left)
  BY HandledIs DEF ParserInv
<1>4. /\ UNCHANGED <<main, salt, faults>> /\ Tip' = Tip
      /\ parser' = [current |-> n + 1, left |-> left]
      /\ n \in D /\ D \subseteq DOMAIN stored \cup {n}
      /\ \A k \in DOMAIN stored \cup {n} : k \notin D => k <= n - Kept
      /\ \A m \in D, k \in DOMAIN stored \cup {n} : m <= k => k \in D
      /\ stored'[n] = main[n].salt
      /\ \A k \in D : k # n => stored'[k] = stored[k]
  BY <1>3, StoredIs DEF ParserInv
<1>5. /\ parser'.current = n + 1 /\ n \in Nat /\ First \in Nat /\ n >= First /\ Tip \in Nat
      /\ ConfirmNum \in Nat /\ MaxDepth \in Nat /\ Kept \in Nat
      /\ DOMAIN stored \subseteq Nat /\ D \subseteq Nat
  BY <1>4, ChainKnown, ParserBounds DEF ParserInv
<1>6. \A k \in D : Same(k)' <=> (k = n \/ Same(k))
  BY <1>4 DEF Same
<1>7. Window'
  <2>1. ASSUME NEW a \in D, NEW b \in D, NEW m \in a..b PROVE m \in D
    <3>1. a \in Nat /\ b \in Nat /\ m \in Nat /\ a <= m /\ m <= b
      BY <1>5
    <3>2. stored # <<>> => n \in DOMAIN stored \/ n - 1 \in DOMAIN stored
      BY DEF Window, ParserInv
    <3>3. m \in DOMAIN stored \cup {n}
      <4>1. CASE a \in DOMAIN stored /\ b \in DOMAIN stored
        BY <4>1 DEF Window, ParserInv
      <4>2. CASE m # n /\ a = n /\ b \in DOMAIN stored
        <5>1. stored # <<>>
          BY <4>2
        <5>2. m \in n..b /\ m \in (n - 1)..b
          BY <1>5, <3>1, <4>2
        <5> QED
          BY <3>2, <4>2, <5>1, <5>2 DEF Window, ParserInv
      <4>3. CASE m # n /\ b = n /\ a \in DOMAIN stored
        <5>1. stored # <<>>
          BY <4>3
        <5>2. m \in a..n /\ m \in a..(n - 1)
          BY <1>5, <3>1, <4>3
        <5> QED
          BY <3>2, <4>3, <5>1, <5>2 DEF Window, ParserInv
      <4>4. CASE a = n /\ b = n
        BY <3>1, <4>4
      <4> QED
        BY <1>4, <4>1, <4>2, <4>3, <4>4
    <3> QED
      BY <1>4, <3>1, <3>3
  <2>2. parser'.current - 1 = n
    BY <1>5
  <2>3. stored' # <<>>
    BY <1>4
  <2> QED
    BY <1>4, <2>1, <2>2, <2>3 DEF Window
<1>8. Branch'
  <2>1. ASSUME NEW k \in D, k >= n + 1 PROVE ~Same(k)'
    <3>1. k \in DOMAIN stored /\ k # n /\ k >= n
      BY <1>4, <1>5, <2>1
    <3>2. ~Same(k)
      BY <3>1 DEF Branch, ParserInv
    <3> QED
      BY <1>6, <3>1, <3>2
  <2>2. ASSUME NEW a \in D, NEW b \in D, a < b, Same(b)' PROVE Same(a)'
    <3>1. a \in Nat /\ b \in Nat /\ b <= n
      BY <1>5, <2>1, <2>2
    <3>2. a \in DOMAIN stored /\ a < n
      BY <1>4, <1>5, <2>2, <3>1
    <3> QED
      BY <1>1, <1>6, <2>2, <3>2
  <2> QED
    BY <1>5, <2>1, <2>2 DEF Branch
<1>9. Old'
  <2>1. ASSUME NEW k \in First..n, k \notin D PROVE k + MaxDepth <= Tip
    <3>1. k \in First..(n - 1) /\ k \in Nat
      BY <1>4, <1>5, <2>1
    <3>2. CASE k \notin DOMAIN stored
      BY <3>1, <3>2 DEF Old, ParserInv
    <3>3. CASE k \in DOMAIN stored
      <4>1. k <= n - Kept /\ MaxDepth <= ConfirmNum + Kept + 1
        BY <1>4, <2>1, <3>3 DEF Settled
      <4> QED
        BY <1>2, <1>5, <3>1, <4>1
    <3> QED
      BY <3>2, <3>3
  <2>2. parser'.current - 1 = n
    BY <1>5
  <2> QED
    BY <1>4, <2>1, <2>2 DEF Old
<1>10. Batch'
  <2>1. parser'.current - 1 = n
    BY <1>5
  <2> QED
    BY <1>4, <1>6, <2>1 DEF Batch
<1>11. Noticed'
  <2>1. \A k \in D : ~Same(k)' => k \in DOMAIN stored /\ ~Same(k)
    BY <1>4, <1>6
  <2> QED
    BY <1>4, <2>1 DEF Noticed, FarBehind, ParserInv
<1>12. Done' \subseteq Done \cup {n}
  <2>1. ASSUME NEW k \in First..n, k # n, k \notin Done PROVE k \in D /\ ~Same(k)'
    <3>1. k \in First..(n - 1) /\ k < n
      BY <1>5, <2>1
    <3>2. k \in DOMAIN stored /\ ~Same(k)
      BY <2>1, <3>1 DEF Done
    <3> QED
      BY <1>1, <3>1, <3>2
  <2>2. parser'.current - 1 = n
    BY <1>5
  <2> QED
    BY <1>4, <2>1, <2>2 DEF Done
<1> QED
  BY <1>7, <1>8, <1>9, <1>10, <1>11, <1>12, HandledTyped DEF ParserInv

\* A step back, while the block below is not the one stored.
LEMMA SteppedBack ==
    ASSUME ParserInv, ParserTurn, ~Handling
    PROVE  ParserInv' /\ Done' \subseteq Done
<1>1. PICK n : n = parser.current - 1
  OBVIOUS
<1>2. /\ n \in DOMAIN stored /\ ~Same(n) /\ parser' = Turn(n)
      /\ UNCHANGED <<main, salt, stored, faults>> /\ ParserTyped'
  BY <1>1, SteppedTyped DEF ParserInv
<1>3. /\ parser'.current = n /\ parser'.left = 0 /\ Tip' = Tip
      /\ n \in Nat /\ parser.current \in Nat /\ parser.current = n + 1 /\ First \in Nat
      /\ DOMAIN stored \subseteq Nat
  BY <1>1, <1>2, ChainKnown, ParserBounds DEF Turn, Tip, ParserInv
<1>4. \A k \in DOMAIN stored : Same(k)' <=> Same(k)
  BY <1>2 DEF Same
<1>5. First..(n - 1) \subseteq First..(parser.current - 1)
  BY <1>3
<1>6. Window'
  <2>1. stored # <<>>
    BY <1>2
  <2> QED
    BY <1>2, <1>3, <2>1 DEF Window, ParserInv
<1>7. Branch'
  <2>1. ASSUME NEW k \in DOMAIN stored, k >= n PROVE ~Same(k)
    <3>1. k = n \/ k >= parser.current
      BY <1>3, <2>1
    <3> QED
      BY <1>2, <3>1 DEF Branch, ParserInv
  <2>2. \A a, b \in DOMAIN stored : a < b /\ Same(b)' => Same(a)'
    BY <1>4 DEF Branch, ParserInv
  <2> QED
    BY <1>2, <1>3, <1>4, <2>1, <2>2 DEF Branch
<1>8. Old'
  BY <1>2, <1>3, <1>5 DEF Old, ParserInv
<1>9. Batch' /\ Noticed'
  BY <1>2, <1>3, <1>4 DEF Batch, Noticed, FarBehind, ParserInv
<1>10. Done' \subseteq Done
  BY <1>2, <1>3, <1>4, <1>5 DEF Done
<1> QED
  BY <1>2, <1>6, <1>7, <1>8, <1>9, <1>10 DEF ParserInv

\* A failed handler, or a restart.
LEMMA BrokenKept ==
    ASSUME ParserInv, Broken
    PROVE  ParserInv' /\ Done' \subseteq Done
<1>1. ParserTyped' /\ UNCHANGED <<main, salt, stored>>
  BY BrokenTyped DEF ParserInv
<1>2. PICK n : parser' = Turn(n) /\ (n = parser.current \/ n = initCurrentBlockNumber)
  BY DEF Broken
<1>3. /\ parser'.current = n /\ parser'.left = 0 /\ Tip' = Tip
      /\ n \in Nat /\ parser.current \in Nat /\ First \in Nat /\ DOMAIN stored \subseteq Nat
      /\ Tip \in Nat
  BY <1>1, <1>2, RestartKnown, ChainKnown, ParserBounds DEF Turn, Tip, ParserInv
<1>4. \A k \in DOMAIN stored : Same(k)' <=> Same(k)
  BY <1>1 DEF Same
<1>5. ASSUME NEW k \in First..(n - 1), k \notin DOMAIN stored
      PROVE  k \in First..(parser.current - 1)
  <2>1. CASE n = parser.current
    BY <2>1
  <2>2. CASE n = initCurrentBlockNumber /\ stored = <<>>
    BY <1>3, <2>2, RestartKnown DEF Window, ParserInv
  <2>3. CASE n = initCurrentBlockNumber /\ stored # <<>>
    <3>1. n - 1 \in DOMAIN stored
      BY <2>3, RestartKnown DEF ParserInv
    <3>2. PICK m \in {parser.current - 1, parser.current} : m \in DOMAIN stored
      BY <2>3 DEF Window, ParserInv
    <3>3. k \in m..(n - 1) => k \in DOMAIN stored
      BY <3>1, <3>2 DEF Window, ParserInv
    <3>4. k \in Nat /\ m \in Nat /\ k <= n - 1 /\ k >= First
      BY <1>3, <3>2
    <3>5. k < m /\ m <= parser.current
      BY <1>3, <1>5, <3>2, <3>3, <3>4
    <3> QED
      BY <1>3, <3>4, <3>5
  <2> QED
    BY <1>2, <2>1, <2>2, <2>3
<1>6. Window'
  BY <1>1, <1>2, <1>3, RestartKnown DEF Window, ParserInv
<1>7. Branch'
  <2>1. ASSUME NEW k \in DOMAIN stored, k >= n PROVE ~Same(k)
    <3>1. stored # <<>> /\ k \in Nat
      BY <1>3
    <3>2. n = initCurrentBlockNumber => k <= n - 1
      BY <3>1, RestartKnown DEF ParserInv
    <3>3. n = parser.current
      BY <1>2, <1>3, <2>1, <3>1, <3>2
    <3> QED
      BY <2>1, <3>3 DEF Branch, ParserInv
  <2>2. \A a, b \in DOMAIN stored : a < b /\ Same(b)' => Same(a)'
    BY <1>4 DEF Branch, ParserInv
  <2> QED
    BY <1>1, <1>3, <1>4, <2>1, <2>2 DEF Branch
<1>8. Old'
  BY <1>1, <1>3, <1>5 DEF Old, ParserInv
<1>9. Batch' /\ Noticed'
  BY <1>1, <1>3, <1>4 DEF Batch, Noticed, FarBehind, ParserInv
<1>10. Done' \subseteq Done
  <2> SUFFICES ASSUME NEW k \in Done' PROVE k \in Done
    OBVIOUS
  <2>1. k \in First..(n - 1) /\ (k \in DOMAIN stored => Same(k))
    BY <1>1, <1>3, <1>4 DEF Done
  <2>2. k \in First..(parser.current - 1)
    <3>1. CASE k \notin DOMAIN stored
      BY <1>5, <2>1, <3>1
    <3>2. CASE k \in DOMAIN stored
      <4>1. ~ (k >= parser.current)
        BY <2>1, <3>2 DEF Branch, ParserInv
      <4> QED
        BY <1>3, <2>1, <4>1
    <3> QED
      BY <3>1, <3>2
  <2> QED
    BY <2>1, <2>2 DEF Done
<1> QED
  BY <1>1, <1>6, <1>7, <1>8, <1>9, <1>10 DEF ParserInv

\* The blocks handled that are still on the main chain are there as they were.
LEMMA ForkKept ==
    ASSUME ParserInv, Settled, Fork
    PROVE  /\ ParserInv' /\ Done' \subseteq Done
           /\ \A n \in Done' : n \in 1..Tip /\ main'[n] = main[n]
<1>1. PICK d \in 1..MaxDepth, by \in {-1, 0, 1} :
        /\ d < Tip /\ UNCHANGED <<parser, stored>> /\ salt' = salt + 1 /\ Tip' = Tip + 1
        /\ \A n \in 1..Tip' : /\ n <= Tip - d => n \in 1..Tip /\ main'[n] = main[n]
                              /\ n > Tip - d => main'[n].salt = salt + 1
        /\ \A n \in DOMAIN stored : ~Same(n)' => ~FarBehind(n, Tip')
  BY ForkTyped DEF ParserInv, Settled
<1>2. ParserTyped'
  BY ForkTyped DEF ParserInv
<1>3. /\ Tip \in Nat /\ First \in Nat /\ salt \in Nat /\ MaxDepth \in Nat /\ ConfirmNum \in Nat
      /\ parser.current \in Nat /\ parser.left \in Nat
      /\ DOMAIN stored \subseteq 1..Tip /\ parser.current <= Tip /\ First >= 1
      /\ \A n \in DOMAIN stored : stored[n] \in 0..salt
  BY ChainKnown, ParserBounds DEF ParserInv, ParserTyped
<1>4. \A n \in DOMAIN stored : Same(n)' <=> (n <= Tip - d /\ Same(n))
  <2> SUFFICES ASSUME NEW n \in DOMAIN stored PROVE Same(n)' <=> (n <= Tip - d /\ Same(n))
    OBVIOUS
  <2>1. n \in 1..Tip' /\ stored[n] \in 0..salt /\ stored' = stored
    BY <1>1, <1>3
  <2>2. CASE n <= Tip - d
    BY <1>1, <2>1, <2>2 DEF Same
  <2>3. CASE n > Tip - d
    BY <1>1, <1>3, <2>1, <2>3 DEF Same
  <2> QED
    BY <1>3, <2>1, <2>2, <2>3
<1>5. Window'
  BY <1>1 DEF Window, ParserInv
<1>6. Branch'
  <2>1. \A n \in DOMAIN stored : n >= parser.current => ~Same(n)'
    BY <1>4 DEF Branch, ParserInv
  <2>2. ASSUME NEW n \in DOMAIN stored, NEW k \in DOMAIN stored, n < k, Same(k)' PROVE Same(n)'
    <3>1. k <= Tip - d /\ Same(k) /\ n \in Nat /\ k \in Nat
      BY <1>3, <1>4, <2>2
    <3>2. n <= Tip - d /\ Same(n)
      BY <1>3, <2>2, <3>1 DEF Branch, ParserInv
    <3> QED
      BY <1>4, <3>2
  <2> QED
    BY <1>1, <2>1, <2>2 DEF Branch
<1>7. \A n \in First..(parser.current - 1) : n \notin DOMAIN stored => n + MaxDepth <= Tip
  BY DEF Old, ParserInv
<1>8. Old'
  <2> SUFFICES ASSUME NEW n \in First..(parser.current - 1), n \notin DOMAIN stored
               PROVE  n + MaxDepth <= Tip + 1
    BY <1>1 DEF Old
  <2>1. n \in Nat /\ n + MaxDepth <= Tip
    BY <1>3, <1>7
  <2> QED
    BY <1>3, <2>1
<1>9. Batch'
  <2> SUFFICES ASSUME parser.left > 0
               PROVE  parser.current - 1 \in DOMAIN stored /\ Same(parser.current - 1)'
    BY <1>1 DEF Batch
  <2>1. PICK n : n = parser.current - 1
    OBVIOUS
  <2>2. n \in DOMAIN stored /\ Same(n) /\ parser.current + parser.left + ConfirmNum + 1 <= Tip
    BY <2>1 DEF Batch, ParserInv, ParserTyped
  <2>3. n <= Tip - d
    <3>1. d \in Nat /\ d <= MaxDepth /\ MaxDepth <= ConfirmNum + 3
      BY <1>3 DEF Settled
    <3> QED
      BY <1>3, <2>1, <2>2, <3>1
  <2>4. Same(n)' /\ parser' = parser
    BY <1>1, <1>4, <2>2, <2>3
  <2> QED
    BY <2>1, <2>2, <2>4
<1>10. Noticed'
  BY <1>1 DEF Noticed
<1>11. ASSUME NEW n \in Done' PROVE n \in Done /\ n <= Tip - d /\ n \in 1..Tip
  <2>1. n \in First..(parser.current - 1) /\ (n \in DOMAIN stored => Same(n)')
    BY <1>1, <1>11 DEF Done
  <2>2. n \in 1..Tip
    BY <1>3, <2>1
  <2>3. n \in DOMAIN stored => n <= Tip - d /\ Same(n)
    BY <1>4, <2>1
  <2>4. n \notin DOMAIN stored => n <= Tip - d
    BY <1>3, <1>7, <2>1
  <2> QED
    BY <2>1, <2>2, <2>3, <2>4 DEF Done
<1>12. \A n \in Done' : n \in 1..Tip /\ main'[n] = main[n]
  <2>1. \A n \in 1..Tip : n <= Tip - d => main'[n] = main[n]
    BY <1>1, <1>3
  <2> QED
    BY <1>11, <2>1
<1> QED
  BY <1>2, <1>5, <1>6, <1>8, <1>9, <1>10, <1>11, <1>12 DEF ParserInv

LEMMA MineKept ==
    ASSUME ParserInv, ForkNoticed, NEW t \in Nat, Mine(t)
    PROVE  ParserInv' /\ Done' = Done
<1>1. /\ ParserTyped'
      /\ UNCHANGED <<salt, parser, stored, faults>> /\ Tip' = Tip + 1
      /\ \A n \in 1..Tip : main'[n] = main[n]
      /\ \A n \in DOMAIN stored : ~Same(n)' => ~FarBehind(n, Tip')
  BY MineTyped DEF ParserInv
<1>2. DOMAIN stored \subseteq 1..Tip /\ Tip \in Nat /\ First \in Nat /\ MaxDepth \in Nat
  BY ChainKnown, ParserBounds DEF ParserInv
<1>3. \A n \in DOMAIN stored : Same(n)' <=> Same(n)
  BY <1>1, <1>2 DEF Same
<1>4. Window' /\ Done' = Done
  BY <1>1, <1>3 DEF Window, Done, ParserInv
<1>5. Old'
  <2> SUFFICES ASSUME NEW n \in First..(parser.current - 1), n \notin DOMAIN stored
               PROVE  n + MaxDepth <= Tip + 1
    BY <1>1 DEF Old
  <2>1. n + MaxDepth <= Tip /\ n \in Nat
    BY <1>2, ChainKnown DEF Old, ParserInv
  <2> QED
    BY <1>2, <2>1
<1>6. Branch'
  BY <1>1, <1>3 DEF Branch, ParserInv
<1>7. Batch'
  <2> SUFFICES ASSUME parser.left > 0
               PROVE  parser.current - 1 \in DOMAIN stored /\ Same(parser.current - 1)'
    BY <1>1 DEF Batch
  <2>1. PICK n : n = parser.current - 1
    OBVIOUS
  <2>2. n \in DOMAIN stored /\ Same(n)' /\ parser' = parser
    BY <1>1, <1>3, <2>1 DEF Batch, ParserInv
  <2> QED
    BY <2>1, <2>2
<1>8. Noticed'
  BY <1>1 DEF Noticed
<1> QED
  BY <1>1, <1>4, <1>5, <1>6, <1>7, <1>8 DEF ParserInv

LEMMA ParserStarts ==
    ASSUME NEW t \in Nat, ParserInit(t)
    PROVE  ParserInv /\ Done = {} /\ Tip = FirstTip
           /\ \A n \in 1..FirstTip : main[n].tx = IF n = Start THEN t ELSE 0
<1>1. main = [n \in 1..FirstTip |-> [salt |-> 0, tx |-> IF n = Start THEN t ELSE 0]]
  BY DEF ParserInit
<1>2. salt = 0 /\ faults = 0
  BY DEF ParserInit
<1>3. parser = [current |-> First, left |-> 0]
  BY DEF ParserInit, Turn
<1>4. stored = <<>> /\ DOMAIN stored = {}
  <2>1. stored = <<>>
    BY DEF ParserInit
  <2> QED
    BY <2>1
<1>5. /\ FirstTip \in Nat /\ First \in Nat /\ First <= FirstTip /\ FirstTip <= MaxBlocks
      /\ MaxBlocks \in Nat /\ ConcurrencyNum \in Nat /\ MaxFaults \in Nat
  BY ParserBounds
<1>6. \A n \in 1..FirstTip : /\ main[n] \in Block /\ main[n].salt = 0
                             /\ main[n].tx = IF n = Start THEN t ELSE 0
  <2> SUFFICES ASSUME NEW n \in 1..FirstTip
               PROVE  /\ main[n] \in Block /\ main[n].salt = 0
                      /\ main[n].tx = IF n = Start THEN t ELSE 0
    OBVIOUS
  <2>1. PICK tx : tx = IF n = Start THEN t ELSE 0
    OBVIOUS
  <2>2. main[n] = [salt |-> 0, tx |-> tx] /\ tx \in Nat
    BY <1>1, <2>1
  <2> QED
    BY <2>1, <2>2 DEF Block
<1>7. main \in Seq(Block) /\ Tip = FirstTip
  <2>1. main = [n \in 1..FirstTip |-> main[n]]
    BY <1>1
  <2> QED
    BY <1>5, <1>6, <2>1, SequenceIs DEF Tip
<1>8. ParserTyped
  <2>1. parser \in [current : First..Tip, left : 0..ConcurrencyNum]
    BY <1>3, <1>5, <1>7
  <2>2. \A n \in 1..Tip : main[n].salt <= salt
    BY <1>2, <1>6, <1>7
  <2>3. salt \in 0..faults /\ faults \in 0..MaxFaults
    BY <1>2, <1>5
  <2>4. Tip \in FirstTip..MaxBlocks
    BY <1>5, <1>7
  <2> QED
    BY <1>3, <1>4, <1>7, <2>1, <2>2, <2>3, <2>4 DEF ParserTyped
<1>9. Window /\ Branch /\ Noticed
  BY <1>3, <1>4 DEF Window, Branch, Noticed
<1>10. Batch
  BY <1>3 DEF Batch
<1>11. First..(parser.current - 1) = {}
  BY <1>3, <1>5
<1>12. Old /\ Done = {}
  BY <1>11 DEF Old, Done
<1> QED
  BY <1>6, <1>7, <1>8, <1>9, <1>10, <1>12 DEF ParserInv

\* Where the parser stands on the main chain, all it handled is on it.
LEMMA OnMainIsDone ==
    ASSUME ParserInv, OnMain
    PROVE  Done = First..(parser.current - 1)
<1>1. parser.current - 1 \in DOMAIN stored /\ Same(parser.current - 1)
  BY DEF OnMain, Same
<1>2. parser.current \in Nat /\ First \in Nat
  BY ChainKnown, ParserBounds DEF ParserInv
<1>3. ASSUME NEW n \in First..(parser.current - 1), n \in DOMAIN stored PROVE Same(n)
  <2>1. n = parser.current - 1 \/ n < parser.current - 1
    BY <1>2
  <2> QED
    BY <1>1, <1>3, <2>1 DEF Branch, ParserInv
<1> QED
  BY <1>3 DEF Done

LEMMA ParserWaits ==
    ASSUME UNCHANGED parserVars
    PROVE  (ParserTyped => ParserTyped') /\ (ParserInv => ParserInv') /\ Done' = Done
BY DEF parserVars, ParserInv, ParserTyped, Window, Branch, Old, Batch, Noticed, Same, Done,
       FarBehind, Tip

\* What the run checks of the parser.
LEMMA ParserTypes ==
    ASSUME ParserTyped
    PROVE  ParserTypeOK
<1>1. /\ \A n \in 1..Tip : main[n].salt \in 0..salt /\ main[n].tx \in Nat
      /\ parser.current \in First..Tip /\ parser.left \in 0..ConcurrencyNum
      /\ Tip \in Nat /\ First \in Nat
  BY ChainKnown, ParserBounds
<1>2. \A n \in DOMAIN stored : n \in First..Tip /\ stored[n] \in 0..salt
  BY <1>1 DEF ParserTyped
<1> QED
  BY <1>1, <1>2 DEF ParserTyped, ParserTypeOK

=============================================================================
