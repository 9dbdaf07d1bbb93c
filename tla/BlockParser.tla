----------------------------- MODULE BlockParser -----------------------------
(***************************************************************************)
(* The block parser (block_parser/block_parser.go, dao/t_block_parser_     *)
(* info.go) beside a node whose main chain may be reorganised.             *)
(*                                                                         *)
(* The parser remembers the hashes of the last blocks it handled in        *)
(* t_block_parser_info.  Near the tip it handles one block at a time and   *)
(* steps back while the parent of the next block is not the one it stored  *)
(* (parserSubMode); when it is far behind it handles a batch of blocks     *)
(* without that check (parserConcurrencyMode).  What is done with the      *)
(* transaction of a block is left to the module that extends this one: it  *)
(* conjoins its handler to the step that takes up a block.                 *)
(*                                                                         *)
(* Blocks that are not on the branch of a fork keep their salt, so that    *)
(* <<number, salt>> stands for a block hash.  A block holds at most one    *)
(* transaction of the parent account followed.                             *)
(***************************************************************************)
EXTENDS Integers, Sequences

CONSTANTS
    Start,           \* CurrentBlockNumber of the configuration
    ConfirmNum,      \* blocks left to settle before one is handled
    ConcurrencyNum,  \* blocks of a batch
    Kept,            \* stored blocks kept (20 in the code)
    MaxDepth,        \* deepest fork of the node
    ForkNoticed,     \* TRUE: a stored block that has left the main chain is not so
                     \* far behind that the parser would take it up in a batch
    \* bounds of the model
    MaxBlocks, MaxFaults

\* The subtractions of the code are unsigned; on a chain as old as these
\* assumptions say none of them wraps.
FirstTip == ConfirmNum + ConcurrencyNum
ASSUME ParserAssumption ==
    /\ {Start, Kept} \subseteq Nat \ {0}
    /\ {ConfirmNum, ConcurrencyNum, MaxDepth, MaxBlocks, MaxFaults} \subseteq Nat
    /\ ForkNoticed \in BOOLEAN
    /\ Start + 2 >= Kept
    /\ Start < FirstTip /\ FirstTip <= MaxBlocks

VARIABLES
    main,     \* the node's main chain: [salt, tx]; tx = 0 when it is of no concern
    salt,     \* forks so far
    parser,   \* the goroutine of Run: CurrentBlockNumber, and what is left of a batch
    stored,   \* t_block_parser_info: salts of the hashes by number
    faults    \* forks, crashes and failed handlers so far

parserVars == <<main, salt, parser, stored, faults>>

Tip == Len(main)
First == Start + 1
\* The parent hash of block number n of the chain, by its salt.
ParentSalt(n) == IF n = 1 THEN 0 ELSE main[n - 1].salt

\* The stored blocks that are not on a chain.
OffMain(chain) == {n \in DOMAIN stored : stored[n] # chain[n].salt}
FarBehind(n, tip) == n < tip - ConfirmNum - ConcurrencyNum
NewChain(chain) ==
    /\ Len(chain) <= MaxBlocks
    /\ ForkNoticed => \A n \in OffMain(chain) : ~FarBehind(n, Len(chain))
    /\ main' = chain

\* What goes wrong is counted.
Trouble == faults < MaxFaults /\ faults' = faults + 1

\* The node appends a block with transaction t, or with none.
Mine(t) ==
    /\ NewChain(Append(main, [salt |-> salt, tx |-> t]))
    /\ UNCHANGED <<salt, parser, stored, faults>>

\* The last d blocks are replaced by d + 1 others.  The transactions are mined
\* again, in the same order, in the blocks they were in or one to a side.
Fork ==
    \E d \in 1..MaxDepth, by \in {-1, 0, 1} :
        LET fork == Tip - d
            At(n) == IF n - by \in (fork + 1)..Tip THEN main[n - by].tx ELSE 0
        IN  /\ d < Tip /\ Trouble
            /\ by = -1 => main[fork + 1].tx = 0
            /\ salt' = salt + 1
            /\ NewChain([n \in 1..(Tip + 1) |->
                            IF n <= fork THEN main[n] ELSE [salt |-> salt + 1, tx |-> At(n)]])
            /\ UNCHANGED <<parser, stored>>

-----------------------------------------------------------------------------
Turn(current) == [current |-> current, left |-> 0]

checkFork_mut(n) == FALSE
checkFork(n) == n - 1 \in DOMAIN stored /\ stored[n - 1] # ParentSalt(n)

\* The tip decides the mode; within ConfirmNum blocks of it the parser sleeps.
ConcurrencyMode == ConcurrencyNum > 1 /\ FarBehind(parser.current, Tip)
Ready == ~ConcurrencyMode /\ parser.current < Tip - ConfirmNum

\* CreateBlockInfo overwrites the row of the number.
CreateBlockInfo_mut(rows, n) ==
    [k \in DOMAIN rows \cup {n} |-> IF k \in DOMAIN rows THEN rows[k] ELSE main[n].salt]
CreateBlockInfo(rows, n) ==
    [k \in DOMAIN rows \cup {n} |-> IF k = n THEN main[n].salt ELSE rows[k]]

\* DeleteBlockInfo keeps the last blocks.
DeleteBlockInfo(rows, number) == [n \in {k \in DOMAIN rows : k >= number} |-> rows[n]]

\* GetBlockByNumber, parsingBlockData and CreateBlockInfo: the block is fetched,
\* its handlers run and it is stored; old rows go after a block on its own and
\* after a batch.  One step: a fork that comes in between cannot be told from one
\* after the block is stored, as nothing here looks at the chain again.
parsingBlockData(left) ==
    LET n    == parser.current
        rows == CreateBlockInfo(stored, n)
    IN  /\ stored' = IF left = 0 THEN DeleteBlockInfo(rows, n + 1 - Kept) ELSE rows
        /\ parser' = [current |-> n + 1, left |-> left]
        /\ UNCHANGED <<main, salt, faults>>

\* One turn of the loop of Run, near the tip: a block, or a step back.
parserSubMode ==
    /\ parser.left = 0
    /\ Ready
    /\ IF checkFork(parser.current)
       THEN parser' = Turn(parser.current - 1) /\ UNCHANGED <<main, salt, stored, faults>>
       ELSE parsingBlockData(0)

\* Far behind: the first block of a batch, or the next one of it.
parserConcurrencyMode ==
    \/ parser.left = 0 /\ ConcurrencyMode /\ parsingBlockData(ConcurrencyNum - 1)
    \/ parser.left > 0 /\ parsingBlockData(parser.left - 1)

ParserTurn == parserSubMode \/ parserConcurrencyMode

\* The turn reaches the handlers of the block.
Handling ==
    \/ parser.left > 0
    \/ ConcurrencyMode
    \/ Ready /\ ~checkFork(parser.current)

\* At start-up CurrentBlockNumber is the highest block stored, or the one
\* configured; it is then incremented.
initCurrentBlockNumber_mut ==
    IF stored = <<>> THEN Start ELSE CHOOSE n \in DOMAIN stored : \A k \in DOMAIN stored : k <= n
initCurrentBlockNumber ==
    1 + IF stored = <<>> THEN Start ELSE CHOOSE n \in DOMAIN stored : \A k \in DOMAIN stored : k <= n

\* A handler, the version check or the node fails: the next turn takes the same
\* block again.  Or the process stops, and starts again.
Broken ==
    /\ Trouble
    /\ parser' \in {Turn(parser.current), Turn(initCurrentBlockNumber)}
    /\ UNCHANGED <<main, salt, stored>>

\* After the handlers of a block, before it is stored.
BrokenOff == Handling /\ Broken

\* The parser starts at the block after the one configured, which holds
\* transaction t or none.
ParserInit(t) ==
    /\ main = [n \in 1..FirstTip |-> [salt |-> 0, tx |-> IF n = Start THEN t ELSE 0]]
    /\ salt = 0
    /\ parser = Turn(First)
    /\ stored = <<>>
    /\ faults = 0

-----------------------------------------------------------------------------
ParserTypeOK ==
    /\ Tip \in FirstTip..MaxBlocks
    /\ \A n \in 1..Tip : main[n].salt \in 0..salt /\ main[n].tx \in Nat
    /\ salt \in 0..faults
    /\ parser.current \in First..Tip
    /\ parser.left \in 0..ConcurrencyNum
    /\ \A n \in DOMAIN stored : n \in First..Tip /\ stored[n] \in 0..salt
    /\ faults \in 0..MaxFaults

\* The parser stands behind a block of the main chain that it handled.
OnMain ==
    /\ parser.current - 1 \in DOMAIN stored
    /\ stored[parser.current - 1] = main[parser.current - 1].salt

\* [no stuck parser] Once forks and faults end, the parser ends up where only
\* the blocks left to settle are ahead of it, on the main chain.
CaughtUp == <>[](parser.current >= Tip - ConfirmNum /\ (parser.current > First => OnMain))
=============================================================================
