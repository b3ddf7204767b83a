----------------------------- MODULE BlockApply -----------------------------
(***************************************************************************)
(* How a consensus node turns blocks of transactions into ledger events    *)
(* (build_block, validate_block, apply_block, prune_mempool in             *)
(* bft/node.rs), as functions on the state [ledger, ctx].  A transaction   *)
(* is an event that decode_event accepts, or a member of Junk, which it    *)
(* refuses.  apply_block exists twice, in the default build and in the     *)
(* build with feature "parallel".                                          *)
(***************************************************************************)
EXTENDS EventLedger

CONSTANTS
    Junk,       \* byte strings that are no event
    Size,       \* length in bytes of each transaction
    MaxBytes,   \* max_block_bytes
    MaxEvents   \* max_events

Txs == Events \cup Junk

ASSUME BlockAssumption ==
    /\ Junk \cap Events = {}
    /\ Size \in [Txs -> Nat \ {0}]
    /\ MaxBytes \in Nat /\ MaxEvents \in Nat

EmptyState == [ledger |-> EmptyLedger, ctx |-> NewContext]

Bytes(txs) == FoldLeft(LAMBDA sum, tx : sum + Size[tx], 0, txs)

\* validate_block looks at the size of a block, never at its transactions.
Fits(txs) == Bytes(txs) <= MaxBytes /\ Len(txs) <= MaxEvents

ValidBlocks == {txs \in BoundedSeq(Txs, MaxEvents) : Fits(txs)}

LongestFitting(txs) ==
    CHOOSE p \in Prefixes(txs) : Fits(p) /\ \A q \in Prefixes(txs) : Fits(q) => Len(q) <= Len(p)

\* Defective BuildBlock: a transaction that does not fit is passed over.
BuildBlockSkipping(mempool) ==
    LongestFitting(SelectSeq(mempool, LAMBDA tx : Size[tx] <= MaxBytes))

\* build_block takes from the front of the mempool until a limit is met, and
\* neither checks nor removes what it takes.
BuildBlock(mempool) == LongestFitting(mempool)

\* Defective PruneMempool: junk and repeats are swept out with every block.
PruneJunk(mempool, txs) ==
    SelectSeq(mempool, LAMBDA tx : tx \in Events /\ tx \notin ToSet(txs))

\* retain keeps, in their order, the transactions that are not in the block.
PruneMempool(mempool, txs) ==
    FoldLeft(LAMBDA kept, tx : IF tx \in ToSet(txs) THEN kept ELSE Append(kept, tx),
             <<>>, mempool)

-----------------------------------------------------------------------------
(* One iteration of each loop of apply_block.  A run that has failed stays   *)
(* as it is, as the ? operator returns from the function.                    *)

Acceptable(ctx, known, tx) ==
    tx \in Events /\ Valid(ctx, tx) /\ tx \notin known /\ HasParent(known, tx)

\* First loop of the default build: context and known hashes grow as it goes.
CheckTx(run, tx) ==
    IF run.ok /\ Acceptable(run.ctx, run.known, tx)
    THEN [ok |-> TRUE, ctx |-> Touch(run.ctx, tx), known |-> run.known \cup {tx}]
    ELSE [run EXCEPT !.ok = FALSE]

\* try_add_event and its ?, after the context was touched.
LinkTx(run, tx) ==
    [ok     |-> LinkResult(run.ledger, tx) = "Ok",
     ledger |-> TryAddEvent(run.ledger, tx),
     ctx    |-> Touch(run.ctx, tx)]

\* Second loop of the default build, which validates once more.
ApplyTx(run, tx) ==
    IF run.ok /\ tx \in Events /\ Valid(run.ctx, tx) THEN LinkTx(run, tx)
    ELSE [run EXCEPT !.ok = FALSE]

\* Second loop of the parallel build, which does not.
ApplyCheckedTx(run, tx) == IF run.ok THEN LinkTx(run, tx) ELSE run

Running(state) == [ok |-> TRUE, ledger |-> state.ledger, ctx |-> state.ctx]
Refused(state) == [Running(state) EXCEPT !.ok = FALSE]

\* Defective ApplySerial: the first loop is dropped as redundant.
ApplyInOneLoop(state, txs) == FoldLeft(ApplyTx, Running(state), txs)

ApplySerial(state, txs) ==
    LET checked == FoldLeft(CheckTx, [ok |-> TRUE, ctx |-> state.ctx,
                                      known |-> state.ledger.events], txs)
    IN  IF checked.ok THEN FoldLeft(ApplyTx, Running(state), txs) ELSE Refused(state)

\* Defective ApplyParallel: repeats are left to try_add_event, and its error is
\* ignored.
ApplyParallelLax(state, txs) ==
    IF \A tx \in ToSet(txs) :
           tx \in Events /\ Valid(state.ctx, tx) /\ HasParent(state.ledger.events, tx)
    THEN [FoldLeft(ApplyCheckedTx, Running(state), txs) EXCEPT !.ok = TRUE]
    ELSE Refused(state)

\* The parallel build checks every transaction against the state of before the
\* block.
ApplyParallel(state, txs) ==
    IF \A tx \in ToSet(txs) : Acceptable(state.ctx, state.ledger.events, tx)
    THEN FoldLeft(ApplyCheckedTx, Running(state), txs)
    ELSE Refused(state)

ApplyBlock(build, state, txs) ==
    IF build = "parallel" THEN ApplyParallel(state, txs) ELSE ApplySerial(state, txs)
=============================================================================
