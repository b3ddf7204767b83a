------------------------------ MODULE Replica ------------------------------
(***************************************************************************)
(* One consensus node with its mempool, its ledger and its disk, through   *)
(* commits, failed saves, crashes and restarts (commit_block,              *)
(* restore_from_store, SnapshotStore).  Consensus is outside: it hands the *)
(* node blocks that passed validate_block, built from this node's mempool  *)
(* or from any other's.                                                    *)
(*                                                                         *)
(* A snapshot is the chain and, optionally, a slashing state, which is a   *)
(* struct of maps whose keys are byte arrays and tuples.  serde_json only  *)
(* writes maps with string keys: save fails on a snapshot that holds one,  *)
(* and Node::new puts one into every snapshot that it does not restore.    *)
(* The files that exist were written before snapshots had a slashing       *)
(* state (CHANGELOG.md:34, 42).                                            *)
(***************************************************************************)
EXTENDS BlockApply

CONSTANTS
    Builds,          \* the builds of the node that are looked at
    EarlierChains,   \* the chains in files of before slashing
    MaxHeight,       \* bound on the height
    MaxPool          \* bound on the length of the mempool

ASSUME EarlierAssumption == EarlierChains \subseteq Seq(ValidBlocks)

VARIABLES
    proc,       \* "down", "restoring", "running", or "write" and "rename" within save
    build,      \* "serial" or "parallel"
    chain,      \* transactions of the blocks in the snapshot that clients read
    state,      \* ledger and vctx_by_author
    mempool,    \* submitted transactions
    slashing,   \* is there a slashing state in the snapshot?
    file,       \* bft_snapshot.json: <<>> if there is none
    tmp         \* bft_snapshot.json.tmp

disk == <<file, tmp>>
memory == <<chain, state, mempool, slashing>>
vars == <<proc, build, memory, disk>>

Alive == proc # "down"
Serving == proc \in {"running", "write", "rename"}

Torn == <<"torn">>   \* what a crash in the middle of fs::write leaves
Snapshot == <<chain, slashing>>   \* snapshot_to_persisted

\* serde_json::to_vec_pretty, on the node's snapshot.
Encodes == ~slashing

Forget ==
    /\ chain' = <<>> /\ state' = EmptyState /\ mempool' = <<>> /\ slashing' = FALSE

Init ==
    /\ proc = "down" /\ build \in Builds
    /\ chain = <<>> /\ state = EmptyState /\ mempool = <<>> /\ slashing = FALSE
    /\ file \in {<<>>} \cup {<<blocks, FALSE>> : blocks \in EarlierChains}
    /\ tmp = <<>>

\* The binary serves the network and clients before Node::new restores.
Start ==
    /\ proc = "down"
    /\ proc' = "restoring"
    /\ UNCHANGED <<build, memory, disk>>

\* Blocks are applied one by one; an error ends the loop.
Replay(blocks) ==
    FoldLeft(LAMBDA run, txs : IF run.ok THEN ApplyBlock(build, run, txs) ELSE run,
             Running(EmptyState), blocks)

\* Defective Restore: the blocks are applied, but not put into the new snapshot.
RestoreLedgerOnly ==
    /\ proc = "restoring"
    /\ proc' = "running"
    /\ IF file = <<>> THEN slashing' = TRUE /\ UNCHANGED state
       ELSE LET run == Replay(file[1])
            IN  slashing' = file[2] /\ state' = [ledger |-> run.ledger, ctx |-> run.ctx]
    /\ UNCHANGED <<build, chain, mempool, disk>>

\* Node::new gives the snapshot a slashing state; restore_from_store replaces
\* snapshot and all by what is in the file.  On an error the process ends.
Restore ==
    /\ proc = "restoring"
    /\ IF file = <<>>
       THEN proc' = "running" /\ slashing' = TRUE /\ UNCHANGED <<chain, state, mempool>>
       ELSE LET run == Replay(file[1])
            IN  IF run.ok
                THEN /\ proc' = "running"
                     /\ chain' = file[1] /\ slashing' = file[2]
                     /\ state' = [ledger |-> run.ledger, ctx |-> run.ctx]
                     /\ UNCHANGED mempool
                ELSE proc' = "down" /\ Forget
    /\ UNCHANGED <<build, disk>>

\* submit_tx, for a client or for a peer: no check, no search for a duplicate.
SubmitTx(tx) ==
    /\ proc = "running"
    /\ Len(mempool) < MaxPool
    /\ mempool' = Append(mempool, tx)
    /\ UNCHANGED <<proc, build, chain, state, slashing, disk>>

\* A quorum of precommits for txs at the node's height.
Decided == proc = "running" /\ Len(chain) < MaxHeight

Record(txs) ==
    /\ chain' = Append(chain, txs)
    /\ mempool' = PruneMempool(mempool, txs)

\* Defective CommitBlock: the snapshot is taken before the block is applied.
CommitEagerly(txs) ==
    /\ Decided
    /\ LET run == ApplyBlock(build, state, txs)
       IN  IF run.ok
           THEN /\ proc' = "write" /\ state' = [ledger |-> run.ledger, ctx |-> run.ctx]
                /\ Record(txs) /\ UNCHANGED <<file, slashing>>
           ELSE /\ proc' = "down" /\ Forget
                /\ file' = IF Encodes THEN <<Append(chain, txs), slashing>> ELSE file
    /\ UNCHANGED <<build, tmp>>

\* commit_block up to the save.  On an error handle_vote exits the process.
CommitBlock(txs) ==
    /\ Decided
    /\ LET run == ApplyBlock(build, state, txs)
       IN  IF run.ok
           THEN /\ proc' = "write" /\ state' = [ledger |-> run.ledger, ctx |-> run.ctx]
                /\ Record(txs) /\ UNCHANGED slashing
           ELSE proc' = "down" /\ Forget
    /\ UNCHANGED <<build, disk>>

\* A double sign is punished (handle_vote), and the snapshot gets the node's
\* slashing state.
Slash ==
    /\ proc = "running"
    /\ slashing' = TRUE
    /\ UNCHANGED <<proc, build, chain, state, mempool, disk>>

\* SnapshotStore::save, up to the rename.  A failure is logged, and the node
\* goes on.
WriteTmp ==
    /\ proc = "write"
    /\ \/ Encodes /\ proc' = "rename" /\ tmp' = Snapshot
       \/ Encodes /\ proc' = "running" /\ tmp' \in {tmp, Torn}
       \/ ~Encodes /\ proc' = "running" /\ UNCHANGED tmp
    /\ UNCHANGED <<build, memory, file>>

RenameTmp ==
    /\ proc = "rename"
    /\ proc' = "running"
    /\ \/ file' = tmp /\ tmp' = <<>>
       \/ UNCHANGED disk
    /\ UNCHANGED <<build, memory>>

Crash ==
    /\ Alive
    /\ proc' = "down" /\ Forget
    /\ tmp' \in (IF proc = "write" /\ Encodes THEN {tmp, Torn} ELSE {tmp})
    /\ UNCHANGED <<build, file>>

Next ==
    \/ Start \/ Restore \/ Slash \/ WriteTmp \/ RenameTmp \/ Crash
    \/ \E tx \in Txs : SubmitTx(tx)
    \/ \E txs \in ValidBlocks : CommitBlock(txs)

Spec == Init /\ [][Next]_vars

\* What GET /tx answers: tx_index keeps the last block a transaction was in; 0
\* stands for "unknown".
HeightOf(tx) == Max({0} \cup {h \in DOMAIN chain : tx \in ToSet(chain[h])})

-----------------------------------------------------------------------------
TxsOf(blocks) == UNION {ToSet(blocks[h]) : h \in DOMAIN blocks}

\* Through commits, failed saves and restarts, in either build of apply_block,
\* ledger and contexts are what the blocks of the chain say: their events, the
\* childless ones as tips, and the newest timestamp of each author.
LedgerOfChain ==
    Serving =>
        /\ state.ledger.events = TxsOf(chain)
        /\ Closed(state.ledger) /\ state.ledger.tips = Childless(TxsOf(chain))
        /\ \A a \in Authors :
              state.ctx[a] = Max({0} \cup {Timestamp[e] : e \in {d \in TxsOf(chain) : Author[d] = a}})

Restartable == file = <<>> \/ Replay(file[1]).ok

\* "On restart, the node replays stored blocks" (docs/bft_design.md:108): nothing
\* that a node does, and no crash, turns a data directory it can start from into
\* one that restore_from_store refuses.
RestartSucceeds == [][Restartable => Restartable']_vars

\* GET /tx knows every transaction of the chain by the one block it is in, once:
\* the height that a client was told does not change while the process lives
\* (commit_block and restore_from_store overwrite entries of tx_index).
CommittedOnce ==
    \A h \in DOMAIN chain : \A i, j \in DOMAIN chain[h] :
        /\ HeightOf(chain[h][i]) = h
        /\ chain[h][i] = chain[h][j] => i = j

\* When bft_snapshot.json changes, blocks are added to those it held, by a node
\* that has punished nobody since it started from a file of before slashing.  So
\* a data directory without a file never gets one (Node::new, save).
DiskOnlyGrows ==
    [][file' # file => ~slashing /\ file # <<>> /\ IsPrefix(file[1], file'[1])]_vars

\* A transaction that no block can commit any more (no event, or committed
\* already) stays in the mempool of a process to its end: prune_mempool only
\* removes what a block has committed.
DeadTxStays ==
    [][\A tx \in ToSet(mempool) :
         (tx \in Junk \cup TxsOf(chain) /\ proc' # "down") => tx \in ToSet(mempool')]_vars

\* A transaction above max_block_bytes at the head of the mempool stays there,
\* and every block that build_block makes of this mempool is empty.
OversizedHeadBlocks ==
    [][(mempool # <<>> /\ Size[Head(mempool)] > MaxBytes /\ proc' # "down") =>
         (Head(mempool') = Head(mempool) /\ BuildBlock(mempool') = <<>>)]_vars

\* "no state mutation" (bft/node.rs:546): in the default build the second loop
\* of apply_block never fails, so a block that is refused changes nothing.
SerialAllOrNothing ==
    \A txs \in ValidBlocks :
        LET run == ApplySerial(state, txs) IN ~run.ok => run = Refused(state)

\* "Maintains determinism" (README.md:15): the two builds agree on every block
\* in which no author occurs twice and no parent comes with its child.
Flat(txs) ==
    \A i, j \in DOMAIN txs :
        (i # j /\ {txs[i], txs[j]} \subseteq Events) =>
            Author[txs[i]] # Author[txs[j]] /\ Prev[txs[i]] # txs[j]

BuildsAgreeOnFlatBlocks ==
    \A txs \in ValidBlocks :
        Flat(txs) => ApplySerial(state, txs) = ApplyParallel(state, txs)
=============================================================================
