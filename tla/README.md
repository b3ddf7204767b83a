# Verification of DVEL

TLA+ models, model checking configurations and machine-checked proofs for
DVEL, a validated event ledger with a permissioned BFT mode (`rust-core`) and a
deterministic C++ simulator (`cpp-sim`).

## The system and its parts

| Part | Source | State | Operations that change it |
|---|---|---|---|
| Validator set | `bft/config.rs`, `bft/node.rs` | powers, quorum threshold | built once from the genesis file |
| Slashing | `bft/slashing.rs` | stakes, jail, records, vote history | `record_vote`, `slash`, `unjail` |
| Consensus node | `bft/node.rs` | height, round, step, lock, proposal, tallies, chain, mempool | `handle_proposal`, `handle_vote`, `maybe_propose`, `check_timeouts`, `commit_block`, `submit_tx` |
| Network | `bft/node.rs` | peer map, sockets, channels | accept, connect, broadcast, peer threads |
| Block application | `bft/node.rs`, `ledger.rs`, `validation.rs` | ledger, tips, timestamp contexts | `apply_block`, `try_add_event`, `validate_event` |
| Persistence | `bft/storage.rs`, `bft/node.rs` | snapshot file | `save`, `load`, `restore_from_store` |
| Client API | `bft/http.rs` | none (reads the snapshot) | submits transactions |
| Scoring and Sybil overlay | `scoring.rs` | per-author quarantine, weight, last tip | `observe_event` |
| Traces | `cpp-sim/tools`, `trace_check.rs` | recorded rows | record, merge, check |
| File storage | `storage.rs` | chunks and manifest on disk | chunk, sign, verify, reassemble |
| FFI | `ffi.rs` | last error | wrappers of the above |
| Simulator | `cpp-sim/core` | inboxes, pending pool, message queue | ticks, delivery, gossip, drain |

A consensus node is one thread. Its loop drains the network channel, drains the
client commands, proposes if it is its turn, looks at the timer and sleeps. The
handlers call each other: a proposal makes the node cast a prevote,
`broadcast_vote` first hands the node's own vote to `handle_vote`, which may
lock and cast a precommit in the same way, which may commit the block and start
the next height; then the callers go on with their own assignments. This
re-entrancy, message loss and reordering between nodes, and timeouts racing late
messages are what makes the code hard to test. `PROJECT.json` lists the hazards
at the lines where they bite.

How the parts fit together: the consensus nodes talk through the network, hand
decided blocks to `apply_block`, which fills the event ledger, and try to write
a snapshot after every block; clients submit transactions and read the snapshot.
The simulator drives the same ledger, validator and scoring through the FFI and
records traces for the trace pipeline. File storage stands alone.

## Modules

| Module | Models |
|---|---|
| `ValidatorSet`, `Genesis` | fault bound, quorum threshold, `quorum_met`, `proposer_for`; all small genesis lists |
| `Slashing`, `SlashingMachine` | `SlashingState` as functions on its value; one node's slashing driven by votes, commits and unjails |
| `BftNode`, `BftCluster` | the handlers of one node as functions from node state to node state; N nodes and the network, one action per handler |
| `BftRestart` | the cluster with crashes: restart, what a restarted node has forgotten |
| `ReplicatedLog` | the abstract promise: one log, every replica holds a prefix |
| `Peers` | connect and accept threads, peer maps, queues, breaks and restarts |
| `LossyChannel` | the abstract promise of `broadcast`: at most once, any order, or never |
| `MerkleTree`, `EventLedger` | Merkle roots; ledger, tips and validation contexts as functions on their values |
| `BlockApply`, `Replica` | building, checking and applying blocks in both builds; one node with mempool, ledger and disk |
| `TipScoring`, `SybilOverlay`, `TraceCheck` | preferred tips; quarantine and weights; the trace pipeline |
| `SimNode` | the simulator node on top of these |
| `FileManifest`, `FileStore` | the manifest as lines; upload and download step by step |
| `SeqOps` | operators on sequences and the fold with which the loops are written |
| `MC...` | instances for TLC |
| `FoldProofs` | induction, loops and sums, used by the other proofs |
| `BftInvariantProofs`, `BftAgreementProofs` | proofs for `BftCluster` |
| `ValidatorProofs` | proofs for `SlashingMachine` and `Genesis` |
| `ReplicaProofs` | proofs for `EventLedger`, `BlockApply` and `Replica` |
| `PeersProofs` | proofs for `Peers` |
| `FileProofs` | proofs for `FileManifest` and `FileStore` |
| `SimProofs` | proofs for `TipScoring`, `SybilOverlay` and `SimNode` |

**Consensus.** `BftNode` keeps every assignment, guard and early return of the
handlers in their order; `SetStep(BroadcastPrevote(...), "Prevote")` is a call followed by
the assignment the caller makes, and both do nothing once the process has
exited. The state of a node is a record: `height`, `round`, `step`, `locked`,
the fields of `RoundState` (`proposal`, `proposed`, `prevotes`, `precommits`),
the committed `chain`, the `slashing` state, `up`, and `sent`, the messages the
node has given to `Network::broadcast`.

Data is abstracted as follows. Hashes are injective, so a block stands for its
hash, and as a header holds the hash of its parent, a block holds the chain it
extends. Timestamp and transactions of a block are one payload; the payloads in
`Unappliable` are the ones `apply_block` refuses. Signatures are not forged: a
vote in the network was cast by its validator, and all validators run the code.
Votes for `ZERO_HASH` are recorded by the slashing state, and left out of the
tallies, where no handler looks them up. Elapsed time is abstracted: a timeout
may expire at any moment at which its step is current. A proposer that has still
to propose does not time out, as the loop proposes before it looks at the timer.

`BftCluster` delivers any message ever sent, at any time, in any order, or
never. Messages of another height or round are dropped by the handlers, so a
delivery of one is a stuttering step. Proposals and prevotes for a block are sent
once, and a connection delivers what is sent at most once (`ImplementsChannel`).
A precommit is sent again with every prevote past the quorum, so it may arrive any
number of times, and each arrival looks for a quorum again. `Links` are the
connections that deliver, `Timers` the nodes whose timers may expire early. Each
vote and each timeout is one step of one node, because a handler runs to its end
before the loop goes on.

`BftRestart` adds restarts. A restarted node has nothing: it begins at height 1 in
round 0, without lock or votes, because no save of a node without an earlier file
succeeds (below). What it sent may still arrive elsewhere, and what was under way
to it is lost with its connections.

**Connections.** In `Peers`, `<<i, j>>` is the connection that `i` opens to `j`.
Opening, the answer of the accept loop, reading the answer and each insertion
into a map are separate steps, because the map is locked only for the insertion.
The accept loop of a node is one thread and serves one connection at a time. A
connection that lost its process after the hello is still accepted later
(`ghosts`). A message is its number among the broadcasts of its sender;
`BftCluster` relies on what `LossyChannel` says and no more.

**Blocks and disk.** A transaction is an event, which stands for its hash, or
junk that `decode_event` refuses. `apply_block` exists twice, and `Replica` runs
with either build. Consensus is outside of `Replica`: it hands over any block that
`validate_block` lets through. `save` encodes the snapshot, writes the temporary
file and renames it; each may fail, and a crash may tear the write.

Encoding always fails on a snapshot that has a slashing state: `SlashingState` is
a struct of maps whose keys are byte arrays and tuples (`bft/slashing.rs:11-19`),
and `serde_json::to_vec_pretty` (`bft/storage.rs:39`) writes maps only if their
keys are strings. `Node::new` puts a slashing state into the snapshot, also with
slashing switched off (`bft/node.rs:260-263`), so a node that starts in an empty
data directory never saves anything. The files that can exist were written before
snapshots had a slashing state (`CHANGELOG.md:34, 42`); the field is an `Option`,
and `restore_from_store` handles its absence. A node that starts from such a file
has no slashing state in its snapshot and saves its blocks until it punishes
somebody. `EarlierChains` are the chains in these files; `Init` has one of them on
the disk, or no file. `restore_from_store` also compares heights and parent
hashes; the blocks of one chain pass this by construction, and it is left out.

**Simulator.** `SimNode` delivers any event at any tick, in any order and any
number of times, so that all policies of the message bus are covered; timestamps
and ticks are independent of each other, as nothing in `node.hpp` ties an event's
timestamp to the tick at which it arrives. The calls through the FFI are its
steps. The drain calls itself for the children of each child it links; here the messages that the nested calls hold
outside of the pool are one list of work, children in front of siblings, and
`DrainChild` handles its head. The weight of an author is computed in integers; the
logarithm of the number of observers is a table in thousandths. The simulator's
backward skew of 1,000,000 ticks is a skew above all timestamps, with which
timestamps reject nothing. A trace row is the record the overlay makes;
`TraceCheck` is what `run_trace_pipeline.sh` does with the trace of one node:
`merge_trace.py` sorts the rows and puts the root of the last into a header,
`check_trace.py` looks at rows and header.

**Files.** A chunk stands for its hash and a signature for the text it signs. A
manifest is a sequence of lines; a write that was cut short leaves whole lines
and perhaps a number without its last digits.

Operators whose comment starts with "Defective" are variants of the operator
after them with a bug that could plausibly be in the code. No specification uses
them. They serve to confirm that every property can fail: with the variant in
the place of the operator, TLC finds the property violated.

## Model checking

All runs of `MCBftCluster` have four validators (f = 1, quorum 3).

| Run | Instance | Checks | States |
|---|---|---|---|
| `log` | power 2 for validator 0, so 0 with any other is a quorum; 3 is down; 2 heights of 2 rounds, timers of 0 and 2 | `Agreement`, `CommitHasQuorum`, `LaterQuorumExcludesEarlier`, `ImplementsLog`, `LostRoundStaysLost` | 40,794 |
| `halt` | the same with 1 height; every timer, 2 rounds, one payload of two cannot be applied | `HaltHeightIsFinal`, `StallIsPermanent` | 438,504 |
| `in_time` | power 2 for validator 0; all links of 0, 1, 2; no timer; 1 height, 1 round; fair | `InTimeCommit` | 1,636 |
| `jail` | slashing on; power 2 for validator 2, which talks to 1; 2 rounds | `TypeOK`, `JailedOnlyForDoubleSign`, `JailedOutIsPermanent` | 57,665 |
| `slashing` | 2 validators, 4 heights, 4 penalties of 50 %, jail of 1, history of 1 | `StakeAccounting`, `EvidenceUsedOnce`, `HistoryWindow`, `JailTermKept` | 591,364 |
| `genesis` | 1 to 7 validators with powers 1 and 2 | `SafeSizes`, `ByzantineMargin`, `PowerBudget` | 254 |
| `replica` | 3 events and 2 pieces of junk, one too large; blocks of up to 2, 3 heights; no file or one of 2 earlier ones; both builds; crashes and failed saves anywhere | `LedgerOfChain`, `RestartSucceeds`, `CommittedOnce`, `SerialAllOrNothing`, `BuildsAgreeOnFlatBlocks`, `DiskOnlyGrows`, `DeadTxStays`, `OversizedHeadBlocks` | 20,173 |
| `sim` | 6 events of 2 authors with a fork, a link longer than the walk and a forged event; pool, duplicate filter and drain of 2; 4 ticks | `LedgerIndependentOfOrder`, `NoneWaitsForLinked`, `TraceIsLedger`, `ForkIffQuarantined`, `PreferredTipOrderFree`, `RootIdentifiesLedger`, `CheckerVerdict` | 51,658 |
| `files` | 3 versions of a file of 3, 2 and 0 bytes, chunks of 2, 2 uploads, any number of downloads | `WholeVersion`, `OutputEmptiedForWholeVersion`, `CompleteUploadCanBeRead` | 157,620 |
| `peers` | 2 nodes, a message each, a broken connection, 2 restarts; fair | `LostForGood`, `ImplementsChannel`, `EveryoneConnects`, `QueuedArrives` | 45,055 |

What they show, beyond consensus and slashing:

- `LostRoundStaysLost`: a commit inside a nested vote is followed by the
  caller's assignment to `step`, so a node can enter a height past its propose
  step. If it is the proposer, that round never gets a proposal.
- `halt`: a refused payload ends every process that commits it, and no node gets
  past that height; locks of a past round on a member of every quorum stop a
  height for good, because a header carries its round and a locked block can
  never be proposed again.
- `replica`: `DiskOnlyGrows` says when the file changes at all, and that no failed
  save, torn file or crash loses blocks that it held. `RestartSucceeds` is about a
  step: one of the earlier files holds a parent and its child in one block, and
  the parallel build refuses it at once; a file that a node can start from is
  never replaced by one that it cannot. `CommittedOnce` is about one process; a
  restart of a node that could not save loses its chain. In the default
  build a refused block changes nothing. The two builds agree on blocks in which
  no author occurs twice and no parent comes with its child; on others they do
  not (the parallel build refuses a parent and its child in one block, and
  accepts two events of one author of which the second is too old). A
  transaction no block can commit stays in the mempool for ever, and one above
  `max_block_bytes` at its head makes all blocks of this proposer empty.
- `sim`: the ledger depends only on which events arrived, up to what the full
  pool turned away. Forks are caught although only the last tip of an author is
  compared, and links longer than the walk are mistaken for forks.
  `CheckerVerdict` says exactly which traces of one node `check_trace.py` refuses:
  those in which the last event linked is older than another, an author forks again
  while quarantined, or a row is recorded after the end of a quarantine that covers its
  timestamp.
- `files`: a download that reports success has written one whole version,
  although neither chunks nor manifest are replaced atomically. A manifest cut
  after its signer line has no signature to check and is accepted as it is.
- `peers`: no message arrives twice although each pair has two connections and
  both are read. Every map gets a live connection, unless one was lost or a
  thread inserted one that was closed in the meantime: a thread of
  `connect_peers` can finish its handshake, lose the peer to a restart, and
  then insert its dead sender over the newer one of the accept loop.

Bounds. Two rounds are enough for a lock of one round to meet a proposal of the
next. A validator with power 2 makes quorums of two nodes possible while all
quorums still intersect; this keeps the state space small with the same lock,
commit and timeout interplay. Two heights show that a node can be behind and
catch up. A history of one height and stakes of 5 and 1 make pruning and rounding
happen at once. Three blocks of up to two transactions hold a repeat, a parent with
its child, and an event too old for its author, within one block and across a
restart. A pool and a drain of two overflow with six events. Two uploads make
one overwrite the other, and a third version would only repeat that. In `peers`
two nodes are enough: the connections of different pairs meet only in the
accept loops, which no thread holds up. The step bounds stop proposals,
timeouts and inputs only, so the runs of the cluster, of slashing, of `genesis`
and of `peers` end in states where nothing is left to do, and deadlock is not
checked in them. The other runs check it.

Fairness. `in_time` assumes that a node that is up and has something to do does
something (`Node::run` loops for ever, with a sleep of 10 ms). It assumes nothing
about which of its enabled handlers runs. That a message is delivered at last is
part of it, which TCP promises while connections last; that a precommit arrives a
second time is not. The run has one height and
one round for that reason: a message for a later height that comes early is
dropped by the handlers, and nobody sends it again. With timeouts the code makes no such promise, and
`halt` and `jail` show ways in which a height is never decided. `peers` assumes
weak fairness of each thread: those of `connect_peers` loop until they succeed,
the accept loop and the loops of `spawn_peer` run as long as the process.
Broadcasts, broken connections and restarts are never forced.

### Disagreements with the documentation

Two runs are expected to find a violation. Each checks a sentence of the
documentation against the code.

- `double_sign`: a propose timeout followed by a late proposal makes an honest
  node sign two prevotes in one round, the offence of
  `docs/staking_and_slashing.md:10`.
- `restart`: nothing outlives a process, and a lock would not be in a snapshot
  either. Node 0 is locked on a block of round 1 and has precommitted it; it
  restarts in round 0 and commits the block of that round with node 1, while node 2
  commits that of round 1 on the precommit of before, against "block is final
  after 2f+1 precommits" (`docs/bft_design.md:10`). The voting powers are those of
  `log`, in which without restarts `Agreement` holds.

Further observations made while modelling:

- "On restart, the node replays stored blocks" (`docs/bft_design.md:107-108`,
  `README.md:92`) does not happen for a node of this version that began with an
  empty data directory: every save fails and is logged as a warning.
  `DiskOnlyGrows` states this for the model, and `DiskTheorem` proves it.
- With no jail term a repeated vote is punished again, against the comment at
  `bft/slashing.rs:77`; `EvidenceTheorem` needs a term above 0.
- Power is summed against a threshold computed from the number of validators:
  with powers 2, 2, 1, 1 two disjoint quorums exist. `PowerBudget` says how much
  power a validator set may have in all.
- The Rust checker (`trace_check.rs`) is not part of the pipeline. The feature that
  enables it does not build as it stands (`slash_percent` is missing in a
  conversion), and its rows must have `merkle_root_has` and `preferred_tip_has`
  (`trace_check.rs:53, 55`), which neither the simulator nor `merge_trace.py`
  writes: it would refuse every trace with a row.
- `unjail` has no caller in the node; a jail ends with its height, when `is_jailed`
  no longer holds. `slashing` runs it as an operation of the crate.
- The HTTP server starts before the snapshot is restored and answers from an
  empty one until then.

## Proofs

All proofs hold for every value of the constants that satisfies the named
assumptions of the modules. 35 of the 40 properties that the runs check are
theorems.

A temporal proof has the usual three parts: the initial states satisfy an
inductive invariant, every step keeps it, and it implies the property. Leaves
that need no arithmetic name Zenon, which the size of the modules does not slow
down, or a `USE` at the head of the module does so for all leaves that name no
prover; a number after a prover is the time it may take. `SeqOps` holds the few
operators the models take on sequences, because the provers slow down with every
definition in reach.

### Loops and sums

`FoldLeft` and `MapThenFoldSet`, with which the loops of the code are written, are
defined through a recursive function. `FoldProofs` shows by induction on numbers
(each set of numbers that is not empty has a least member) that a fold goes
through a sequence of values, one per turn (`FoldRun`), that a set of turns which
holds 0 and is closed under the next turn holds them all (`LoopInduction`), and
what a sum over a finite set is (`SumAdd`, `SumDisjoint`). The induction theorems of the library
take a predicate as a parameter, which the provers cannot instantiate, and so
induction is stated with sets throughout.

### Consensus

- `TypeCorrect`: `Spec => []TypeOK`. One lemma per operator, in the order the
  handlers call each other. The strengthening is that a node holds only a
  proposal that `validate_block` accepts, which `commit_block` relies on.
- `LostRoundTheorem`, `JailedOutTheorem`, `JailTheorem`: `LostRoundStaysLost`,
  `JailedOutIsPermanent` and `JailedOnlyForDoubleSign`, without any condition on
  the powers.
- `AgreementTheorem`, `CommitQuorumTheorem`, `LockTheorem`, `HaltTheorem`,
  `StallTheorem`, `LogTheorem`: assuming `QuorumsIntersect`, the properties
  `Agreement`, `CommitHasQuorum`, `LaterQuorumExcludesEarlier`,
  `HaltHeightIsFinal` and `StallIsPermanent` hold, and the cluster implements
  `ReplicatedLog` (`ImplementsLog`).
- `PowerIntersects` (in `ValidatorProofs`): `QuorumsIntersect` holds when the
  power of all validators is below that of two quorums. `UnitPowerIntersects`: it
  holds with equal powers and a number of validators other than 2, 3 and 6, for
  which the theorems above need no further condition.

*The handlers* (`BftInvariantProofs`). They call each other, and go on with their
own assignments afterwards, so each is taken apart once. `Passes(P, R, V, self)`
says that a set `P` of node states is closed under the elementary changes of the
code (counting a vote, locking with a precommit, sending a prevote or a vote for
`ZERO_HASH`, keeping a proposal, setting the step) and that a commit leads from
`P` to `R`. The rule proved from it is that every handler which starts in `P`
ends in `P` or `R`. Each property is a choice of `P` and `R`: that a node past its
propose step stays past it until it commits gives `LostRoundTheorem`; that a node
which drops a member of every quorum counts no quorum gives `JailedOutTheorem`;
that what a node has recorded of a vote was sent gives `JailTheorem`.
The order of the calls enters once. `broadcast_vote` handles an own vote before
it sends it; no handler reads `sent`, so this comes to the same as sending first,
unless the process exits in between (`Shadow`). For that reason
`JailedOnlyForDoubleSign` excepts a process that is down and jailed itself: the
vote it jailed itself for was recorded and never sent. The exception was found
when the proof without it failed: without it the property is false once a payload
cannot be applied.

*The cluster* (`BftInvariantProofs`, `BftAgreementProofs`). The inductive
invariant `Inv` says, besides types:

- a node signs only its own messages, and votes only in rounds it has reached;
  a block is prevoted only if it was proposed, and precommitted only if a quorum
  has prevoted it (`OwnMessages`, `PrevoteInv`, `PrecommitInv`);
- a round has one proposal, and its proposer remembers having made it
  (`ProposalInv`, `OneProposal`);
- a node is locked on a block it has precommitted, and the lock is as recent as
  any precommit of the node at its height (`LockInv`, `LockLatest`);
- who prevotes a block after having precommitted one in an earlier round does so
  only after a quorum of prevotes in a round in between, or together with the
  quorum of that round (`VoteAfterLock`): with `LockLatest` this is where the
  lock rule of `handle_proposal` enters;
- a quorum of prevotes in a round excludes every block of an earlier round: each
  quorum has a member that left that round without precommitting the block
  (`LaterExcludes`);
- tallies, proposals and chains only hold what was sent (`TallyInv`,
  `HeldProposal`, `ChainInv`).

Agreement alone is not inductive: it says nothing about votes in flight. With
the invariant, two committed blocks of a height have quorums of precommits, in
the same round they share a validator, and in different rounds the later one
excludes the earlier. `Inv` is an operator on a value of the cluster, and the
sets `P` and `R` above are the states of one node with which the cluster
satisfies it (`During`, `After`); the elementary changes keep it one by one.

`Full` adds that a node has prevoted no block in a round after that of its lock,
and that its chain holds nothing `apply_block` refuses. The first gives
`StallTheorem`: a locked node never again votes for a block of a later round, so
no quorum can. `HaltTheorem` needs more. A process that exits over a block it
cannot apply sent neither its last prevote nor its last precommit, so the quorum
it saw is not to be found among the messages. `GhostInv` says that there is a
cluster which satisfies `Full` and differs from the real one only in that these
processes have sent what they signed; in it the refused block has its quorum, and
agreement excludes every other block of the height.

`LogTheorem`: the log is the longest chain. Where two nodes have a block it is
the same one, so a step extends the longest chain by one entry, copies the next
entry of it, or changes no chain. That there is a longest chain is part of the
invariant (`SomeAhead`): a step moves one node only (`AheadStep`).

### Validators and slashing

`ValidatorProofs` has two parts. For `SlashingMachine`, types (`SlashingTypes`)
come with the fact that no vote of a future height is kept. `JailTermTheorem` and
`HistoryTheorem` follow from them step by step. `EvidenceTheorem` assumes a jail
term above 0. That no evidence is used twice is not inductive: the invariant adds
that evidence is spent, which is to say of an earlier height or of a validator in
jail at this one. In both cases `handle_vote` lets no vote of it through again.
`StakeTheorem` assumes a percentage of at most 100, above which a penalty would
exceed the stake; a new record adds its amount to one sum and to the total.

For `Genesis`, `PowerBudgetTheorem`, `SafeSizesTheorem` and
`ByzantineMarginTheorem` settle the arithmetic of `fault_bound` and
`quorum_threshold` for every list of validators: which sums of powers, and which
numbers of validators with equal powers, make any two quorums meet.

### Blocks, ledger and disk

`ReplicaProofs` first unrolls the loops of `apply_block` in both builds and of
`restore_from_store`. What is kept through each turn is `Sound`: every event's
parent is in the ledger, the tips are the childless events (`LedgerTheorem`, from
the assumption that hashes have no cycles), and the context of an author is the
newest timestamp of its events. A block that was applied adds its events, all of
them new and different. On a flat block the turns of the two builds are independent of each
other, and both builds leave the same state or refuse the block alike.

Its other part is about one node, its mempool and its disk:

- `DiskTheorem` (`DiskOnlyGrows`). `DiskInv` says that a serving node has a slashing
  state if there is no file, and otherwise the blocks of the file as a prefix of its
  chain; and that the temporary file, once it is to be renamed, is the node's own
  snapshot without a slashing state. A failed save keeps this, a restart
  establishes it anew. `EarlierAssumption` says that an earlier file holds blocks
  which `validate_block` lets through.
- `LedgerChainTheorem`, `AllOrNothingTheorem`, `FlatBlockTheorem` (`LedgerOfChain`,
  `SerialAllOrNothing`, `BuildsAgreeOnFlatBlocks`). `StateInv` says that ledger and
  contexts are what replaying the chain gives. A step leaves chain and ledger alone,
  empties them, rebuilds them from the file, or commits a block (`StepKinds`).
- `RestartTheorem` (`RestartSucceeds`). A step that changes the file puts the node's
  chain there, and by `StateInv` this chain replays in the same build.
- `CommittedOnceTheorem` (`CommittedOnce`). A chain that replays holds no transaction
  twice (`RebuiltOnce`): each turn of the replay takes only transactions that are
  not in the ledger, which holds those of all blocks before. No assumption about
  what consensus decides is needed.
- `DeadTxTheorem`, `OversizedTheorem` (`DeadTxStays`, `OversizedHeadBlocks`):
  pruning keeps the order of the mempool and drops only what was applied, so what
  no block can commit stays, and what stands at the head stays there; the loop of
  `build_block` takes nothing after a first transaction that is too large.

### Connections

`ChannelTheorem` shows that `Peers` implements `LossyChannel`, for any number of
nodes. The refinement mapping is the identity on `sent` and `got`. The invariant
says of each ordered pair that the messages on its two connections and those
received are numbers already used, and all different. `LostTheorem`: an entry
that is lost is dead, all threads of the pair are done and the accept loop has
nothing to insert for it. That an accept loop does not take up an old hello
later needs `HelloInv`: a hello that was not answered belongs to a thread that
has not connected yet.

### Files

`FileProofs` shows the three properties of `FileStore` for any versions of a file,
any chunk size and any number of uploads, complete or not, and downloads
(`WholeVersionTheorem`, `OutputTheorem`, `CompleteUploadTheorem`). `FileAssumption`
says that there are finitely many versions, each a sequence of bytes, and
`NoneAssumption` that an `Option` without a value is none of the values it can
have.

First the text. A manifest has four lines, a line for each hash and, if signed,
two more (`Shape`); a torn one is whole lines and perhaps one more, which either
cannot be read or has one of the keys with a number, its value cut (`TornCut`).
`ReadWhole` says that what was written is what is read, and `ReadCut` what a
readable torn manifest can give: the right total size, and the first hashes of the
list. It may so be shorter than the file, never another file.

The invariant `FileInv` says that the manifest file is the text of one version's
pieces or a torn one (`ManifestInv`); that what an upload has stored, is storing
and has still to read is the version it uploads (`UploadInv`); that after a
complete upload the chunks and the whole manifest are there (`CompleteInv`); that a
download has verified or copied the first pieces of its manifest, which begin the
version (`DownloadInv`); and that one which began after a complete upload works on
that upload's manifest (`QuietInv`). `WholeVersion` alone is not inductive: it is
the comparison of the sizes in `verify_chunks` that makes the beginning of a version
the whole of it, and the second hashing in `reassemble` that keeps it so while an
upload overwrites the chunks.

### Simulator

`SimProofs` shows five properties of the simulator node, for any finite set of
events with any parents, authors and timestamps, any limits and any order of
delivery. `SimAssumption` asks that the drain may take as many messages as the
pool holds; in the code both limits are 16384.

- `SimInvariant`: the inductive invariant `SimInv`. The ledger has the parents of
  its events and its tips are the childless ones; the trace has a row for each
  event; the overlay knows the authors of the ledger, and as long as an author was
  never quarantined all their events are ancestors of their last tip; the pool
  holds each message in the bucket of its parent, and `total` is the sum of the
  buckets; every event that was received is linked, in the pool, or was turned
  away; no bucket of a linked event has messages.
- `TraceTheorem`, `PoolTheorem`: `TraceIsLedger` and `NoneWaitsForLinked` follow.
- `OrderTheorem`: `LedgerIndependentOfOrder`, assuming `Punctual`: two events of
  an author differ by no more than the backward skew. Otherwise the validator
  accepts the older one only if it comes first, and the ledger does depend on the
  order; the simulator sets a skew of 1,000,000 ticks for that reason.
- `ForkTheorem`: `ForkIffQuarantined`, assuming `QuarantineTicks > 0`; a quarantine
  of no ticks that begins at tick 0 leaves no mark.
- `TipTheorem`: `PreferredTipOrderFree`. The loop of `select_preferred_tip` keeps
  the best of the tips it has seen, and `OrderHasAll` says that any order of the
  tips has them all.

*The drain.* In the middle of a drain the accounting does not hold as it stands: the
siblings of the child at work are in neither pool nor ledger. `Core` is therefore
the invariant with the set of events that the drain holds as one more place an event
can be, and `Good` adds that no bucket of a linked event has messages; it can hold
inside a drain, too, because the bucket of a linked child is taken at once.
`DrainInv` says of the drain after k turns that `Good` holds with what the drain
holds, that every message it holds has a linked parent, and that, until it is done,
the messages it holds and those of the pool are at most `MaxPending` less the turns.
The last clause shows that the drain ends and that no message is put back or turned
away on the way.

*Forks.* `Ancestry` is the least set closed under parents, and the ancestors of an
event are a chain. `AncestorIsFound` and `FoundIsAncestor` say that the walk finds
exactly the ancestors within its length. An author without a quarantine has a
chain of events that ends in the last tip; a new event either extends it or is
caught.

### Only model-checked

- Liveness (`InTimeCommit`, `EveryoneConnects`, `QueuedArrives`): fairness is out
  of the prover's reach.
- `RootIdentifiesLedger` and `CheckerVerdict`: what a Merkle root and the sorting of
  a trace compute.

## Not modelled

- Byte encodings, hexadecimal and JSON conversions, wire framing, TLS and
  signatures: hashes and encodings are injective and signatures are not forged.
- Parsing of HTTP requests and of the command line; the reads of the client API
  other than `GET /tx` return fields of the snapshot as they are.
- The FFI's null checks, conversions and last error string; of its calls those
  that the simulator node and file storage make are steps of the models.
- `Network::shutdown`: nothing in the binary sends `NodeCommand::Shutdown`.
- `MaturityStubWeight`, which has no caller, and `InvalidProposal` evidence,
  which is never created.
- Elapsed time: backoff and the length of timeouts only decide when a timeout
  comes, and the models let it come at any time.
- The simulator's scenarios, gossip fan-out, metrics and executables: they choose
  among the deliveries that `SimNode` allows, and print.
- `trace_check.rs`, which accepts no trace that is ever written (above), and
  `prover_stub.py`, which hashes a file.
- Merged traces of several nodes: `TraceCheck` merges the trace of one.
