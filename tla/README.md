# A verification of the CRDT relational database

This directory holds TLA+ modules that model the replicated database in `src/`
(an embedded, offline-first SQL engine in Rust, with a dashboard server that
runs a cluster of engines in one process), TLC configurations that check them
on small instances, and proofs that TLAPS checks for every instance.

Paths below are relative to `src/src/` unless they say otherwise.

## 1. The system

| Component | State | Operations | Talks to |
|---|---|---|---|
| Hybrid logical clock, `crdt/clocks.rs` | largest wall time seen, logical counter (two atomics) | `tick`, `observe` | read by the planner, advanced by the engine |
| Version vectors, `crdt/clocks.rs` | the largest timestamp seen per peer | `observe`, `merge`, `dominates`, `dominated_by` | used beside state-based merges |
| Operation log, `storage/op_log.rs` | the sequence of operations, a hash chain, a frontier per peer | `append` (skips an operation it has), `since`, `max_seq` | source of truth of the engine |
| Anti-entropy by timestamps, `sync/anti_entropy.rs` | cursors, which this path only writes | `sync_peers` | reads and appends to two logs |
| Deltas and digests, `sync/anti_entropy.rs`, `storage/compaction.rs` | a cursor per source, acknowledgements per receiver | `compute_delta`, `apply_delta`, `MerkleDigest`, `GcTracker` | reads the log; offered to callers, not used by the engine |
| Tables, `crdt/mv_register.rs`, `crdt/orset.rs`, `storage/row_store.rs` | per table an observed-remove map of rows, a multi-value register per cell | `apply_op`, and `merge` of whole states (not used by the engine) | built from the log |
| Uniqueness, `constraints/uniqueness_protocol.rs` | per value the claims and who won, a log of conflicts | `reserve`, election, and `merge` (not used by the engine) | fed with `ReserveUnique` operations |
| Foreign keys, `constraints/fk_resolution.rs` | the policy: tombstone, cascade or orphan | `validate_insert`, `enforce_on_delete` | planner and engine |
| Secondary indexes, `index/secondary_index.rs` | entries per index | `rebuild_from` | rebuilt by the engine after it changes tables |
| Planner, `sql/planner.rs` | none | turns a statement into operations stamped by the clock | reads the tables |
| Engine, `api/engine.rs` | clock, log, tables, claims, indexes | `execute`, `apply_op`, `sync_with`, `sync_from`, `rebuild_store` | owns all of the above |
| Parser and executor, `sql/parser.rs`, `sql/executor.rs` | none | parse, `SELECT` | - |
| Snapshots, `storage/snapshots.rs` | a hash of the tables | `compute_snapshot_hash` | - |
| Dashboard server, `bin/dashboard_server.rs` | a map of engines, each behind a mutex, online flags, chaos settings | REST handlers, scenarios, heartbeat | locks and synchronises engines |
| Daemon, `bin/daemon.rs` | one engine behind a mutex | HTTP handlers | - |

How it works.  A statement is planned against the local tables: each affected
row gets a timestamp from `tick` and one row operation, followed by one
`ReserveUnique` operation per UNIQUE value it writes, all under that timestamp.
The engine applies and logs the operations one after the other.  Two peers
synchronise by exchanging the operations whose timestamp the other does not
have; both then throw their tables away and rebuild them from their logs: CREATE
TABLE first, row operations in timestamp order, then claims, then null writes
for the losers of uniqueness conflicts, then cascading deletes, then the
indexes.  Beside this the crate offers two other ways to replicate, which the
engine does not take: deltas above a cursor, and merging whole states.

What makes it hard.  Convergence rests on the replay being a function of the
*set* of operations; the exchange rests on operations under one timestamp never
being separated; "last writer" rests on timestamps respecting causality, which
rests on the clocks observing what arrives; uniqueness without coordination
rests on an artificial write that has to land between real ones; the tables are
maintained twice, incrementally by `apply_op` and from scratch by
`rebuild_store`; and the server looks engines and flags up, waits, and acts on
what it found, while other requests partition, remove, add and reset peers.

What makes each part correct:

- clocks: timestamps are unique and extend happened-before;
- logs: every operation reaches everyone, groups stay whole, an exchange is a union;
- deltas: a cursor covers only what was received; what may be collected was
  received by everyone who acknowledged;
- tables: peers with equal logs have equal tables; deleted rows stay deleted
  unless inserted again; tables equal a replay of the log;
- states: a merged state is a function of the operations that went into it;
- uniqueness: after convergence one row holds a claimed value, the winner;
- foreign keys: with tombstones no row refers to something unknown, with
  cascades nothing visible refers to something deleted;
- indexes: they lose no row;
- dashboard: handlers always finish; synchronisations reach whom they say; an
  offline peer receives only what was let through; a reset leaves nothing behind.

## 2. Modules

| Module | Models |
|---|---|
| `Hlc` | timestamps, their order, `tick` and `observe` as functions of the clock and a wall reading |
| `HlcClock` | a set of clocks exchanging timestamps, with history variables for causality |
| `AntiEntropy` | logs as sets of operations, statements that log groups, `sync_with`, `sync_from` |
| `ReplicatedSet` | abstract: what an exchange promises |
| `DeltaSync` | logs as sequences with cursors, deltas over a network that loses, repeats and reorders them, `sync_peers` with its cursors, acknowledgements, digests |
| `OpLog` | logs as sequences: `append`, what an exchange by timestamps sends; sorting and filtering |
| `RowStore` | registers, row membership, tables, `RowStore::apply_op`, foreign-key checks, index contents |
| `Replay` | `Engine::rebuild_store` as an operator on a log: replay order, claims, null writes, cascades |
| `Engine` | the cluster: statements, synchronisation, recovery on top of `Hlc`, `RowStore` and `Replay` |
| `StateMerge` | `merge` of registers, membership, tables and version vectors, as operators |
| `UniqueMerge` | `UniqueIndex` with stored states and conflict log: `reserve`, `merge`, the election |
| `MergingReplicas` | replicas that change locally and merge each other's states, with the operations each contains as history |
| `DashboardLocks` | worker threads, mutexes, handlers as sequences of lock steps; deadlock, service |
| `DashboardHandlers` | every handler of the dashboard server as such a sequence |
| `DashboardServer` | the server: threads that run the handlers of the routes (composes the two) |
| `DashboardCluster` | the map of engines, the flags and the logs under the requests of the dashboard, with the waits between looking up and acting |
| `HlcClockProofs`, `AntiEntropyProofs`, `DeltaSyncProofs`, `EngineProofs`, `MergingReplicasProofs`, `DashboardLocksProofs`, `DashboardClusterProofs` | theorems about the module of that name |
| `OpLogProofs` | induction, runs of folds, and lemmas about the operators of `OpLog`, on which `DeltaSyncProofs`, `EngineProofs` and `DashboardLocksProofs` rest |
| `MC*` | instances for TLC |

`Engine` composes everything on the engine's path: it EXTENDS `Replay`, which
EXTENDS `RowStore` and `OpLog`, both on `Hlc`; `DeltaSync` is on the same `OpLog`.  The
engine's logs, their order forgotten, implement
`AntiEntropy` (`ImplementsAntiEntropy`), which implements `ReplicatedSet`
(`ImplementsReplicatedSet`).  `MergingReplicas` puts `StateMerge` and
`UniqueMerge` on the same `RowStore`: local changes are the engine's, replication
is not.  `DashboardCluster` takes over the exchange of `AntiEntropy`, with a
group of operations reduced to one operation, since groups are never split
(proved in `AntiEntropyProofs`).

Correspondence with the code:

- every method of `Engine` takes `&mut self` (or a mutex around the engine), so
  a statement, a synchronisation and a rebuild are one action each; an action
  contains everything the method does, the index rebuild and the log append
  included;
- peer identifiers, row identifiers and values are strings the code only
  compares, so they are numbers, ordered as the strings are.  `Arbiter` is the
  rank of `__uniqueness_arbiter__`: above the names of every cluster that
  synchronises (`P0`..`P3` in the dashboard, `A`, `B`, `C` in the tests), so the
  runs put it above all peers.  Lower-case names such as `peer_a` rank above it;
  `Arbiter` is a parameter and may be given either place;
- a statement reads the physical clock once in the model, and at every
  `tick` and `observe` in the code: within a statement the model's readings are
  equal;
- in `Replay` a `ReserveUnique` operation and the reservation made from it are
  one record; whether it is won or lost is computed (`Lost`), since every change
  of the claims re-runs the election for the value.  `UniqueMerge` stores the
  states, as the code does, because a merge brings states made elsewhere;
- tables are created before the first step, an index exists on every table.
  CREATE TABLE is an operation like any other: it has a timestamp of its own, is
  logged and exchanged, and is replayed before everything else, the oldest
  definition of a table winning.  A cluster whose peers create the same tables
  first, as all callers in the repository do, is in the state the models start in;
- UPDATE assigns one column, INSERT inserts one row, WHERE selects one key or
  everything;
- the dashboard's handlers are modelled twice.  `DashboardHandlers` has the order
  in which they take and drop mutexes, the guards of temporaries included:
  `lock!(a).sync_with(&mut lock!(b))` holds both to the end of the statement, an
  `if let` on a locked map holds it to the end of its block (edition 2021), an
  `if` condition drops it; all engines are online and in the map, and an early
  return takes a prefix.  `DashboardCluster` has what they read and change: a
  request is a record of what it has looked up, and a step for each stretch
  between two points at which others may come in.  A synchronisation of all peers
  is such: it keeps the map through a round, but takes and drops the flags for
  each flag it reads (`:254`, `:255`), so a look at one flag, a look at the other
  and the exchange are three steps, and a peer may be set offline between them;
- the physical clock is `SystemTime`, which may stall and be set back.  `HlcClock`
  and `DashboardCluster` let every reading be any value of a bounded range, in any
  order; `Engine` has clocks that advance by the same steps at every peer
  and a difference between peers, because what it says is about rows and skew;
- in `DashboardCluster` an engine is a pair of name and generation, because a
  request keeps the engine it holds alive when the map has a new one under the
  name.  An operation records which generation made it, which the code does not
  know: the exchange still compares timestamps only.

## 3. What the runs check

Passing runs:

| Run | Question | Bounds |
|---|---|---|
| `MCHlcClock` | Do timestamps respect causality and never repeat? | 2 peers, wall readings 0..2 in any order (stalls and steps back included), 5 timestamps |
| `MCAntiEntropy` | Does an exchange by timestamp fingerprints equal a set union, and does every operation reach peers its origin need not meet? | 3 peers, any pair may synchronise, the pairs of a line keep doing so; 3 operations, groups of two under one timestamp |
| `EngineSkewFree` | Does the engine show what its log says, for every interleaving of statements and exchanges? | 2 peers, 2 rows, 2 addresses, 3 statements of every kind, clocks in step |
| `EngineUnique` | Who holds a contested value after a rebuild, who does not, and who holds it unclaimed? | 2 peers a millisecond apart, a UNIQUE column and a composite key that shares it, NULL as a part of the key; 2 rows that contend for one address, alone and with either of 2 teams, 3 statements of every kind |
| `EngineForeignKeys` | Can a row be where its parent is unknown; what exactly do the cascades of a statement and of a rebuild remove; do the indexes keep up? | three tables in a chain, one key each, the middle reference may be NULL and is updated; 2 peers a millisecond apart, all four assignments of policies, 4 statements, insertion of deleted rows included |
| `MergingReplicas` | Is a merged state a function of the operations that went into it? | 3 replicas, 2 rows, one value they compete for, clocks that stall; 3 operations, any number of merges |
| `DeltaSync` | Do deltas, cursors, acknowledgements and digests tell the truth when deltas are lost, repeated and overtaken, and when exchanges by timestamp come in between? | 3 peers, deltas from the first to the others, any two exchange; 2 statements of one or two operations, buckets of 2 |
| `DashboardCluster` | What do synchronisations, reconnections and resets promise when requests overlap? | 3 peers, 2 generations of each, 2 statements, 3 requests of which 2 are served at a time, 2 values of the physical clock, read in any order |
| `DashboardServing` | Can the handlers that take the map of peers first block each other? | 2 threads, 2 engines, 2 requests out of all handlers |

Why the bounds are enough.  The ordering hazards are about two events: a
statement and a synchronisation, two claims, a delete and an insert.  Two peers
produce every order of two concurrent events and their exchange.  Two claims of
one value with a third statement after them give a winner, a loser and what
changes afterwards: a deletion of the winner, a claim on the other constraint, an
update.  Three tables are the shortest chain on which a cascade of one level and
one of any depth differ; one key in each is enough because the cascade looks at
each reference by itself, and four statements are a chain and its deletion.
Three replicas are the shortest relay, and what it takes to test associativity.
In `DeltaSync` two statements with two operations each reach past entry zero and
fill a second bucket, and with one at each peer the logs differ in their order.  `DashboardCluster` has three
requests: one that waits, one that changes the cluster meanwhile, one that puts
an operation where it matters; what depends on more than these is proved.
Two threads are enough for a cycle of two waits, and the discipline found
(`NestedUnderMap`) is proved to be enough for any number, and proved of the
handlers for any number of engines.

All bounds are constants: `MaxEvents`, `MaxOps`, `MaxTime`, `MaxStatements`,
`MaxRequests`, `MaxGeneration`, `LogicalRange`.  `MCDashboardCluster` adds the
constraint `TwoAtATime`: two requests are served at a time, one of them at most a
synchronisation of all peers, which is asked for once there is an operation.
Setting a peer offline, removals, additions and resets do not wait, so they come
in at every point of the two.  Peers are
interchangeable there (the module only compares them for equality), so the run
uses symmetry; it checks no liveness.  The runs that end when the statements are
used up say `CHECK_DEADLOCK FALSE`; in the others `NoDeadlock` or a fair
property stands for it.

What the properties of the engine say exactly.  The code does not do what one
would first write down, and the properties state what it does do, with every
exception spelled out, so that a change of the code that adds one is found:

- `WinnerHolds`: after a rebuild the row with the largest claim of a value holds
  it, unless it was deleted, written later, or lost another claim on the column.
  Two rows inserted under one key in the same millisecond count as rivals for
  the value both claim, and the null write of the smaller claim erases the value
  everywhere: that is one of the cases of the exception.  A deleted winner keeps
  its claim, so the value is then held by nobody.
- `LosersNulled`: after a rebuild a loser does not hold the value, unless it
  wrote the column later, or lost another value with an *earlier* claim whose
  null write comes *after* in the order of constraints and values, or what it
  lost is a composite key of NULLs, on which a null write changes nothing (the
  proof asked for this last exception: the run's addresses are never NULL, so it
  would not have found it).  The second exception is a defect of `MvRegister::write`: it drops every entry of the same
  peer, and all null writes carry the arbiter's name, so an older null replaces a
  newer one and the loser's own value is the largest entry again.
- `HoldersClaimed`: a row has a claimed value without a claim of its own only
  through an UPDATE, which claims nothing under a composite key, or a null write.
- `IndexShowsRows`: a cascading delete leaves the children it removes in the
  index of their table until the next rebuild; nothing else may differ.
- `CascadesAtOnce`: a delete removes the rows that refer to it at once, one level
  deep; the levels below stay visible until the next rebuild, whose result
  `CascadeExact` determines.
- `ParentsKnown` is about references made by INSERT: UPDATE validates nothing.
- `CascadeExact` also says what peers with one log and different policies differ
  in.  The dashboard creates such clusters: its first peers follow the tombstone
  policy, peers added later and all peers after a reset the cascade policy
  (`bin/dashboard_server.rs:56`, `:344`, `:375`).

Of the data paths the engine does not take:

- `CursorHonest`, `DeltasDeliver`, `SafeToCollect` except the entry with sequence
  number zero: a cursor that has seen nothing and one that has seen entry zero
  are both 0, and `since` asks for larger numbers, so no delta ever carries it.
- `GroupsSplitAtZero`: when entry zero has companions under its timestamp, a
  delta separates them, and the exchange by timestamp never repairs that: it
  takes the group for received.  Nothing else separates a group.
- `SafeToCollect` is about the peers that have acknowledged something: those that
  have not are left out of the minimum (`storage/compaction.rs:44`), so they
  are not waited for.
- `TombstonesKept` excepts rows that an insert has brought back: `merge` takes
  the larger tombstone although one side has cleared it.
- The conflict log of `UniqueMerge` is a set; in the code it is a vector that
  gets a record for every loser each time a value is merged, changed or not.

`StampsReusedOnReplacement` says when a peer that was removed and added again, or
reset, can reuse a timestamp of its predecessor, which makes one of the two
operations vanish in an exchange: only if the predecessor, kept alive by a
request, executed after it was replaced, or if the physical clock showed the new
engine a time its predecessor had reached when it was replaced.  The latter
happens whenever the clock stalls or is set back, with no overlap at all: the new
engine's clock starts at zero and only physical time keeps the two apart.

`OfflineReceives` says what an offline peer may still receive.  The repository's
README says of a peer set offline that "it will stop receiving sync updates"
(`src/README.md:69`), and taken literally that does not hold.  A `sync_pair` that
read the flags before its delay goes on, a scenario keeps the engines it chose, a
synchronisation of all peers exchanges the pair whose flags it has just read, and
`sync_peer_by_id` and `bootstrap_peer` do not ask whether their own peer is
online.  The property names each of these and shows that there is no other; in
particular, a synchronisation of all peers reaches an offline peer at most in the
pair it is at, and only if the peer was online at some time since it came to that
pair.

`EngineSkewFree` sets `SyncTime = 1`: an exchange takes a millisecond and all
physical clocks agree, so whatever follows it is stamped later.  Under that
assumption deleted rows stay deleted; `ResurrectedRow` shows that some such
assumption is needed, because the engine never lets its clock observe what it
received.  That the clocks be less than an exchange apart is enough (section 4).

Fairness.  Three properties need it.  `Delivery` assumes that the pairs of a
connected line keep being synchronised (`WF` on each pair's `Sync`): the engine
never synchronises on its own, its callers do, so this is an assumption about the
dashboard's *Sync All* and the rounds of the test harness.  `DeltasDeliver`
assumes that a receiver keeps asking (`WF` on `SendDelta`) and that not all of the
deltas that would tell it something are lost (`WF` on `Progress`): the module
comment of `sync/anti_entropy.rs` leaves retrying to the caller, and no retrying
helps on a link that delivers nothing.  `Served` assumes that a thread that can
run does (`WF` on each worker's lock steps).  A mutex of the standard library may
let one thread overtake another again and again; with at most `MaxRequests`
requests that cannot go on for ever, so the run shows that handlers finish, not
that an endless stream of requests cannot starve one.

Runs that find a violation, each of a sentence in the repository:

| Run | Violated | What happens |
|---|---|---|
| `ResurrectedRow` | `DeletedStaysDeleted` | a peer deletes a row it has just received; its clock lags, so the delete is stamped before the insert and the next rebuild shows the row again |
| `DuplicateAfterUpdate` | `UniqueHolds` | a row claims a value, loses it, claims it again by UPDATE: `reserve` drops the second claim and two rows keep the value |
| `ScenariosAndHeartbeat` | `NoDeadlock` | scenarios lock the flags before the map, the heartbeat after it |

Two more handlers deadlock: `get_peers` locks the map of peers twice and never
returns (`bin/dashboard_server.rs:136`; `PeersEndpoint` in `MCDashboardLocks`, as
a value of `Program`), and `bootstrap_peer` locks the source engine and then the
target without the map, against a `sync_pair` of the two in the other order
(`BootstrapAndSync`).  Both are left out of `DashboardServing`, and nothing in the
repository says in words that they must return.

`PROJECT.json` quotes the sentences, and lists for every property of a passing
run a change of the code (a dropped guard, another order) that violates it.

## 4. What is proved

TLAPS checks these for every value of the constants.

- `HlcClockProofs`: `ClockInvariant`, `ClocksPreserveCausality`,
  `StampsAreFresh`.  `ClockInv` says that a clock is at or past everything that
  happened at its peer and that every timestamp's causes are smaller.  Causality
  alone is not inductive: that a new timestamp is larger than its causes needs to
  know where the clock stands relative to them.
- `AntiEntropyProofs`: `LogInvariant`, `Refinement`.  The exchange compares
  timestamps, the promise is about operations.  The two agree when one timestamp
  stands for the same operations everywhere (`GroupsWhole`), which a statement
  keeps because its timestamp is new: every operation is in its origin's log
  (`Origin`), whose clock has passed it (`Floor`).  Each step then maps to a step
  of `ReplicatedSet` or to a stutter.
- `DashboardLocksProofs`: `GatedNeverDeadlocks`, `NestedUnderMapAlways`,
  `ServerNeverDeadlocks`.  If every handler that takes a
  mutex while holding one holds the gate and not the mutex itself, no set of
  threads waits for each other: a waiting thread that holds something holds the
  gate, which has one holder (`HoldersInvariant`), so the thread it waits for is
  the holder of the gate and that one would wait for itself.  The invariant ties
  what a thread holds to how far it is in its handler (`HeldAfter`).  That
  the handlers of the server are such is proved for any engines, in any order of
  the map, by the parts a handler is put together from (`HandlersGated`): `Nested`
  says of a sequence of lock steps that, run while some mutexes are held, it drops
  all it takes, takes none of those nor one twice, and nests only under the map of
  peers.  Sequences one after the other (`NestedConcat`), one run under a mutex of
  its own (`NestedHold`) and a loop over engines (`WithinFlatten`) keep that, and a
  loop over pairs takes two different engines because the map has each once.  The
  handlers of the violations above are left out, and are the ones that break it.
- `DeltaSyncProofs`: `CursorsHonest`, `GroupsSplit`, `SafeToCollectAlways`,
  `DiffCovers`, from the inductive invariant `IInv`.  A cursor is a number, what
  it promises is a set of operations; the invariant says for cursors,
  acknowledgements and the deltas under way alike that every operation a peer
  made itself and numbered at or below the number has been received, entry zero
  excepted, and that nobody holds an operation its origin lacks.
- `EngineProofs`, the logs: `LogInvariance`, `LogsWhole`, `LogsImplement`,
  `ReplayDeterministic`.  `LogInv` says of sequences what `LogInvariant` says of
  sets, and that two operations with one timestamp and one place in the replay
  order are the same (`NoTies`).  It follows from how a statement is planned: one
  timestamp per row, one row operation and at most one reservation per
  constraint under it.  Hence forgetting the order of the logs maps every step to
  one of `AntiEntropy` or to a stutter, and the replay order of a log is a strict
  order of its operations, of which a set has only one: peers with equal sets of
  operations replay one sequence.
- `EngineProofs`, the tables: `TypeCorrect`, `IndexesComplete`, from `StoreInv`.
  Statements change the table they name and, through a cascade, remove rows
  elsewhere (`Local`): that is all an index, refreshed by table name, can miss.
  A rebuild yields tables and claims that fit its log (`RebuildFacts`), whatever
  the log.
- `EngineProofs`, foreign keys: `CascadesExact`, `CascadesImmediate`,
  `ParentsExist`.  Each pass of a cascade but the last hides a row, so as many
  passes as there are rows in all tables end where nothing is left to cascade to
  (`Settled`).  Rows only disappear and cells stay (`Fades`), so what one delete of
  a statement has hidden stays hidden through the next.  For `ParentsExist` the
  invariant `ParentInv` relates tables to logs: every token of a row and every
  entry of a register stems from an operation its peer has or from a null write,
  and a row somebody inserted exists, if only as a tombstone (`Backed`); every
  insert refers to rows inserted in the same log, and every delete leaves a
  tombstone (`Known`).  A statement keeps it because its timestamps are new
  (`Floor`), so no delete has already removed the token of a later insert; a
  replay keeps it because no two operations tie (`NoTies`), whatever order
  inserts and deletes of one row come in.
- `EngineProofs`, uniqueness: `ClaimsPaired`, `WinnersHold`, `LosersLose`,
  `HoldersClaim`.  The invariant `PairedInv` says that a claim never reaches a log
  without the write it is for, nor an insert without all its claims: statements
  plan them together, and an exchange never separates what has one timestamp.
  The rest is about a rebuild, as a function of a log without ties.  Each register
  of a visible row is left with writes of the log and null writes for lost claims,
  of both with the last ones in their orders (`Tells`): the order of the row
  operations is that of their timestamps, the order of the null writes is
  `NullOrder`, total because claims do not tie (`NullOrders`), and an older null
  write may replace a newer one, but never a write of a statement
  (`Overwritten`).  A claim that `reserve` drops is stood for by one of the same
  row on the same value (`StandsFor`).  What a register reads is then its largest
  entry (`Reads`): at the winner the write it claimed with, at a loser its null
  write or one after it, at a holder the row's last insert, which claims.
- `EngineProofs`, rows as views of logs: `StampsInTime`, `RowsRecalled`,
  `RowsAreViews`, `DeletesStay`. `StampsInTime` holds for every skew: no peer
  stamps ahead of its own physical clock, and an operation of another peer is at
  least `SyncTime` old by the clock of that peer. Hence, if no two physical
  clocks are as far apart as an exchange takes (`CloseClocks`), a statement is
  stamped later than all its peer has logged, although the engine never observes
  what it receives; without that hypothesis the conclusions are false
  (`ResurrectedRow`). Applying the statement is then replaying it last.
  `RecallInv` says what tables reached in either way have in common: the tokens
  of a row are the inserts of the log, and a token is removed when a later
  delete is logged (`Recounts`). So a row is visible when some insert of it has
  no later delete (`Stands`), in the tables as in a rebuild; and as logs only
  grow, what a delete has undone stays undone. The two theorems about rows leave
  the cascade policy out, because it makes both false even for one peer: the
  cascade of a statement goes by the references at that moment, the cascade of a
  rebuild by those the whole log leaves. A child that is made to refer to a
  deleted row stays until the next rebuild, and a child that was cascaded comes
  back with the next rebuild once its parent is inserted again (TLC finds both
  in four statements; what cascades do remove is `CascadeExact` and
  `CascadesAtOnce`).
- `MergingReplicasProofs`, the operators: `MergeCellIsJoin`, `MergeEntryIsJoin`, `VvMergeIsJoin`, the
  laws of the merges for all states.  A register forgets what a later write of the
  same peer dominates, so associativity needs that forgetting early changes
  nothing (`MergeForgets`), which holds when every entry is at or below one that
  survives (`Covered`); union keeps that (`UnionCovered`).
- `MergingReplicasProofs`, tables: `MergedCellsAreLatest`, `MergedRowsAddWins`,
  `MergedTombstonesKept`: a replica's cells, rows and tombstones are the functions
  of its operations the properties state.  The invariant `ReplicaInv` adds to them
  the shape of the tables, that a clock has passed every timestamp made under its
  name (`Passed`: a local write drops its peer's entries unseen, which is right
  only because the new one is larger), and that the writes to a cell are covered by
  last ones (`WritesCovered`: merging what is left must give what is left of
  everything).
- `MergingReplicasProofs`, version vectors: `VectorsCompareStates`, `ReachedStatesJoin`.  A version
  vector is a maximum per peer, a state is a set; the two orders agree because a
  replica never has an operation without every earlier one of the same peer
  (`NoGaps`).  That survives a merge since a replica has its own operations all
  (`OwnSeen`) and each entry of the vector is the timestamp of an operation it has
  (`Reached`).  The laws of the merge for reachable replicas then follow from the
  laws of its parts.
- `MergingReplicasProofs`, claims: `EveryValueOneOwner`, `NoLoserDropped`, `SameReservations`.
  `Settled` says that the claim standing at a replica is the one an election
  among all reservations it has would choose, whatever the order of the merges,
  and `Logged` that the conflict log names the others.  Two replicas could still
  settle one value differently if they disagreed on when a row reserved it: a
  second reservation of a row by the same owner is dropped.  `Reserved` says that
  it is always the first that counts, and as replicas have no gaps, the first is
  the same at both (`Agree`).
- `DashboardClusterProofs`: `NothingOutlivesReset`,
  `OfflineReceivesWhatWasLetThrough`, `StampsReusedOnlyOnReplacement`.  None is
  inductive, because the requests
  being served decide what happens next.  `ClusterInv` says that the engines in
  the map were opened since the last reset (`MapCurrent`), that an engine's log
  holds only operations of engines opened between the same two resets
  (`LogsKin`), and what each kind of request may still touch (`Requests`): the
  engines it holds are of one such period, a round of a synchronisation is on its
  pairs, and a sweep that holds the mutexes finds the peers it chose mapped and
  online, because whatever would change that waits for those mutexes.  `SeenInv`
  says that a request has noticed what it is going to rely on: the flags a round
  has passed at its pair are of peers it has seen online.  `DatesInv` orders what
  the engines of one name do by their clocks, not by physical time: what an engine
  executed is at or below its clock, wherever it has been sent, no two of its
  operations have one timestamp, and what it executed before it was replaced is at or below
  the clock it had then, which its successors remember (`birth`).
  `SyncAllReachesAll` and `SweepReachesAll`: `ReachInv` says how far each
  synchronisation has come, which pairs of its peers have met (`Visited`), that the
  peers that stayed have a turn in the round, whatever order the hash map yields
  (`Placed`), and that they are still mapped and online (`Steadfast`).  What was
  reached is not undone, because logs only grow (`Grown`) and what replaces an
  engine needs the mutex a round holds.

Induction.  The provers cannot instantiate an induction theorem, whose parameter
is an operator, but they do reason about sets: a non-empty set of natural numbers
has a least element (`LeastNat`, from the definition of the naturals in the
library), hence a set that contains 0 and the successor of each of its elements
below n contains all up to n (`Induction`).  A fold or a recursive function is
then shown to go through a run, a sequence of values each made from the one before
(`FoldIsRun`, `EquationIsRun`), and a set that a step does not leave contains
the whole run (`RunStays`).  `Sorted` and `Picked` are written that way in `OpLog`
because `SortSeq` and `SelectSeq` have no definition a proof could use.

The assumptions are the named ASSUMEs of the modules: that peers, rows, values and
physical times are natural numbers where they are compared, that tables and rows
are finitely many, that constraints and foreign keys name columns of their
tables and a constraint that is not composite names one, that the identifiers
foreign keys may name are among the rows, that the arbiter's rank is no peer's, that in `MergingReplicas` every table has a column besides its key (an
insert writes the value it reserves into one), that handlers drop their guards,
that there are finitely many peer names and at least one and a bound on the readings of their clocks, that the mutexes of the
engines, the map and the flags are different ones.

`NestedUnderMapAlways` and `ServerNeverDeadlocks` are about threads that run these
handlers (`Lock = Locks`, `Program \subseteq GatedPrograms`).  `RowsRecalled`,
`RowsAreViews` and `DeletesStay` state their hypotheses, close
clocks and, for the last two, no cascade policy; `EngineSkewFree` is an instance
of them.

Only model-checked: `Delivery`, `DeltasDeliver` and `Served` (liveness under fairness is out of the
prover's reach, as is ENABLED).  All other properties of passing runs are theorems.

## 5. What is not modelled

- Parsing and SELECT: functions of text and of the tables; no state changes.
- CREATE TABLE as a step: statements on a table the peer has not heard of, and
  peers that define one table differently.  Several rows per INSERT, NOT NULL,
  placeholders.
- Concurrent use of one clock by several threads: no part of the repository
  shares an engine without a mutex.  Overflow of the logical counter (2^32 ticks
  in one stalled millisecond).
- Incremental index updates (`update_row`), which nothing calls; range scans;
  an index created after its table has rows.
- In `DashboardCluster`: the storm, chaos and offline scenarios (loops of the
  steps of `Scenario`, with flags set and restored), and the messages to browsers.
  Their lock order is in `DashboardHandlers`.  An engine is looked at as its log:
  what its tables then show is the subject of `Engine`.
- A request that names one engine twice (synchronise or bootstrap a peer with
  itself): it locks one mutex twice and never returns; the runs take pairs of
  different engines.
- The daemon (one engine behind one mutex), snapshots (hashes stand for the
  tables), `compact_before` (a stub) and checkpoints, the hash chain of the log
  (written and read only by a test), the test drivers and benchmarks.

## 6. Plan

Done: clocks, both kinds of anti-entropy, the engine, the state-based merges, the
mutexes and the data of the dashboard, with the theorems above.  What is left, in
the order of what it would add:

1. `Engine` with CREATE TABLE as a statement: two definitions of one table, and
   the local one in force until a rebuild replaces it with the oldest.
2. `DashboardCluster` with the scenarios that change the flags themselves.
3. Indexes created late and updated incrementally.
