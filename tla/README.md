# Verification of the distributed synchronization system

TLA+ models of the program under `src/`: a cluster of Python nodes that offers a
replicated lock service, a message queue, a coherent cache and geo-replicated
data. The modules here are read from the code; the configurations check them
with TLC on small instances, and the `*Proofs` modules hold theorems proved with
TLAPS. Paths below are relative to `src/src/`; `raft.py` is `consensus/raft.py`
and so on.

## 1. Inventory

| part | code | state | operations | modelled |
|---|---|---|---|---|
| Raft consensus | `consensus/raft.py` | role, term, vote, leader, log, commit and apply index, next/match index per peer, futures of waiting proposals | election timer, vote request, AppendEntries and its answer, heartbeat loop, `propose` | `Raft`, `ReplicatedLog` |
| Lock manager | `nodes/lock_manager.py` | table of locks (type, holders, queue, fencing token, lease), wait-for graph | committed acquire and release, lease sweep, HTTP handlers | `LockTable`, `LockManager` (one replica), `LockReplication` (several) |
| Deadlock detector | same file | wait-for graph | add and remove edges, `detect_cycles` | edges in `LockTable`, the search in `DeadlockSearch` |
| Message passing | `communication/message_passing.py` | HTTP session | `send` with 1 or 3 attempts, `broadcast` | the networks of `Raft`, `Queue`, `Cache`, `Replicator`, `UnifiedQueue` |
| Queue node | `nodes/queue_node.py` | messages and their states, list of pending ids, Redis copies | enqueue and replication, dequeue, acknowledge, processing timeout, recovery | `Queue` |
| Hash ring | same file | virtual nodes, sorted points | add, remove, two lookups | `HashRing` |
| Cache node | `nodes/cache_node.py` | lines (value, M/E/S/I) in LRU order | read, write, invalidate, remote read, update, eviction | `Cache` |
| Geo replicator | `geo/replicator.py` | entry per key with vector clock, timestamp and status; own clock; pending list | write, delayed delivery with retries, conflict resolution, cleaning loop | `Replicator` |
| Failure detector | `communication/failure_detector.py` | last heartbeat and status per peer | heartbeat, monitor loop, callbacks | `FailureDetector`, with the heartbeat loop that feeds it |
| Audit logger | `security/audit_logger.py` | hash chain in memory and in a file | log, load, verify | `AuditLog` |
| Unified node | `main.py` | all of the above, with simpler handlers of its own | HTTP and RPC handlers | its locks in `UnifiedLocks`, its queue in `UnifiedQueue`, its cache in `Cache`, its heartbeats in `FailureDetector`; Raft, replicator, ring and audit log are used as they are |
| Base node | `nodes/base_node.py` | HTTP server, heartbeat sender | lifecycle, heartbeat loop | heartbeat loop in `FailureDetector` |
| Regions, latency router | `geo/region_manager.py`, `geo/latency_router.py` | registration table | simulated delay, sort by latency | no: a delay is what the network of `Replicator` has anyway |
| Access control, TLS | `security/rbac.py`, `security/tls_manager.py` | roles, tokens, certificate files | per-request checks, file creation | no: no state several steps change; file I/O |
| Metrics, configuration | `utils/` | counters, settings | – | no: nothing reads the counters back; settings are constants |

**How they interact.** Every node is one process with one asyncio event loop: a
handler runs alone until an `await` that really suspends. Nodes talk by HTTP
requests to `/rpc`; an answer is the response of that request, and `send` has a
timeout of 5 s. Raft calls the lock manager through `on_commit`; a lock handler
calls `propose` and resumes when its future is set. The lease sweep, the
monitor loops and the replication loop are tasks of their own. Containers are
restarted by themselves (`restart` in the compose file) and Raft, locks, cache
and geo data are only in memory; the queue has a copy in Redis, the audit log a
file.

**What is hard about it.** Elections and AppendEntries cross on the wire, and
several AppendEntries to one follower are under way at once, from independent
tasks; an election resumes after its broadcast in a state that other messages
may have changed; a proposal is found again by its log index; a restarted node
has forgotten its vote; leases run out on each replica's own clock, between
commands of the shared log; a retried request may arrive twice, and after what it
created was completed; writes to Redis land in another order than they were
made; loops and handlers hold on to message objects that were replaced
meanwhile; cache reads store a line after an `await` that an invalidation may have
crossed; a heartbeat loop waits for hanging peers one after the other. `PROJECT.json`
lists each of these at its line, with the property about it.

**What makes each part correct.**

- *Raft*: a leader has a quorum of votes of its term; a term has one leader;
  logs match; a leader only appends; what is committed is on a quorum; callbacks
  see one sequence of commands on all nodes; `propose` tells the truth;
  commands are learned in the end.
- *Lock manager*: exclusion; no free lock with a queue; a token names one
  tenure; reported deadlocks are real; queues drain when holders vanish; the
  replicas agree on who holds what (they do not).
- *Deadlock search*: reports only cycles, and for every client in a cycle one
  among the clients that wait for each other with it; all cycles (it does not).
- *Unified node's locks*: a client keeps its lock or its place until it releases; two
  that were told "acquired" share the lock (they need not).
- *Queue*: what is pending is queued; deliveries are bounded; what was answered
  survives restarts; every message is completed or a dead letter in the end.
- *Cache*: after a write that was alone and heard by all there is one value, and
  it is not lost but by evictions, invalidations and restarts; the size stays within the limit.
- *Geo*: replicas that heard the same writes agree; a causally later value is
  never replaced by an earlier one; a node's clock covers what it stores.
- *Failure detector*: a silent peer is declared dead, a running one is not, and
  is suspected only because another hung.
- *Audit log*: in a chain that verifies, what lies before a genuine entry is genuine; a file
  nobody changed gives back what was logged until a write failed; numbers are not given
  twice in one chain.
- *Hash ring*: owner and replicas of a key fit together; keys move only when
  they must.

## 2. Modules, and what they stand for

### Raft (`Raft.tla`)

Each variable is an attribute of `RaftConsensus` (`state`, `currentTerm`,
`votedFor`, `leaderId`, `log`, `commitIndex`, `nextIndex`, `matchIndex`,
`pending` = `_pending_requests`). `applied` is what the `on_commit` callbacks
were given; its length is `last_applied`. `calls` are the `propose` coroutines
that still wait, `election` is the `_start_election` coroutine that waits for
its broadcast, `net` the requests and answers on the wire, `life` how often a
node was restarted. `grants`, `accepted`, `elected`, `acked` and `proposed`
record the past for the properties.

| action | code |
|---|---|
| `StartElection`, `FinishElection` | `_election_timer_loop` and `_start_election` up to the broadcast, and after it with `_become_leader` |
| `HandleVoteRequest` | head of `handle_message`, `_handle_vote_request` |
| `ReceiveVote`, `VoteTimeout` | `broadcast` collects an answer, or gives up on one |
| `Heartbeat`, `Propose` | `_heartbeat_loop`, `propose`; both with `_replicate_entries` |
| `RefuseAppend`, `HandleAppend` | head of `handle_message`, `_handle_append_entries`, with `_apply_committed` |
| `StepDown`, `AppendSucceeded`, `AppendFailed` | `_process_ae_resp`, with `_try_advance_commit` and `_apply_committed` |
| `ProposeTimeout` | the 5 s of `propose` |
| `Lose`, `Restart` | a request or answer is lost; a container is killed and started again |

The network is a bag, because heartbeats repeat the same request. Messages are
delayed and reordered at will and lost, and are handled at most once: Raft
sends with `retry=False`. An answer travels on the connection of its request, so
it is dropped when the asker was restarted or stopped waiting. Timers may
fire at any moment: randomised timeouts and elapsed time are left out, which
only adds behaviours.

`ReplicatedLog.tla` is what the lock service needs of Raft, with no terms and no
messages: one sequence of commands that only grows, each running node given a
prefix of it, callers told True only of commands their node was given.
`ImplementsReplicatedLog` maps `chosen` to the longest list any node's callbacks
got, `learned` to these lists, `told` to the acknowledged commands.

### Locks (`LockTable.tla`, `LockManager.tla`)

`LockTable` has the data and what each operation makes of it: granting, joining
a shared lock, queueing, releasing with the promotion of a batch, expiring, and
the edges of the wait-for graph. It has no variables, so that `LockManager`, one
replica in full on the node that leads, and `LockReplication` use the same operators.

| action | code |
|---|---|
| `Grant`, `Join`, `Enqueue` | `_apply_lock_command` with `_do_acquire`, by branch |
| `Release` | `_apply_lock_command` with `_do_release` |
| `Reply` | `_handle_acquire` after `propose` returned |
| `Tick`, `Sweep` | time passes; one pass of `_lease_expiry_loop` |

Data kept small: a lock nobody has named is one with token 0; a lease is the
time it has still to run instead of an absolute expiry. Commands come one at a
time and in any order, which is what `ReplicatedLog` promises; clients may
acquire again what they hold and release what they do not.

`LockReplication` is one lock on several nodes. Each applies a prefix of one
committed log (what `ReplicatedLog` promises) and sweeps by itself; leadership may
move at any time; `_handle_acquire` answers from the table of the node it runs on.
Leases run at the same speed everywhere, and handlers resume before time passes:
what goes wrong goes wrong without clock skew and without slow handlers.

### Deadlock search (`DeadlockSearch.tla`)

`detect_cycles` as a stack machine: `path` is `path` and `rec_stack`, `todo` the rest
of each loop over neighbours. `Start`, `Follow` and `Leave` are the outer loop, the
inner loop, and the return. The graph is any graph on the clients (a client may be
no key), keys and neighbours come in any order, as sets and dicts may give them.

### Queue (`Queue.tla`) and hash ring (`HashRing.tla`)

`messages`, `pending` and `redis` are `self.messages`, `self.pending_queue` and the node's
keys in Redis. A handler runs to its await in one step; `writes` are the
`_persist_message` calls under way, and what happens behind the await is `Written` or
`WriteFails`, in any order. `scan` is what a pass of `_processing_timeout_loop` has
still to look at. Coroutines hold references to message *objects*: `Keeping` gives
whoever still has an object that is replaced a copy of it, as Python does.
`sends` are copies under way with the attempts left.

| action | code |
|---|---|
| `Enqueue`, `Dequeue`, `Ack` | the handlers up to `_persist_message` |
| `Written`, `WriteFails` | the write ends; `_handle_enqueue` goes on to replicate |
| `HandleCopy`, `LoseCopy` | `_replicate_enqueue`, `send(retry=True)` |
| `BeginPass`, `ContinuePass` | a pass of `_processing_timeout_loop`, message by message |
| `Restart`, `Load`, `RecoveryEnds` | the process is killed; `_recover_from_redis`, key by key, with the handlers already serving |

`credit` and `promised` record the past. When a message has been processed for too
long is not counted in seconds: a pass may find any processing message late, but
not one that was taken off the queue after the pass read the clock.

`HashRing` has `add_node`, `remove_node` and both lookups as written; a hash is a small
number, and all placements of the virtual nodes without collisions are tried.

### Cache (`Cache.tla`)

`lines` is the `OrderedDict`, least recently used first. A read miss, a write and an
invalidation are coroutines in `ops` that wait for a broadcast: `Hear` is the request
handled at a peer, `TimeOut` the sender giving up on an answer, `End...` what runs
behind the await. Requests still under way then are in `late`. One module covers the
two programs, `CacheNode` and `DistributedNode`, which differ in whose answer a read takes
and when an invalidation reaches one's own line. `EXCLUSIVE` is never assigned and
`CACHE_UPDATE` never sent by the code, so neither occurs; what `main.py` hands to the geo
replicator after a put is the `Write` of `Replicator`.

`Restart`: a container is killed and started again. Its lines are gone, with them the coroutines
of its clients wherever they were, while the requests they sent are still handled at peers. So a
writer may die between its broadcast and its `put`: the copies are invalidated and the new value is nowhere.
`kept` records such losses, and `LastWriteKept` says that there are no others.

### Geo replicator (`Replicator.tla`)

`store`, `clock` and `sends` are `data_store`, `vector_clock` and the `_send_with_latency` tasks.
A copy is handled at any time, once more if its answer was lost, or never: a copy that is
never handled is one that stays in `sends`. Times are
readings of the writers' own clocks, in no order. `_replication_loop` drops entries that
are no longer PENDING; `StatusTells` says that there are none. That is what the code does, not
what its comments promise (section 3).

### Failure detector (`FailureDetector.tla`) and audit log (`AuditLog.tla`)

Time goes by in whole seconds; `age` is the time since the last heartbeat. `turn` and
`wait` are where `_heartbeat_loop` is; it asks one peer after the other. A peer
runs, is down (refuses at once) or hangs (costs the loop the timeout of `send`). `Monitor` is a
pass of `_monitor_loop`, once a second at any point in it.

`AuditLog` has the chain, the sequence and the file. A write may fail and be swallowed, or
be torn, which leaves a line without an end that the next one is appended to. What an entry
says is the number of the call that made it, and a hash *is* what was hashed: `Hash` appends the
entry's content to `prev`, so that different chains have different hashes and anybody can compute
one. `Made` is the constructor, which gives an entry without a hash a fresh one. `Alter` changes
what a line says, what it points at, or neither, and leaves its own hash, removes it or makes it fit;
`Cut` takes the last line away. `sound` and `genuine` record the past: the entries logged before a
write failed, and those logged behind genuine ones.

### The unified node (`UnifiedLocks.tla`, `UnifiedQueue.tla`)

The handlers of `DistributedNode` that differ from those of the separate nodes: locks
without promotion, leases and edges, whose acquire answers "acquired" once the command was
applied, whatever came of it (`told` records who was told so and has not released since); a queue without Redis and without timeouts, at the node that was asked and
at one it copies to.

### Composition

`MCNode` makes one specification of the seven parts that share no state (detector, audit log, search,
ring, unified locks, unified queue, geo replicator): one of them moves
in a behaviour. That is a way to check them together, not a claim about interaction.
What does interact is composed by what is promised: the log of `Raft`
(`ImplementsReplicatedLog`) is the log that `LockManager` and `LockReplication` apply, the edges of
`LockTable` are what `DeadlockSearch` searches.

## 3. Runs

| run | question | bounds |
|---|---|---|
| `raft_leaders` | Who can be elected, and what must have happened for two leaders of one term? Under one leader, is it a replicated log for the callbacks and the callers, with reordered AppendEntries? | 3 nodes; either two candidates in each of two terms, one restart of the third, no commands, requests dropped at will, or one leader, 2 commands, 3 messages |
| `raft_logs` | Do logs match and do leaders only append across a change of leader? | 3 nodes, leaders of terms 1 and 2, 2 commands, 2 messages on the wire when a broadcast is sent |
| `raft_recovery` | Is it one when a follower restarts empty, and does everyone learn in the end? | 2 nodes, one leader, one restart, 2 commands, 2 messages |
| `raft_split` | Can a term have two leaders? (yes) | 3 nodes, two candidates, one term |
| `raft_truncate` | Is what is committed on a quorum? (no) | 3 nodes, one leader, 2 commands |
| `lock_manager` | Exclusion, hand-over, edges and tokens on one replica; do queues empty when holders vanish? | 3 clients, 2 resources, 4 commands, leases of 0 |
| `lock_replicas` | Does a token name one holder on all replicas? (no) | 2 nodes, 3 clients, 3 commands, leases of 0 |
| `queue` | Is every message delivered until it is settled, boundedly often, through timeouts, copies and restarts? | 2 nodes; one message and a restart of the node the consumers use, or two messages and none; 2 deliveries, 2 attempts, 1 acknowledgement, 1 and 2 writes at once |
| `cache` | What does MESI still promise? | both programs; 3 nodes with 1 key, or 2 nodes with 2 keys and one restart; 3 operations, 2 at once; room for 1 line |
| `node_parts` | The parts of a node that share no state: is a running peer blamed, what is a verdict on the audit log worth, is a deadlock found, do owners and replicas fit, do replicas converge? | 2 peers and limits about half those of `main.py`; 4 audit entries, 2 restarts, 2 changes to the file; all graphs of 3 clients; 3 nodes with 2 virtual nodes each; 4 lock commands of 3 clients; 2 messages, 3 attempts; geo: 3 sites, 1 key, 3 writes at any of 3 times, one copy handled twice, one restart with 2 writes |
| `unified_locks` | Does "acquired" mean to have the lock? (no) | 2 clients, 2 acquires |
| `deadlock_cycles` | Are all cycles reported? (no) | all graphs of 3 clients |

Why these bounds: three nodes are the smallest cluster where quorums differ, and
the size the compose file starts. Two terms let an old leader meet a new one.
Two commands let an AppendEntries be older than another; three messages let one
of them overtake. `raft_leaders` (`MCRaftLeaders`) is two instances in one run: `bounds`, chosen at the start, says
which, and `WithinBounds` keeps the steps of `Spec` within it. `MaxInFlight` bounds the *sending* of a broadcast only; elections and
answers are never blocked.

Three clients make a holder and two waiters, so a batch of
promoted readers with somebody left behind, and two resources make cycles of
waits; four commands fill a queue and release it. A lease of length 0 is over at
the next tick, so a sweep may come at any point between commands; longer ones would
only postpone it. `lock_manager` has no symmetry, which is unsound for liveness.

In `queue`, the second node is the one that gets copies, has clients and consumers of its own and is
restarted; the first one takes messages and passes copies on. A message with two
deliveries times out once and is queued again, and the second time is a dead letter; two writes at
once are enough for a late one to land behind a newer one; two messages are
enough for the timeout loop to wait at one while something happens to the other. What
Redis holds at a node that no recovery will run at any more is not tracked, because only
recovery reads it. In `cache`, one line makes every write of another key an eviction, three
nodes let a read find two copies, and a third operation sees what two that overlap left
behind; a restart goes with two nodes, one that dies and one that its requests still reach. In the geo
part of `node_parts`, three writes are a chain of conflicts at three nodes, and three times
allow each order. Four audit entries and two changes let somebody alter an entry behind which others were
logged, make its hash fit and change the next one too, with one more behind it. The detector keeps the proportions that matter
(a round of the heartbeat loop with all other peers hanging fits in `dead_timeout`), and
three clients have all kinds of graphs with cycles that share a client.

The systems stop when the bounds are used up, so deadlock is not checked.

`raft_logs` assumes that no term had two leaders and nobody restarted, in the
property itself: with either, logs may disagree (that is what `raft_split`
leads to). `AckedIsApplied` is checked under one leader. With a second leader
whose entry is applied at the same index, the future found by that index is set
for another command; the property says so. `Coherent` and `LastWriteKept` are about the time since a
write that ran alone and was heard by every peer; `SameWritesSameValue` and `NeverOlder` about
writers whose clocks are good (`GoodTimes`) and nodes that were not restarted: without these the code
promises nothing, as the hazards in `PROJECT.json` tell.

### What the code does otherwise than it says

1. **Two leaders in one term** (`raft_split`). `_handle_append_entries` sets
   `voted_for = None` for an AppendEntries of the node's own term as well
   (`raft.py:265`). A node votes for A, A wins, its heartbeat clears the vote, and
   the slower candidate B of the same term gets the vote too. The docstring of the
   module promises safety guarantees (`raft.py:3`), the architecture document
   one leader by majority. `SplitTermExplained` shows that this and a restart are
   the *only* ways.
2. **Commits that no quorum holds** (`raft_truncate`). A request carries the
   whole suffix after `prev_log_index`, and the follower cuts its log there
   without comparing (`raft.py:279`). An older request that arrives after a newer one
   was acknowledged removes entries the leader counts as replicated.
3. **Two holders with one token** (`lock_replicas`). `_lease_expiry_loop` releases locks on
   every replica by itself (`lock_manager.py:198`), outside the log. A replica that learns
   commands later sweeps at other points between them, counts other tokens and promotes
   other clients; when it leads, it gives the lock to a second client with the
   token of the first. The header of the module builds it "on top of Raft consensus for
   replication", and the architecture document names Raft for replicating the
   lock state on all nodes. `TokensFenceWithoutSweeps` shows that the sweeps are the *only* cause.
4. **"acquired" for who only waits** (`unified_locks`). `_handle_lock_acquire` of the unified node
   answers "acquired" whenever the command was committed (`main.py:293`), also when it only queued the
   client, which no release ever promotes. The API has the answers
   acquired, waiting and failed (`docs/api_spec.yaml:67`). Two clients are told that they
   have one exclusive lock. `KeptUntilReleased` says what is left.
5. **Not all cycles** (`deadlock_cycles`). `detect_cycles` says "Detect all cycles"
   (`lock_manager.py:65`), but passes over a client that it visited and left before, although a cycle
   may lead through it. `DeadlocksFound` says what is left: of clients that wait for each
   other at least one cycle is reported.

Three more have no run of their own, because the properties state what the code does:

6. **Nothing is retried or completed.** `_replication_loop` is the "background loop to retry pending
   replications" and is to "clear completed" ones (`replicator.py:179`, `:182`). It retries
   nothing; and since only the entry that a peer makes of a copy ever becomes REPLICATED, the origin's
   stays PENDING for ever, `_pending_replications` only grows, and
   `get_replication_status` reports writes as pending that all have. `StatusTells` states it.
7. **Tamper-proof but at the end.** The audit log is called tamper-proof (`audit_logger.py:2-4`,
   `docs/architecture.md:103`). The hashes have no secret, and an entry that is loaded without one is
   given a fresh one (`entry_hash or self._compute_hash()`, `audit_logger.py:29`). So a last line that is
   changed, with its hash removed or computed anew, verifies; so does a file whose last lines are
   cut off, or all lines from some entry on rewritten. The first part of `VerdictRight` is what
   remains: a changed entry is found out as soon as a genuine one lies behind it.
8. **"Tampering detected" without tampering.** A failed write is swallowed (`audit_logger.py:94`), the chain
   goes on in memory, and after a restart it has a gap. `VerdictRight` promises an intact
   chain only if no write failed, and `SequenceGrows` that numbers grow in the chain there is: a number given
   before such a restart may be given again.

## 4. Fairness

`FairSpec` of `Raft` is used by `raft_recovery` only: weak fairness of
`Heartbeat`, since the loop of a leader goes on for ever, and strong fairness of
handling AppendEntries and their answers on each link, since what is sent
again and again over HTTP sometimes arrives. Nothing is assumed of elections,
proposals, timeouts, losses and restarts. One leader is given, so that its
staying leader is not an assumption hidden in the fairness.

`FairSpec` of `LockManager`: time passes, and the sweep loop runs each second.
Clients need not release and handlers need not answer. `QueuesDrain` relies on
the bound on commands, that is on clients that at some time stop: as long as
shared requests keep coming, they join the holders, prolong the lease, and an
exclusive waiter may starve (`lock_manager.py:157`).

`FairSpec` of `Queue`: some consumer takes what is queued at the nodes consumers use, the
timeout loop runs every 5 s and finds each message that stays in processing late at some
time, writes to Redis end one way or the other, and so does recovery. Nobody has to
acknowledge, copies need not arrive. `EventuallySettled` relies on the bounds on new messages,
copies and restarts: the queue settles when they stop.

`Cache`, `Replicator` and the parts in `MCNode` are checked for safety only.

## 5. Proofs

The modules with theorems are checked by `tlapm` with no step left open:

| module | about | theorems |
|---|---|---|
| `RaftProofs` | `Raft` | `TypeCorrect`, `ElectedByQuorum`, `SecondVotes`, `SplitTerms`, `TermsGrow`, `LogsMatch`, `LeaderAppends`, `AckedApplied`, `OneLeaderReplicates` |
| `LockManagerProofs` | `LockTable`, `LockManager`, `LockReplication` | `LockTypeCorrect`, `LocksExclude`, `NobodyStranded`, `EdgesSound`, `TokensNameTenures`, `TokensFenceWithoutSweeps` |
| `QueueProofs` | `Queue` | `QueueTypeCorrect`, `NothingForgotten`, `AnswersSurvive`, `DeliveriesStayBounded` |
| `CacheProofs` | `Cache` | `CacheTypeCorrect`, `CopiesAgree`, `WritesKept` |
| `ReplicatorProofs` | `Replicator` in `MCNode` | `ClocksCover`, `StatusesTell`, `ReplicasConverge`, `NothingOlderStored` |
| `DetectorProofs` | `FailureDetector` in `MCNode` | `RunningPeersAlive`, `SilentPeersDead` |
| `NodeProofs` | the other parts in `MCNode` | `AuditNumbersGrow`, `AuditVerdictRight`, `LocksKept`, `HandedOutOnceEach`, `ReplicasFollowOwner`, `KeysMoveToSuccessor`, `CyclesFound`, `PartsTyped` |
| `CountingFacts` | least and greatest numbers, where an element stands in a sequence, indices that wrap around | lemmas only |

They hold for every set of nodes, commands, clients, resources, keys, ids and peers, any number
of restarts, messages, writes and commands, under the named assumptions of the modules. Most only
say that numbers are naturals and sets finite (`NodesAssumption`: finitely many nodes, `None` not one
of them; `SomeNode`: a cluster has a node, since each lists itself in `CLUSTER_NODES`; `BoundsAssumption`, `LeaseAssumption`, `LeasesAssumption`, `ReplicatorAssumption`,
`CacheAssumption`, `AttemptsAssumption`; `RingAssumption`: a node has at least one virtual node, and hashes
are natural numbers). Two say more. `QueueAssumption`: ids are uuids, so those two
nodes give out are disjoint. `DetectorAssumption`: the proportions of the timeouts `main.py` runs with;
a round of the heartbeat loop in which all other peers hang fits in `dead_timeout`, which is true of
the three nodes the compose file starts and is not for more than a few.

*Raft.* `TypeCorrect` proves `TypeOK`, on lemmas about bags and about the records
on the wire; in particular `next_index` stays positive, so that the slice sent
is never taken from the end of the log. The election theorems rest on `VoteInv`,
the conjunction of

- `TypeOK`;
- `VotesCounted`: the votes an open election has counted were given, in its term, and
  as long as its node is a candidate that is the node's own term still;
- `AnswersGranted`: a granting answer on the wire reports a vote that was given;
- `VotesHeld`: a node that was never restarted voted in no term beyond its own, and
  remembers the vote of its own term or accepted an AppendEntries of it;
- `LeaderElectedByQuorum` and `SecondVoteExplained` themselves.

The two properties are not inductive alone: a leader is made from votes collected
in earlier steps, and a second vote is granted from what `votedFor` remembers.
`SplitTerms` follows from them and from the fact that two quorums meet
(`QuorumsShareVoter`). `TermsGrow` is an action property and needs only `TypeOK`.

`LogsMatch` rests on `LogInv`. Two logs that match say nothing of a request that was sent from a log
its sender may have lost since, and a step stores what such a request carries. So the proof is about *links*:
an entry with its index and the term of the entry before it (`LinksOf`). `Links` are those of all logs and of
all AppendEntries on the wire, and `LogInv` says of them, in the case the property speaks of (`Spared`),

- `OneWriting`: one index and one term belong to one link, so one entry behind one other;
- `LinksElected`: only a term with a leader has links;
- `LeaderHasAll`: no link of the leader's term is beyond its log, so that what it
  appends is new.

`LeadersElected` and `ElectedBefore`, which hold in every case, say that a leader is on record and that a node is not
elected in a term again; `HeadsOnWire` that nothing comes before a first entry. Every step but `Propose` only
keeps, copies or drops links: a late AppendEntries that cuts a log back leaves a log whose links are all
old (`_handle_append_entries` compares the term in front of what it stores). Logs match then, from the greatest index
at which they differ. `LeaderAppends` needs only the types.

`AckedApplied` rests on `AckInv`: on a node that was not restarted and accepted no AppendEntries (`NeverFollowed`), the
futures wait at the index of their own command and what it told its callers was applied. The theorem says
so for the case `LedOnly`, where the nodes that told a caller True followed nobody; without it the property fails,
as section 3 says.

`OneLeaderReplicates` proves the refinement of `ReplicatedLog` in the case `OneLeader`: at most one node was ever
elected, once, and still runs; the others may be restarted at any time. `FollowInv` says that then
every log and every list given to callbacks is the beginning of the leader's log, that the leader applied as
much as anybody and just up to its commit index (`LogsFollow`), that AppendEntries under way carry pieces of its log
and no later commit index (`WireFollows`), that only its callers wait (`LeaderAlone`), and that no command is in
its log twice (`EntriesDistinct`). `LongestLearned` is what the leader applied, so it only grows when the leader
commits (`SucceedChooses`); a follower that applies is a `Learn` of the abstract log, a restart its
`Forget`, all other steps stutter. A second leader may lack entries that were
committed, since a quorum need not hold them (`raft_truncate`), and then gives its callbacks others at their indices.

*Locks.* `LockInv` is `TypeOK`, `WaitEdgesSound` and, for each lock, that it is
exclusive with at most one holder or shared, that nobody waits when it is free,
and that a lock with token 0 is untouched. It gives `LockTypeCorrect`, `LocksExclude`,
`NobodyStranded` and `EdgesSound`. The part about a lock is preserved by every
operator of `LockTable`, which the lemmas state one by one.

`TokensNameTenures` adds `AnswersAgree`: no answer has a token of the future, and one
with the lock's present token agrees with its type and, if exclusive, is the answer to
its only holder. It is kept because every step makes a lock `Advance`: to a larger
token, or within one tenure, where the type stays and an exclusive lock gets no new holder.

`TokensFenceWithoutSweeps` is about `LockReplication`, any number of replicas of one lock. `OneHolderPerToken`
fails there (`lock_replicas`), and the theorem says what of: in every behaviour in which no replica
sweeps, it holds, whoever leads, at whatever pace the replicas learn commands and however late handlers
answer. `RepInv` says that there is one history of the lock, the states the log goes through; every
replica is where this history is after the commands it applied, but for the time left of the lease
(`Alike`, `RepShape`), and every answer told is from a state of it. Along a history tokens only grow, and states
with one token are of one tenure (`HistoryTenures`, by `Advance`). A sweep breaks just this: it moves a replica
away from the history.

*Geo.* `GeoTyped` is `TypeOK`, that writes are numbered one after the other
(`Numbered`), and that what is under way is a write on its way to another node than its
origin (`SentAway`), on which `StatusesTell` rests. `GeoInv` adds what makes replicas
converge:

- `KnowsItself`: without restarts nobody knows of more writes of a node than the node
  itself, so that (`DistinctClocks`) no two writes have one clock;
- `CoversHandled`, `StoresHandled`: a clock covers what was handled, and what is
  stored was handled;
- `Newest`: with good clocks a node stores the latest of the writes it handled.

`SameWritesSameValue` is not inductive: it says nothing of what a copy replaces. `Newest`
is, because the order of the clocks and the order of the times agree (`GoodTimes`), so
that both ways to win, domination and the later time, lead to a later write.

*Queue.* `TypeInv` is `TypeOK` with `RefsKnown`: a write that has yet to land and a pass of the
timeout loop only refer to ids that are stored, although a restart empties the store under them.
`NothingForgotten` and `AnswersSurvive` are inductive on top of it. `DeliveriesBounded` is not: it
bounds what was queued by `credit`, and a step may queue once more. `CreditCovers` says what may
still come: the places an id has in the queue, the retries the stored object has left
(`TriesLeft`) and the one a pass may add for an object that was replaced meanwhile (`Strays`)
are together within the credit. That needs `FreshUnseen`, that an id not given out yet is nowhere.

*Cache.* `TypeInv` has the limit and one line per key, kept by every operator on lines as the lemmas
state one by one. `Coherent` is not inductive: a read stores what it found in the past, and
a write makes its line the only one without looking at the peers again. `CopiesInv` adds

- `Apart`: an operation counted as alone has none beside it that would disturb it;
- `HeardWrite`: peers that heard of a write that is alone have no copy;
- `FoundRight`: what a read that is alone has found is the last value, and no copy is MODIFIED.

Every other step is covered by `Shrinks`: it makes no new copy, changes no value and makes none MODIFIED.
`LastWriteKept` needs only `TypeInv`: a step keeps a copy, or records its loss in `kept`, or a write of
the key is under way. A restart is such a step: it records the loss of the node's copies, and of
the keys its dying writes had already invalidated elsewhere.

*Failure detector.* `DetectorInv` says for each peer where the loop is and how long it may still take.
`Due` bounds the age of the last heartbeat by the time already spent in the round and the time
the peers before it may cost if they hang; `Punctual` does it for the status. The bound is
a product, number of hanging peers by the timeout of `send`, and is kept as a quantity of its own
(`AskingHung`) with linear facts about each step.

*Audit log.* `SequenceGrows` needs the same of the file: the numbers grow along its readable front, which is
what a restart loads, and none of them is beyond the present one (`FileGrows`). The first part of `VerdictRight` follows from `GenuineChained`: a genuine
entry has the hash of its contents, and points at the hash of a genuine one, or at the beginning. If a
chain verifies, the entry before a genuine one has the hash that one points at, and since a hash tells
what was hashed (`HashesTell`), it is that genuine entry. For the other two parts `Kept` says that in a
file nobody changed both the chain and the file begin with what was logged before a write
failed (`Begins`), and are the same and whole if none did (`Intact`).

*Unified node.* `KeptUntilReleased` is inductive with the types: an acquire that finds holders joins
them or is appended to the queue, and only the client's own release takes it from the holders. `HandedOutAsItCame` counts: what came is what went and what is queued, and a copy uses
up one of the attempts (`Limited`, `Accounted`).

*Deadlock search.* `Follows` says that `path` follows edges of the graph and never meets itself, and that what
is still to do are neighbours; a cycle is cut from the path where the neighbour stands on it.
That is the first half of `DeadlocksFound`. The second, that a client in a cycle is found with
one of those it waits for and that wait for it, rests on `FindInv`:

- `NeighboursSeen`: the neighbours of a visited client that are no longer to do are visited;
- `ClosedWhenMet`: a client on the path that somebody who waits for it has looked at is on a reported cycle;
- `NoneMissed`: for a client in a cycle that the search has left, either such a cycle was reported,
  or one of those it waits for and that wait for it is on the path still.

When the search leaves the last such client on the path, it has been all over what that client waits for, itself
included; so somebody who waits for it was left before, has looked at it, and closed a cycle.
What a client waits for, `Behind`, is the least set that holds its neighbours and theirs, so that the proof
argues with closed sets (`BehindLeast`) where the usual definition would need induction over lengths.

*Hash ring.* `RingShape` says that nodes have places of their own, that the ring holds just those of its nodes
(which adding and removing nodes in any order keeps), and that the keys are its points in order.
`Before` is the order in which one meets them from a hash on, around the end. The lookup
of the owner finds the first point in that order (`OwnerFound`); the walk for the replicas meets all of them
in that order (`RingWalked`) and takes each node at its first (`UnseenOnce`, `FoundInOrder`), so that the
first is the owner (`OwnerLeads`) and the second the first point that is not the owner's (`SecondFound`).
That point is the first of all when the owner has left (`RingLoses`): `SuccessorTakesOver`.

Only model-checked: the liveness properties (`EventuallyLearned`, `QueuesDrain`, `EventuallySettled`), which are
beyond the prover. All other properties of passing runs are proved. What the code gets wrong (section 3) is shown by
runs, as counterexamples.

## 6. What is left out, and known limits

- Raft: `get_state`, and the two response handlers that answer `ok` and change
  nothing. A callback that raises is caught and logged by the code; the models'
  callbacks do not raise.
- Locks: the converse of `WaitEdgesSound` does not hold in the code and is not
  claimed: `remove_client` drops a client's edges for all resources, promotion
  adds no edge to the new holder for those who still wait, holders that join
  later get none, and a release by a waiter removes its edges and leaves it in the
  queue. So `/lock/deadlocks` may miss deadlocks for want of edges; `DeadlocksFound` is
  about the edges there are.
- `LockReplication` leaves out the wait-for graph, and that an entry may be lost or a
  log disagree: what `raft_split` and `raft_truncate` show comes on top.
- Queue: the contents of messages; the expiry of Redis keys after an hour is one of the
  reasons for which `RecoveryEnds` may leave a key out. The handlers ask the ring only for the
  `assigned_node` of a message, which nothing acts on, so `HashRing` is a module of its own;
  `remove_node` and `get_nodes_for_key` have no callers but the tests yet.
- Audit log: two hashes never collide; what somebody might do to the file is bounded to changing
  lines and cutting the end, and nobody changes the entries in memory, as the code has no operation for it.
- Cache: the callbacks on eviction have no users; the values of a read that hits are what
  the invariants say of the lines.
- Geo: latencies are arbitrary delays. The table of regions and the latency router
  (`geo/region_manager.py`, `geo/latency_router.py`) are tables that are filled at start, and
  a sort; no handler routes by it.
- `security/rbac.py` checks each request by itself against tables that never change;
  `security/tls_manager.py` writes certificate files; `utils/` has counters nobody reads
  back and settings. None has a state that several steps change.
- The HTTP lifecycle of `BaseNode` and `DistributedNode`, the status and documentation
  handlers, which only read.
- The unified node as one behaviour of all its parts: they share the event loop, where each
  handler runs to its await in one step in every module, and the calls that the modules
  of the parts take as input. Two such calls cross parts: a committed entry is applied to
  the locks (by `ReplicatedLog`), and a put writes to the geo store, which nothing reads.

## 7. Plan

What the proofs can still take up: that two leaders of one term need two nodes that forgot a vote, or one that
is the common voter, in terms of how many nodes were restarted; and the refinement under several leaders, in the case that
every leader holds what was committed before it. The rest of section 6 is left out on purpose.
