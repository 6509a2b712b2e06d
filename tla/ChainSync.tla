----------------------------- MODULE ChainSync -----------------------------
(***************************************************************************)
(* How a relayer follows the contract: the on-chain event listener         *)
(* (chain_events/listener.rs), the thread that builds the wallet's Merkle  *)
(* path at startup (state/initialize.rs), the path itself                  *)
(* (state/wallet.rs) and the proof manager that re-proves VALID            *)
(* COMMITMENTS when the path has become stale                              *)
(* (proof_generation/proof_manager.rs).                                    *)
(*                                                                         *)
(* Hashes are symbolic: a leaf is a 1-tuple, an inner node the pair of its *)
(* children.  The contract inserts leaf number k with the value <<k>>, so  *)
(* a tree is given by the number of its leaves; a block's events appear    *)
(* together, in transaction order.  One wallet is managed: the listener's  *)
(* loop over the wallets treats each of them alone.                        *)
(***************************************************************************)
EXTENDS Integers, Sequences, FiniteSets, FiniteSetsExt

CONSTANTS
    MERKLE_HEIGHT,      \* depth of the commitment tree
    EVENT_CHUNK_SIZE,   \* events in a page of getEvents
    STALENESS_THRESHOLD,
    InitialLeaves,      \* leaves inserted before the relayer starts
    LeafIndex,          \* the leaf of the managed wallet
    Orders,             \* the wallet's orders
    Nullifiers,         \* the nullifiers the contract may see spent
    Blocks,             \* contents of a block: sequences of transactions
    MaxBlocks,          \* bound: blocks mined while the relayer runs
    Polls,              \* bound: numbers of the polls that may run at one time
    OverlapBounded,     \* does PollBound limit the polls that overlap?
    NoNullifier, NoBlock, NoPath, NoProof

(* The leaves a tree has room for: 2 to the power of its depth. *)
Capacity ==
    LET power[j \in 0..MERKLE_HEIGHT] == IF j = 0 THEN 1 ELSE 2 * power[j - 1]
    IN power[MERKLE_HEIGHT]

ASSUME ChainParameters ==
    /\ MERKLE_HEIGHT \in Nat \ {0} /\ EVENT_CHUNK_SIZE \in Nat \ {0}
    /\ STALENESS_THRESHOLD \in Nat /\ MaxBlocks \in Nat
    /\ InitialLeaves \in 1..Capacity /\ LeafIndex \in 0..(InitialLeaves - 1)
    /\ Polls \subseteq Nat /\ IsFiniteSet(Orders) /\ NoBlock \notin Nat
    /\ \A txs \in Blocks : txs \in Seq(Nullifiers \cup {NoNullifier})

VARIABLES
    leaves, events, block,            \* the contract and the chain
    start_block, merkle_last_consistent_block, pagination_token, polls,
    init,                             \* the startup thread
    merkle_proof, proof_staleness,    \* the wallet
    covered, witness, validity_proof, \* the order book's entries for its orders
    job_queue, manager, cancelled,    \* the proof manager
    tasks, answers,                   \* those that wait for its proofs
    shootdowns,                       \* jobs sent to the handshake manager
    history                           \* what went wrong so far, see Undisturbed

chain == <<leaves, events, block>>
listener == <<start_block, merkle_last_consistent_block, pagination_token, polls>>
wallet == <<merkle_proof, proof_staleness>>
book == <<covered, witness, validity_proof>>
prover == <<job_queue, manager, cancelled>>
waiters == <<tasks, answers>>
vars == <<chain, listener, init, wallet, book, prover, waiters, shootdowns, history>>

-----------------------------------------------------------------------------
(* The contract's tree and the events it emits. *)

EMPTY_LEAF_VALUE == <<0>>

(* The node at c, a depth and an index, of a tree with n leaves. *)
Node(n, c) ==
    LET level[h \in 0..MERKLE_HEIGHT] ==   \* h levels above the leaves
            [i \in Nat |->
                IF h > 0 THEN <<level[h - 1][2 * i], level[h - 1][2 * i + 1]>>
                ELSE IF i < n THEN <<i + 1>> ELSE EMPTY_LEAF_VALUE]
    IN level[MERKLE_HEIGHT - c[1]][c[2]]

Root(n) == Node(n, <<0, 0>>)

NodeChanged(n, b, c) == [key |-> "node", block |-> b, at |-> c, val |-> Node(n, c)]

(* What is left of a leaf's index after j right shifts. *)
Shifted(n, j) ==
    LET index[k \in 0..MERKLE_HEIGHT] == IF k = 0 THEN n ELSE index[k - 1] \div 2
    IN index[j]

(* The j-th node on the way from leaf n to the root. *)
Ancestor(n, j) == <<MERKLE_HEIGHT + 1 - j, Shifted(n, j - 1)>>

(* Inserting leaf n changes its ancestors, from the leaf up, then the root. *)
Inserted(n, b) ==
    [j \in 1..MERKLE_HEIGHT |-> NodeChanged(n + 1, b, Ancestor(n, j))]
    \o <<[key |-> "root", block |-> b, at |-> <<0, 0>>, val |-> Root(n + 1)]>>

Spent(nullifier, b) ==
    IF nullifier = NoNullifier THEN <<>>
    ELSE <<[key |-> "spent", block |-> b, at |-> <<0, 0>>, val |-> nullifier]>>

(* The sequences of seqs, one after the other. *)
Concatenation(seqs) ==
    LET first[i \in 0..Len(seqs)] == IF i = 0 THEN <<>> ELSE first[i - 1] \o seqs[i]
    IN first[Len(seqs)]

(* A transaction inserts a commitment and may spend a nullifier. *)
BlockEvents(txs, n, b) ==
    Concatenation([k \in DOMAIN txs |-> Spent(txs[k], b) \o Inserted(n + k - 1, b)])

(* The contract refuses a nullifier that was spent before. *)
MineBlock(txs) ==
    /\ block < MaxBlocks
    /\ leaves + Len(txs) <= Capacity
    /\ \A k \in DOMAIN txs : txs[k] # NoNullifier =>
        /\ \A e \in Range(events) : e.key = "spent" => e.val # txs[k]
        /\ \A i \in DOMAIN txs : txs[i] = txs[k] => i = k
    /\ block' = block + 1
    /\ leaves' = leaves + Len(txs)
    /\ events' = events \o BlockEvents(txs, leaves, block + 1)
    /\ UNCHANGED <<listener, init, wallet, book, prover, waiters, shootdowns, history>>

(* The events are in block order; so many of them are of blocks before b. *)
Before(b) == Cardinality({k \in DOMAIN events : events[k].block < b})

NodeEvents(b) == {k \in DOMAIN events : events[k].key = "node" /\ events[k].block >= b}
At(c, ks) == {k \in ks : events[k].at = c}

FirstChange(c, ks) == events[Min(At(c, ks))].val

(* The last change of every node in the events from block b on. *)
LastChange(c, ks) == events[Max(At(c, ks))].val

NodeChanges(b) ==
    LET ks == NodeEvents(b) IN [c \in {events[k].at : k \in ks} |-> LastChange(c, ks)]

-----------------------------------------------------------------------------
(* The wallet's authentication path: its siblings from the leaf level up. *)

SiblingIndex(i) == IF i % 2 = 0 THEN i + 1 ELSE i - 1

compute_authentication_path_coords ==
    [j \in 1..MERKLE_HEIGHT |->
        <<MERKLE_HEIGHT + 1 - j, SiblingIndex(Shifted(LeafIndex, j - 1))>>]

compute_poseidon_hash(l, r) == <<l, r>>

SiblingOnTheLeft(j, value, sibling) == compute_poseidon_hash(sibling, value)

HashWithSibling(j, value, sibling) ==
    IF Shifted(LeafIndex, j - 1) % 2 = 0
    THEN compute_poseidon_hash(value, sibling)
    ELSE compute_poseidon_hash(sibling, value)

compute_root(path) ==
    LET up[j \in 0..MERKLE_HEIGHT] ==
            IF j = 0 THEN <<LeafIndex + 1>>
            ELSE HashWithSibling(j, up[j - 1], path[j])
    IN up[MERKLE_HEIGHT]

DEFAULT_AUTHENTICATION_PATH ==
    [j \in 1..MERKLE_HEIGHT |-> compute_poseidon_hash(EMPTY_LEAF_VALUE, EMPTY_LEAF_VALUE)]

update_wallet_merkle_path(path, updated_nodes) ==
    [j \in 1..MERKLE_HEIGHT |->
        LET c == compute_authentication_path_coords[j] IN
        IF c \in DOMAIN updated_nodes THEN updated_nodes[c] ELSE path[j]]

(* The startup thread reads every node change there ever was. *)
build_merkle_authentication_path ==
    update_wallet_merkle_path(DEFAULT_AUTHENTICATION_PATH, NodeChanges(0))

needs_new_commitment_proof(staleness) == staleness > STALENESS_THRESHOLD
-----------------------------------------------------------------------------
(* The listener.  A poll is a task of its own: the timer starts one every    *)
(* five seconds whether or not the last one has ended.                       *)

(* A page is the set of the positions of its events that have a handler.     *)
Idle == [pc |-> "idle", token |-> 0, page |-> {}, more |-> FALSE, nodes |-> <<>>]
Done == [st |-> "done", path |-> NoPath, orders |-> {}]   \* a task that has ended
Active == {p \in Polls : polls[p].pc # "idle"}

Init ==
    /\ leaves = InitialLeaves /\ block = 1
    /\ events = BlockEvents([k \in 1..InitialLeaves |-> NoNullifier], 0, 0)
    /\ start_block = NoBlock /\ merkle_last_consistent_block = 0 /\ pagination_token = 0
    /\ polls = [p \in Polls |-> Idle]
    /\ init = [pc |-> "scan", seen |-> 0, path |-> NoPath,
               todo |-> Orders, sending |-> {}, waiting |-> {}]
    /\ merkle_proof = NoPath /\ proof_staleness = 0
    /\ covered \in SUBSET Orders
    /\ witness = {} /\ validity_proof = [o \in Orders |-> NoProof]
    /\ job_queue = <<>> /\ manager = "check" /\ cancelled = FALSE
    /\ tasks = <<>> /\ answers = {}
    /\ shootdowns = <<>>
    /\ history = [overlapped |-> FALSE, raced |-> FALSE, failed |-> FALSE, gap |-> FALSE, late |-> 0]

(* execute: note the current block, and start polling from it.  The path     *)
(* read by the startup thread may already be older than that block.          *)
execute ==
    /\ start_block = NoBlock
    /\ start_block' = block
    /\ merkle_last_consistent_block' = block
    /\ history' = [history EXCEPT !.gap = @ \/ (init.pc # "scan" /\ init.seen # leaves)]
    /\ UNCHANGED <<chain, pagination_token, polls, init, wallet, book, prover, waiters, shootdowns>>

(* Bound, when OverlapBounded: a second poll starts only when the wallet has *)
(* no path and the prover is gone, so that the polls share the token and     *)
(* nothing else.                                                             *)
PollBound ==
    OverlapBounded =>
        Active = {} \/ (init.pc = "done" /\ merkle_proof = NoPath /\ manager = "stopped")

SpawnPoll(p) ==
    /\ start_block # NoBlock
    /\ polls[p].pc = "idle" /\ PollBound
    /\ \A q \in Polls : q < p => polls[q].pc # "idle"   \* the first free name
    /\ polls' = [polls EXCEPT ![p].pc = "load"]
    /\ history' = [history EXCEPT !.overlapped = @ \/ Active # {}]
    /\ UNCHANGED <<chain, start_block, merkle_last_consistent_block, pagination_token,
                   init, wallet, book, prover, waiters, shootdowns>>

(* What getEvents has to give, its filter being the start block. *)
Available == Len(events) - Before(start_block)

(* fetch_next_events_page, up to the call of getEvents... *)
RequestPage(p) ==
    /\ polls[p].pc = "load"
    /\ polls' = [polls EXCEPT ![p].pc = "page", ![p].token = pagination_token]
    /\ UNCHANGED <<chain, start_block, merkle_last_consistent_block, pagination_token,
                   init, wallet, book, prover, waiters, shootdowns, history>>

(* ... and what it does with the answer.  A token past the last event is an  *)
(* invalid continuation token, which counts as an empty page.                *)
PageAt(t) ==
    LET first == Before(start_block) + t
    IN {k \in (first + 1)..(first + EVENT_CHUNK_SIZE) : k <= Len(events)}
MorePages(t) == Available > t + EVENT_CHUNK_SIZE

(* handle_event does nothing for the events of other keys. *)
HasHandler(e) == e.key \in {"root", "spent"}

TokenForgotten(t, received) == IF MorePages(t) THEN t + EVENT_CHUNK_SIZE
                               ELSE pagination_token

TokenPastThePage(t, received) == IF received = 0 THEN pagination_token
                                 ELSE t + EVENT_CHUNK_SIZE

NextToken(t, received) == IF MorePages(t) THEN t + EVENT_CHUNK_SIZE
                          ELSE pagination_token + received

fetch_next_events_page(p) ==
    /\ polls[p].pc = "page"
    /\ \E t \in {polls[p].token} :
        /\ pagination_token' = NextToken(t, Cardinality(PageAt(t)))
        /\ history' = [history EXCEPT !.raced = @ \/ pagination_token # t]
        /\ polls' = [polls EXCEPT ![p].pc = "handle", ![p].token = 0,
                                  ![p].page = {k \in PageAt(t) : HasHandler(events[k])},
                                  ![p].more = MorePages(t)]
    /\ UNCHANGED <<chain, start_block, merkle_last_consistent_block,
                   init, wallet, book, prover, waiters, shootdowns>>

(* The event at the front of a page. *)
NextEvent(p) == events[Min(polls[p].page)]
LaterEvents(p) == polls[p].page \ {Min(polls[p].page)}

(* poll_contract_events: the page is done; fetch another or end the poll. *)
PageDone(p) ==
    /\ polls[p].pc = "handle" /\ polls[p].page = {}
    /\ polls' = [polls EXCEPT ![p] = IF polls[p].more THEN [Idle EXCEPT !.pc = "load"] ELSE Idle]
    /\ UNCHANGED <<chain, start_block, merkle_last_consistent_block, pagination_token,
                   init, wallet, book, prover, waiters, shootdowns, history>>

(* handle_event: skip a root of a block whose Merkle events have all been    *)
(* consumed...                                                               *)
Consumed(e) == e.key = "root" /\ e.block <= merkle_last_consistent_block

SkipRoot(p) ==
    /\ polls[p].pc = "handle" /\ polls[p].page # {}
    /\ Consumed(NextEvent(p))
    /\ polls' = [polls EXCEPT ![p].page = LaterEvents(p)]
    /\ UNCHANGED <<chain, start_block, merkle_last_consistent_block, pagination_token,
                   init, wallet, book, prover, waiters, shootdowns, history>>

(* ... shoot down the matches on a spent nullifier and cancel its orders... *)
handle_nullifier_spent(p) ==
    /\ polls[p].pc = "handle" /\ polls[p].page # {}
    /\ NextEvent(p).key = "spent"
    /\ shootdowns' = Append(shootdowns, NextEvent(p).val)
    /\ polls' = [polls EXCEPT ![p].page = LaterEvents(p)]
    /\ UNCHANGED <<chain, start_block, merkle_last_consistent_block, pagination_token,
                   init, wallet, book, prover, waiters, history>>

(* ... or read the nodes changed in the root's block and, the query having   *)
(* no last block, in every later one...                                      *)
FetchNodes(p) ==
    /\ polls[p].pc = "handle" /\ polls[p].page # {}
    /\ NextEvent(p).key = "root" /\ ~Consumed(NextEvent(p))
    /\ polls' = [polls EXCEPT ![p].pc = "apply",
                              ![p].nodes = NodeChanges(NextEvent(p).block)]
    /\ UNCHANGED <<chain, start_block, merkle_last_consistent_block, pagination_token,
                   init, wallet, book, prover, waiters, shootdowns, history>>

(* ... and apply them to the wallet, whose orders are proved again by a task *)
(* working on a clone of the wallet once the proofs are stale.               *)
handle_root_changed(p) ==
    /\ polls[p].pc = "apply"
    /\ polls' = [polls EXCEPT ![p].pc = "handle", ![p].page = LaterEvents(p), ![p].nodes = <<>>]
    /\ merkle_last_consistent_block' = NextEvent(p).block
    /\ \/ /\ merkle_proof = NoPath
          /\ history' = [history EXCEPT !.gap = @ \/ init.pc # "scan"]
          /\ UNCHANGED <<wallet, tasks>>
       \/ /\ merkle_proof # NoPath
          /\ proof_staleness' = proof_staleness + 1
          /\ merkle_proof' = update_wallet_merkle_path(merkle_proof, polls[p].nodes)
          /\ tasks' = IF needs_new_commitment_proof(proof_staleness')
                      THEN Append(tasks, [Done EXCEPT !.st = "spawned", !.path = merkle_proof'])
                      ELSE tasks
          /\ UNCHANGED history
    /\ UNCHANGED <<chain, start_block, pagination_token, init, book, prover, answers, shootdowns>>

(* A query fails: the error ends the poll, and the rest of the page, which   *)
(* the token is already past, is lost.                                       *)
PollFails(p) ==
    /\ \/ polls[p].pc = "page"
       \/ /\ polls[p].pc = "handle" /\ polls[p].page # {}
          /\ NextEvent(p).key = "root" /\ ~Consumed(NextEvent(p))
    /\ polls' = [polls EXCEPT ![p] = Idle]
    /\ history' = [history EXCEPT !.failed = TRUE]
    /\ UNCHANGED <<chain, start_block, merkle_last_consistent_block, pagination_token,
                   init, wallet, book, prover, waiters, shootdowns>>

-----------------------------------------------------------------------------
(* Those that ask for proofs.  A job names who waits for it: the startup     *)
(* thread (0), a listener's task, or nobody (the receiver was dropped).      *)

Nobody == -1
Job(k, o, path) == [task |-> k, order |-> o, root |-> compute_root(path)]

Enqueue(jobs) ==
    /\ job_queue' = job_queue \o jobs
    /\ UNCHANGED <<manager, cancelled>>

(* The orders in which n of the elements of S may be met. *)
Arrangements(S, n) == {s \in [1..n -> S] : IsInjective(s)}

(* update_wallet_commitment_proofs: one job for each order, unless one has   *)
(* no witness; then the jobs sent before it was met are abandoned.           *)
update_wallet_commitment_proofs(k) ==
    /\ tasks[k].st = "spawned"
    /\ \/ /\ manager = "stopped"
          /\ tasks' = [tasks EXCEPT ![k] = Done]
          /\ UNCHANGED prover
       \/ /\ manager # "stopped" /\ Orders \subseteq witness
          /\ \E order \in Arrangements(Orders, Cardinality(Orders)) :
              Enqueue([j \in DOMAIN order |-> Job(k, order[j], tasks[k].path)])
          /\ tasks' = [tasks EXCEPT ![k] = [Done EXCEPT !.st = "await", !.orders = Orders]]
       \/ /\ manager # "stopped" /\ ~(Orders \subseteq witness)
          /\ \E n \in 0..Cardinality(witness) : \E before \in Arrangements(witness, n) :
              Enqueue([j \in DOMAIN before |-> Job(Nobody, before[j], tasks[k].path)])
          /\ tasks' = [tasks EXCEPT ![k] = Done]
    /\ UNCHANGED <<chain, listener, init, wallet, book, answers, shootdowns, history>>

(* The proof replaces the one in the order book; the gossip message that     *)
(* goes with it is a message of OrderBook.                                   *)
Stored(o, root) ==
    /\ validity_proof' = [validity_proof EXCEPT ![o] = root]
    /\ UNCHANGED <<covered, witness, shootdowns>>

(* update_order_proof, for a proof that has arrived. *)
update_order_proof(k, o) ==
    /\ tasks[k].st = "await" /\ o \in tasks[k].orders
    /\ \E a \in answers :
        /\ a.task = k /\ a.order = o
        /\ Stored(o, a.root)
        /\ answers' = answers \ {a}
    /\ tasks' = [tasks EXCEPT ![k].orders = @ \ {o},
                              ![k].st = IF tasks[k].orders = {o} THEN "done" ELSE "await"]
    /\ UNCHANGED <<chain, listener, init, wallet, prover, history>>

(* The manager stopped before answering: the receiver reports an error. *)
TaskFails(k) ==
    /\ tasks[k].st = "await" /\ manager = "stopped"
    /\ \E o \in tasks[k].orders : \A a \in answers : ~(a.task = k /\ a.order = o)
    /\ tasks' = [tasks EXCEPT ![k] = Done]
    /\ UNCHANGED <<chain, listener, init, wallet, book, prover, answers, shootdowns, history>>

(* initialize_order_proof_helper: read the path, ... *)
ScanTree ==
    /\ init.pc = "scan"
    /\ init' = [init EXCEPT !.pc = "attach", !.seen = leaves,
                            !.path = build_merkle_authentication_path]
    /\ history' = [history EXCEPT !.gap = @ \/ \E p \in Polls : polls[p].pc = "apply"]
    /\ UNCHANGED <<chain, listener, wallet, book, prover, waiters, shootdowns>>

ScanFails ==
    /\ init.pc = "scan"
    /\ init' = [init EXCEPT !.pc = "done"]
    /\ UNCHANGED <<chain, listener, wallet, book, prover, waiters, shootdowns, history>>

(* ... attach it to the wallet, ... *)
add_wallet_merkle_proof ==
    /\ init.pc = "attach"
    /\ merkle_proof' = init.path
    /\ init' = [init EXCEPT !.pc = "prove"]
    /\ UNCHANGED <<chain, listener, proof_staleness, book, prover, waiters, shootdowns, history>>

(* ... send a job for every order that a balance and a fee cover, attaching  *)
(* its witness only afterwards, ...                                          *)
SendOrderJob(o) ==
    /\ init.pc = "prove" /\ init.sending = {} /\ o \in init.todo
    /\ \/ /\ o \in covered /\ manager # "stopped"
          /\ Enqueue(<<Job(0, o, init.path)>>)
          /\ init' = [init EXCEPT !.todo = @ \ {o}, !.sending = {o}, !.waiting = @ \cup {o}]
       \/ /\ o \in covered /\ manager = "stopped"
          /\ init' = [init EXCEPT !.pc = "done"]
          /\ UNCHANGED prover
       \/ /\ o \notin covered
          /\ init' = [init EXCEPT !.todo = @ \ {o}]
          /\ UNCHANGED prover
    /\ UNCHANGED <<chain, listener, wallet, book, waiters, shootdowns, history>>

attach_validity_proof_witness ==
    /\ init.sending # {}
    /\ witness' = witness \cup init.sending
    /\ init' = [init EXCEPT !.sending = {}]
    /\ UNCHANGED <<chain, listener, wallet, covered, validity_proof, prover, waiters, shootdowns, history>>

(* ... and store the proofs as they arrive. *)
add_order_validity_proof(o) ==
    /\ init.pc = "prove" /\ init.sending = {} /\ init.todo = {} /\ o \in init.waiting
    /\ \E a \in answers :
        /\ a.task = 0 /\ a.order = o
        /\ Stored(o, a.root)
        /\ answers' = answers \ {a}
    /\ init' = [init EXCEPT !.waiting = @ \ {o}]
    /\ UNCHANGED <<chain, listener, wallet, prover, tasks, history>>

InitPanics ==
    /\ init.pc = "prove" /\ init.sending = {} /\ init.todo = {} /\ manager = "stopped"
    /\ \E o \in init.waiting : \A a \in answers : ~(a.task = 0 /\ a.order = o)
    /\ init' = [init EXCEPT !.pc = "done"]
    /\ UNCHANGED <<chain, listener, wallet, book, prover, waiters, shootdowns, history>>

-----------------------------------------------------------------------------
(* The proof manager.  install waits for the pool to finish the job, so the  *)
(* jobs are proved one at a time, in the order of the queue.                 *)

Cancel ==
    /\ ~cancelled
    /\ cancelled' = TRUE
    /\ UNCHANGED <<chain, listener, init, wallet, book, job_queue, manager, waiters, shootdowns, history>>

NoCancelCheck ==
    /\ manager = "check"
    /\ manager' = "recv"
    /\ UNCHANGED <<chain, listener, init, wallet, book, job_queue, cancelled, waiters, shootdowns, history>>

(* The cancel channel is looked at before the loop blocks on the queue... *)
execution_loop ==
    /\ manager = "check"
    /\ manager' = IF cancelled THEN "stopped" ELSE "recv"
    /\ job_queue' = IF cancelled THEN <<>> ELSE job_queue
    /\ UNCHANGED <<chain, listener, init, wallet, book, cancelled, waiters, shootdowns, history>>

(* ... and not again until it has a job, which it still proves. *)
handle_proof_job ==
    /\ manager = "recv" /\ job_queue # <<>>
    /\ job_queue' = Tail(job_queue)
    /\ manager' = "check"
    /\ answers' = answers \cup {j \in {Head(job_queue)} : j.task # Nobody}
    /\ history' = [history EXCEPT !.late = IF cancelled THEN @ + 1 ELSE @]
    /\ UNCHANGED <<chain, listener, init, wallet, book, cancelled, tasks, shootdowns>>

-----------------------------------------------------------------------------
PollStep(p) ==
    \/ RequestPage(p) \/ fetch_next_events_page(p) \/ PageDone(p) \/ SkipRoot(p)
    \/ handle_nullifier_spent(p) \/ FetchNodes(p) \/ handle_root_changed(p)

TaskStep ==
    \E k \in DOMAIN tasks :
        \/ update_wallet_commitment_proofs(k) \/ TaskFails(k)
        \/ \E o \in Orders : update_order_proof(k, o)

InitStep ==
    \/ ScanTree \/ ScanFails \/ add_wallet_merkle_proof \/ attach_validity_proof_witness
    \/ InitPanics
    \/ \E o \in Orders : SendOrderJob(o) \/ add_order_validity_proof(o)

Next ==
    \/ \E txs \in Blocks : MineBlock(txs)
    \/ execute
    \/ \E p \in Polls : SpawnPoll(p) \/ PollStep(p) \/ PollFails(p)
    \/ TaskStep
    \/ InitStep
    \/ Cancel \/ execution_loop \/ handle_proof_job

(* The listener gets its first block, its timer keeps firing, and a poll     *)
(* that has been answered goes on.                                           *)
Fairness ==
    /\ WF_vars(execute)
    /\ \A p \in Polls : WF_vars(SpawnPoll(p)) /\ WF_vars(PollStep(p))

Spec == Init /\ [][Next]_vars /\ Fairness

-----------------------------------------------------------------------------
(* Nothing has gone wrong that the code has no answer to: no query failed,   *)
(* no two polls overlapped, and the startup thread's path missed no change.  *)
Undisturbed == ~history.failed /\ ~history.overlapped /\ ~history.gap

CaughtUp == /\ start_block # NoBlock /\ Active = {}
            /\ pagination_token = Available

(* A listener that has consumed every event holds a path to the contract's   *)
(* current root: handle_root_changed applies, for each root it does not      *)
(* skip, the last change of every sibling.                                   *)
PathTracksChain ==
    Undisturbed /\ CaughtUp /\ merkle_proof # NoPath => compute_root(merkle_proof) = Root(leaves)

(* A proof of VALID COMMITMENTS is stored, and gossiped, or on its way only  *)
(* for a root the contract has had, whether the startup thread or            *)
(* update_wallet_commitment_proofs asked for it.                             *)
ProofsOfRealRoots ==
    Undisturbed =>
        \A root \in ({validity_proof[o] : o \in Orders} \ {NoProof})
                    \cup {j.root : j \in Range(job_queue) \cup answers} :
            \E n \in InitialLeaves..leaves : root = Root(n)

(* The nullifiers shot down are those the chain has seen spent since the     *)
(* start block, each once, and all of them when the listener has caught up.  *)
(* Overlapping polls do no harm unless one moves the token between the load  *)
(* and the store of another.                                                 *)
SpentSince == {e.val : e \in {f \in Range(events) : f.key = "spent" /\ f.block >= start_block}}
SpentHandledOnce ==
    ~history.failed /\ ~history.raced /\ start_block # NoBlock =>
        /\ IsInjective(shootdowns) /\ Range(shootdowns) \subseteq SpentSince
        /\ CaughtUp => Range(shootdowns) = SpentSince

(* A cancelled proof manager takes at most the one job it was blocked on. *)
OneJobAfterCancel == history.late <= 1

(* A nullifier spent on the chain reaches the handshake manager, unless a    *)
(* query fails or two polls race for the token.                              *)
SpentIsHandled ==
    \A n \in Nullifiers :
        (start_block # NoBlock /\ n \in SpentSince)
            ~> (n \in Range(shootdowns) \/ history.failed \/ history.raced)

(* The path built at startup opens the contract's root, the values of the    *)
(* siblings never written being "recursive hashes of the empty leaf value".  *)
StartupPathOpens ==
    init.pc = "attach" => compute_root(init.path) = Root(init.seen)
=============================================================================
