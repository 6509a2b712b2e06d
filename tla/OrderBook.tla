------------------------------ MODULE OrderBook ------------------------------
(***************************************************************************)
(* The network order book of one relayer (core/src/state/orderbook.rs) and *)
(* every handler that writes it: the gossip handlers                       *)
(* (gossip/orderbook.rs, gossip/cluster.rs, gossip/heartbeat.rs), the      *)
(* startup thread (state/initialize.rs) and the chain listener             *)
(* (chain_events/listener.rs).                                             *)
(*                                                                         *)
(* The book sits behind one read/write lock, so each operation on it is    *)
(* one step.  A handler is NOT one step: it queries the contract or waits  *)
(* for the prover, and takes the lock only afterwards, possibly several    *)
(* times.  A `task' is such a handler between two of its lock              *)
(* acquisitions.                                                           *)
(*                                                                         *)
(* Proofs and witnesses are opaque: a proof is represented by the          *)
(* nullifier in its statement, a witness by its presence.                  *)
(***************************************************************************)
EXTENDS FiniteSets

CONSTANTS
    OrderIds,      \* order identifiers (Uuid)
    Wallets,       \* wallets of the local cluster, each the set of its orders
    Nullifiers,    \* wallet match nullifiers
    Tasks,         \* bound: handlers in flight at the same time
    None           \* Rust's Option::None

LocalOrders == UNION Wallets

ASSUME WalletsAssumption == Wallets \subseteq SUBSET OrderIds

VARIABLES
    order_map,             \* order -> NetworkOrder, or None when not indexed
    orders_by_nullifier,   \* nullifier -> set of orders
    local_orders,          \* orders maintained locally
    verified_orders,       \* the `verified_orders' set
    wallet_nullifier,      \* wallet index: nullifier of the stored wallet
    startup,               \* configured orders the startup thread has left
    task,                  \* handlers in flight
    proof_asked,           \* orders whose proof the cluster was asked for
    witness_asked,         \* orders whose witness the cluster was asked for
    spent,                 \* contract: nullifiers used on chain
    handled,               \* nullifiers whose event nullified the book
    raced                  \* history: nullifiers handled under a live task

book == <<order_map, orders_by_nullifier, local_orders, verified_orders>>
asked == <<proof_asked, witness_asked>>
chain == <<spent, handled, raced>>
vars == <<book, wallet_nullifier, startup, task, asked, chain>>

OrderStates == {"Received", "Verified", "Cancelled"}

NetworkOrder == [state: OrderStates, match_nullifier: Nullifiers,
                 proof: Nullifiers \cup {None}, witness: BOOLEAN]

ASSUME NoneAssumption == None \notin Nullifiers /\ None \notin NetworkOrder

TaskPcs == {"idle", "add_order", "check_contains", "add_missing",
            "attach_proof", "attach_witness", "await_prover"}

Task == [pc: TaskPcs, todo: SUBSET OrderIds, info: NetworkOrder \cup {None}]

contains_order(o) == order_map[o] # None

\* NetworkOrder::new
NewNetworkOrder(n) ==
    [state |-> "Received", match_nullifier |-> n, proof |-> None, witness |-> FALSE]

\* attach_commitment_proof: whatever the state was, it becomes Verified.
attach_commitment_proof(order, n) ==
    [order EXCEPT !.state = "Verified", !.match_nullifier = n, !.proof = n]

\* Faulty variant: the proof survives the cancellation.
CancelledKeepsProof(order) == [order EXCEPT !.state = "Cancelled", !.witness = FALSE]

\* NetworkOrder::transition_cancelled
Cancelled(order) ==
    [order EXCEPT !.state = "Cancelled", !.proof = None, !.witness = FALSE]

\* The NetworkOrders a relayer running this code can hold, hence send in an
\* OrderInfoResponse (BookWellFormed below shows the local book keeps to it).
WellFormed(order) ==
    /\ order.state = "Verified" <=> order.proof # None
    /\ order.proof # None => order.proof = order.match_nullifier

-----------------------------------------------------------------------------
(* Operations of NetworkOrderBook, each under the write lock.              *)

\* Faulty variants: the cluster of the order is not looked at; a Verified
\* record is not indexed as such.
AddOrderAlwaysLocal(o, info) ==
    /\ local_orders' = local_orders \cup {o}
    /\ verified_orders' = IF info.state = "Verified" THEN verified_orders \cup {o}
                                                     ELSE verified_orders
    /\ orders_by_nullifier' =
         [orders_by_nullifier EXCEPT ![info.match_nullifier] = @ \cup {o}]
    /\ order_map' = [order_map EXCEPT ![o] = info]

AddOrderNeverLocal(o, info) ==
    /\ verified_orders' = IF info.state = "Verified" THEN verified_orders \cup {o}
                                                     ELSE verified_orders
    /\ orders_by_nullifier' =
         [orders_by_nullifier EXCEPT ![info.match_nullifier] = @ \cup {o}]
    /\ order_map' = [order_map EXCEPT ![o] = info]
    /\ UNCHANGED local_orders

AddOrderUnverified(o, info) ==
    /\ local_orders' = IF o \in LocalOrders THEN local_orders \cup {o}
                                            ELSE local_orders
    /\ orders_by_nullifier' =
         [orders_by_nullifier EXCEPT ![info.match_nullifier] = @ \cup {o}]
    /\ order_map' = [order_map EXCEPT ![o] = info]
    /\ UNCHANGED verified_orders

add_order(o, info) ==
    /\ local_orders' = IF o \in LocalOrders THEN local_orders \cup {o}
                                            ELSE local_orders
    /\ verified_orders' = IF info.state = "Verified" THEN verified_orders \cup {o}
                                                     ELSE verified_orders
    /\ orders_by_nullifier' =
         [orders_by_nullifier EXCEPT ![info.match_nullifier] = @ \cup {o}]
    /\ order_map' = [order_map EXCEPT ![o] = info]

\* Faulty variant: the order is not indexed under the nullifier of its proof.
UpdateProofNoReindex(o, n) ==
    /\ order_map' = [order_map EXCEPT ![o] =
                       IF @ = None THEN None ELSE attach_commitment_proof(@, n)]
    /\ verified_orders' = verified_orders \cup {o}
    /\ UNCHANGED <<orders_by_nullifier, local_orders>>

update_order_validity_proof(o, n) ==
    /\ orders_by_nullifier' = [orders_by_nullifier EXCEPT ![n] = @ \cup {o}]
    /\ order_map' = [order_map EXCEPT ![o] =
                       IF @ = None THEN None ELSE attach_commitment_proof(@, n)]
    /\ verified_orders' = verified_orders \cup {o}
    /\ UNCHANGED local_orders

attach_validity_proof_witness(o) ==
    /\ order_map' = [order_map EXCEPT ![o] =
                       IF @ = None THEN None ELSE [@ EXCEPT !.witness = TRUE]]
    /\ UNCHANGED <<orders_by_nullifier, local_orders, verified_orders>>

\* Faulty variant: cancelled orders stay in verified_orders.
NullifyKeepsVerified(n) ==
    /\ order_map' = [o \in OrderIds |->
          IF o \in orders_by_nullifier[n] /\ contains_order(o) THEN Cancelled(order_map[o])
                                                               ELSE order_map[o]]
    /\ UNCHANGED <<orders_by_nullifier, local_orders, verified_orders>>

\* RelayerState::nullify_orders: transition_cancelled on every order indexed
\* under the nullifier; the index entry itself is kept.
nullify_orders(n) ==
    LET hit == {o \in orders_by_nullifier[n] : contains_order(o)}
    IN  /\ order_map' = [o \in OrderIds |-> IF o \in hit THEN Cancelled(order_map[o])
                                                         ELSE order_map[o]]
        /\ verified_orders' = verified_orders \ hit
        /\ UNCHANGED <<orders_by_nullifier, local_orders>>

\* RelayerState::add_wallets, one wallet: both index locks are held, and the
\* wallet's orders overwrite whatever the book had for them.
add_wallet_orders(w, n) ==
    /\ order_map' = [o \in OrderIds |-> IF o \in w THEN NewNetworkOrder(n)
                                                   ELSE order_map[o]]
    /\ orders_by_nullifier' = [orders_by_nullifier EXCEPT ![n] = @ \cup w]
    /\ local_orders' = local_orders \cup w
    /\ UNCHANGED verified_orders

get_nonlocal_verified_orders == verified_orders \ local_orders

-----------------------------------------------------------------------------
(* Handlers.                                                               *)

Idle == [pc |-> "idle", todo |-> {}, info |-> None]

Start(t, pc, todo, info) ==
    /\ task[t].pc = "idle"
    /\ task' = [task EXCEPT ![t] = [pc |-> pc, todo |-> todo, info |-> info]]

At(t, pc, o) == task[t].pc = pc /\ o \in task[t].todo

Goto(t, pc) == task' = [task EXCEPT ![t].pc = pc]

Finish(t) == task' = [task EXCEPT ![t] = Idle]

\* Faulty variant: the contract is not asked.
NullifierUnchecked(n) == TRUE

\* check_nullifier_unused: a call to the contract.  Only the answer "unused"
\* starts anything; a used nullifier, a failed call or a bad proof ends the
\* handler without an effect.
check_nullifier_unused(n) == n \notin spent

\* request_order_witness: only for orders of the local cluster.
request_order_witness(o) ==
    /\ witness_asked' = IF o \in LocalOrders THEN witness_asked \cup {o}
                                              ELSE witness_asked
    /\ UNCHANGED proof_asked

\* handle_order_info_response, up to the write lock.  The record was asked for
\* (merge_order_book) while the book did not have the order, by any number of
\* heartbeats; the answers come in any order and arbitrarily late.  Records
\* of the local cluster are trusted; only records with a proof are verified.
OrderInfoResponse(t, o, info) ==
    /\ WellFormed(info) /\ ~info.witness
    /\ (info.proof # None /\ o \notin LocalOrders) => check_nullifier_unused(info.proof)
    /\ Start(t, "add_order", {o}, info)
    /\ IF info.proof # None THEN request_order_witness(o) ELSE UNCHANGED asked
    /\ UNCHANGED <<book, wallet_nullifier, startup, chain>>

\* handle_new_order, up to the write lock.
NewOrder(t, o, n) ==
    /\ check_nullifier_unused(n)
    /\ Start(t, "add_order", {o}, NewNetworkOrder(n))
    /\ UNCHANGED <<book, wallet_nullifier, startup, asked, chain>>

\* RelayerState::add_order at the end of the two handlers above.
AddOrder(t, o) ==
    /\ At(t, "add_order", o)
    /\ add_order(o, task[t].info)
    /\ Finish(t)
    /\ UNCHANGED <<wallet_nullifier, startup, asked, chain>>

\* handle_new_validity_proof: verification, then three separate acquisitions
\* of the book lock: contains_order, add_order when missing, the proof.
NewValidityProof(t, o, n) ==
    /\ o \notin LocalOrders => check_nullifier_unused(n)
    /\ Start(t, "check_contains", {o}, NewNetworkOrder(n))
    /\ UNCHANGED <<book, wallet_nullifier, startup, asked, chain>>

CheckContains(t, o) ==
    /\ At(t, "check_contains", o)
    /\ Goto(t, IF contains_order(o) THEN "attach_proof" ELSE "add_missing")
    /\ UNCHANGED <<book, wallet_nullifier, startup, asked, chain>>

AddMissing(t, o) ==
    /\ At(t, "add_missing", o)
    /\ add_order(o, task[t].info)
    /\ Goto(t, "attach_proof")
    /\ UNCHANGED <<wallet_nullifier, startup, asked, chain>>

AttachProof(t, o) ==
    /\ At(t, "attach_proof", o)
    /\ update_order_validity_proof(o, task[t].info.match_nullifier)
    /\ Finish(t)
    /\ request_order_witness(o)
    /\ UNCHANGED <<wallet_nullifier, startup, chain>>

\* handle_updated_validity_proof: a cluster peer answers a proof request with
\* the proof it holds; nothing is checked.
UpdatedValidityProof(o, n) ==
    /\ o \in proof_asked
    /\ update_order_validity_proof(o, n)
    /\ UNCHANGED <<wallet_nullifier, startup, task, asked, chain>>

\* handle_validity_witness_response: the cluster peers that hold a witness
\* answer request_order_witness, each in its own time.
ValidityWitnessResponse(o) ==
    /\ o \in witness_asked
    /\ attach_validity_proof_witness(o)
    /\ UNCHANGED <<wallet_nullifier, startup, task, asked, chain>>

\* The startup thread holds the wallet index read lock from its first order
\* to its last, which keeps add_wallets out.
StartupHoldsWallets ==
    \/ startup \notin {{}, LocalOrders}
    \/ \E t \in Tasks : task[t].pc = "attach_witness"

\* handle_replicate_request for one wallet: store it, then ask the cluster
\* for the proofs of the orders without one.  add_wallets has just dropped the
\* proofs of all of them; that one may arrive before the request goes out is
\* left out, it only saves an answer.
Replicate(w, n) ==
    /\ ~StartupHoldsWallets
    /\ add_wallet_orders(w, n)
    /\ wallet_nullifier' = [wallet_nullifier EXCEPT ![w] = n]
    /\ proof_asked' = proof_asked \cup w
    /\ UNCHANGED <<startup, task, witness_asked, chain>>

\* initialize_order_proof_helper, one order of a configured wallet: add it
\* and, when a balance and a fee back it, queue its proof and attach the
\* witness; the proof is awaited afterwards.
StartupOrder(t, w, o) ==
    /\ o \in startup \cap w
    /\ add_order(o, NewNetworkOrder(wallet_nullifier[w]))
    /\ \/ Start(t, "attach_witness", {o}, NewNetworkOrder(wallet_nullifier[w]))
       \/ UNCHANGED task
    /\ startup' = startup \ {o}
    /\ UNCHANGED <<wallet_nullifier, asked, chain>>

StartupWitness(t, o) ==
    /\ At(t, "attach_witness", o)
    /\ attach_validity_proof_witness(o)
    /\ Goto(t, "await_prover")
    /\ UNCHANGED <<wallet_nullifier, startup, asked, chain>>

\* update_wallet_commitment_proofs: the wallet's Merkle state is stale; queue
\* a new proof for each of its orders, all of which need a stored witness.
RefreshProofs(t, w) ==
    /\ w # {}
    /\ \A o \in w : contains_order(o) /\ order_map[o].witness
    /\ Start(t, "await_prover", w, NewNetworkOrder(wallet_nullifier[w]))
    /\ UNCHANGED <<book, wallet_nullifier, startup, asked, chain>>

\* The prover answers for one order (update_order_proof, or the last loop of
\* the startup thread).
ProverAnswer(t, o) ==
    /\ At(t, "await_prover", o)
    /\ update_order_validity_proof(o, task[t].info.match_nullifier)
    /\ IF task[t].todo = {o} THEN Finish(t)
       ELSE task' = [task EXCEPT ![t].todo = @ \ {o}]
    /\ UNCHANGED <<wallet_nullifier, startup, asked, chain>>

\* The contract marks a nullifier used.
SpendNullifier(n) ==
    /\ n \notin spent
    /\ spent' = spent \cup {n}
    /\ UNCHANGED <<book, wallet_nullifier, startup, task, asked, handled, raced>>

\* A handler in flight that carries the nullifier.
Carries(t, n) == task[t].pc # "idle" /\ task[t].info.match_nullifier = n

\* handle_nullifier_spent.  Overlapping polls may deliver an event twice.
HandleNullifierSpent(n) ==
    /\ n \in spent
    /\ nullify_orders(n)
    /\ handled' = handled \cup {n}
    /\ raced' = IF \E t \in Tasks : Carries(t, n) THEN raced \cup {n} ELSE raced
    /\ UNCHANGED <<wallet_nullifier, startup, task, asked, spent>>

-----------------------------------------------------------------------------
Init ==
    /\ order_map = [o \in OrderIds |-> None]
    /\ orders_by_nullifier = [n \in Nullifiers |-> {}]
    /\ local_orders = {}
    /\ verified_orders = {}
    /\ wallet_nullifier \in [Wallets -> Nullifiers]
    /\ startup = LocalOrders
    /\ task = [t \in Tasks |-> Idle]
    /\ proof_asked = {}
    /\ witness_asked = {}
    /\ spent = {}
    /\ handled = {}
    /\ raced = {}

Next ==
    \/ \E o \in OrderIds : ValidityWitnessResponse(o)
    \/ \E o \in OrderIds, n \in Nullifiers : UpdatedValidityProof(o, n)
    \/ \E t \in Tasks, o \in OrderIds, info \in NetworkOrder : OrderInfoResponse(t, o, info)
    \/ \E t \in Tasks, o \in OrderIds, n \in Nullifiers :
          NewOrder(t, o, n) \/ NewValidityProof(t, o, n)
    \/ \E t \in Tasks, o \in OrderIds :
          \/ AddOrder(t, o) \/ CheckContains(t, o) \/ AddMissing(t, o)
          \/ AttachProof(t, o) \/ StartupWitness(t, o) \/ ProverAnswer(t, o)
    \/ \E w \in Wallets, n \in Nullifiers : Replicate(w, n)
    \/ \E t \in Tasks, w \in Wallets, o \in OrderIds : StartupOrder(t, w, o)
    \/ \E t \in Tasks, w \in Wallets : RefreshProofs(t, w)
    \/ \E n \in Nullifiers : SpendNullifier(n) \/ HandleNullifierSpent(n)

Spec == Init /\ [][Next]_vars

-----------------------------------------------------------------------------
(* Properties.                                                             *)

\* Every variable keeps its type.
TypeOK ==
    /\ order_map \in [OrderIds -> NetworkOrder \cup {None}]
    /\ orders_by_nullifier \in [Nullifiers -> SUBSET OrderIds]
    /\ local_orders \subseteq LocalOrders
    /\ verified_orders \subseteq OrderIds
    /\ wallet_nullifier \in [Wallets -> Nullifiers]
    /\ startup \subseteq LocalOrders
    /\ task \in [Tasks -> Task]
    /\ proof_asked \subseteq LocalOrders
    /\ witness_asked \subseteq LocalOrders
    /\ spent \subseteq Nullifiers
    /\ handled \subseteq spent
    /\ raced \subseteq handled

\* Across every mixture of overwrites, proofs and cancellations an order in
\* the book is Verified exactly when it holds a proof, and match_nullifier is
\* then the nullifier of that proof (attach_commitment_proof).
BookWellFormed ==
    \A o \in OrderIds : contains_order(o) => WellFormed(order_map[o])

\* However an order's nullifier was last changed (overwritten by gossip, moved
\* by a newer proof), the order is indexed under its current one, so
\* get_orders_by_nullifier cannot miss it.
NullifierIndexed ==
    \A o \in OrderIds : contains_order(o) =>
        o \in orders_by_nullifier[order_map[o].match_nullifier]

\* A Verified order is in verified_orders, so the scheduler can find it, and
\* verified_orders names only orders that are in the book.
VerifiedFindable ==
    /\ \A o \in OrderIds : contains_order(o) /\ order_map[o].state = "Verified"
          => o \in verified_orders
    /\ \A o \in verified_orders : contains_order(o)

\* choose_handshake_order samples get_nonlocal_verified_orders: an order of
\* the local cluster is never offered as a counterparty.
NoSelfMatch == get_nonlocal_verified_orders \cap LocalOrders = {}

\* When the nullifier-spent event of n is handled, every order then matched
\* under n is cancelled, without a proof, and no longer scheduled.
NullifyCancelsAll ==
    [][\A n \in handled' \ handled, o \in OrderIds :
          (contains_order(o) /\ order_map[o].match_nullifier = n)
            => /\ order_map'[o] = Cancelled(order_map[o])
               /\ o \notin verified_orders']_vars

\* After its event was handled, a nullifier can back a Verified order of
\* another cluster only if some handler carrying it was already past its
\* contract check at that moment: the check-then-add window of the gossip
\* handlers is the only way past check_nullifier_unused.
StaleOnlyByRace ==
    \A n \in handled \ raced, o \in OrderIds \ LocalOrders :
        contains_order(o) => ~(order_map[o].state = "Verified" /\ order_map[o].proof = n)
=============================================================================
