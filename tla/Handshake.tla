------------------------------ MODULE Handshake ------------------------------
(***************************************************************************)
(* The handshake manager of one relayer (core/src/handshake): how a match  *)
(* is proposed or accepted, registered in the state index, run as an MPC,  *)
(* recorded, and shot down when a nullifier of it is spent on chain.       *)
(*                                                                         *)
(* Every job runs in a task of its own, so anything may happen between two *)
(* lock acquisitions of a handler; each step below is one acquisition.     *)
(* The peer, the network manager and the chain are the environment.  The   *)
(* order book (module OrderBook) is reduced to the nullifier of the proof  *)
(* it holds for an order; for an order of ours the witness comes and goes  *)
(* with the proof.                                                         *)
(***************************************************************************)
EXTENDS Naturals, FiniteSets

CONSTANTS
    Requests,      \* bound: handshakes over the life of the relayer
    LocalOrders,   \* orders of the local cluster
    PeerOrders,    \* orders of other clusters
    Nullifiers,    \* match nullifiers
    WalletNullifiers,  \* order -> the nullifiers its wallet goes through
    None

Orders == LocalOrders \cup PeerOrders
Pairs == LocalOrders \X PeerOrders

ASSUME OrdersAssumption ==
    /\ LocalOrders \cap PeerOrders = {}
    /\ WalletNullifiers \in [Orders -> (SUBSET Nullifiers) \ {{}}]
    /\ None \notin Nullifiers

\* An entry of state_map.
HandshakeState ==
    [state: {"OrderNegotiation", "MatchInProgress", "Completed"}, cancel_channel: BOOLEAN]

ASSUME NoneAssumption == None \notin Requests /\ None \notin HandshakeState

VARIABLES
    nullifier,       \* order book: nullifier of the proof held, or None
    state_map,       \* HandshakeStateIndex.state_map: a state and whether a cancel
                     \* channel is allocated, None when absent
    nullifier_map,   \* HandshakeStateIndex.nullifier_map
    state_lock,      \* request whose completed() holds the state_map lock
    reg,             \* the orders of a handshake and the nullifiers looked up
    hs,              \* where the handler that registers it stands
    net,             \* the connection the MPC is to run over
    mpc,             \* where the MPC thread stands
    cancel,          \* signals in the request's cancel channel
    cache,           \* handshake_cache
    matched,         \* RelayerState.matched_order_pairs
    shoot,           \* the MpcShootdown job of a nullifier: where it stands, the
                     \* requests to treat, the current one and if it has a channel
    nullify,         \* the nullify_orders call after the job was enqueued
    signalled        \* history: requests signalled before their last check

index == <<state_map, nullifier_map, state_lock>>
flow == <<reg, hs, net, mpc>>
events == <<shoot, nullify>>
vars == <<nullifier, index, flow, cancel, cache, matched, events, signalled>>

LocalOrder(r) == reg[r].pair[1]
PeerOrder(r) == reg[r].pair[2]

\* A request whose new_handshake holds the order book read lock.
ReadsBook(r) == hs[r] \in {"insert_state", "insert_index"}

\* No task sits on the state_map lock.
StateMapFree == state_lock = None

\* The MPC thread still owns the receiving end of the cancel channel.
ReceiverAlive(r) == mpc[r] \in {"linking", "mpc", "proving", "sharing", "opening"}

\* HandshakeCache::contains
contains(pair) == cache[pair] \in {"completed", "invisible"}

mark_completed(pair) == cache' = [cache EXCEPT ![pair] = "completed"]
mark_invisible(pair) == cache' = [cache EXCEPT ![pair] = "invisible"]

-----------------------------------------------------------------------------
(* Proposing and accepting.                                                *)

\* perform_handshake: choose_match_proposal picks a local order that is ready
\* and not cached with the scheduled peer order, which may meanwhile have lost
\* its proof; the proposal is sent before the handshake is registered.
PerformHandshake(r, pair) ==
    /\ hs[r] = "unused"
    /\ nullifier[pair[1]] # None
    /\ ~contains(pair)
    /\ reg' = [reg EXCEPT ![r] = [pair |-> pair, nullifiers |-> {}]]
    /\ hs' = [hs EXCEPT ![r] = "lookup"]
    /\ net' = [net EXCEPT ![r] = "awaiting"]
    /\ UNCHANGED <<nullifier, index, mpc, cancel, cache, matched, events, signalled>>

\* handle_propose_match_candidate: the peer's order must be Verified.
ReceiveProposal(r, pair) ==
    /\ hs[r] = "unused"
    /\ nullifier[pair[2]] # None
    /\ reg' = [reg EXCEPT ![r] = [pair |-> pair, nullifiers |-> {}]]
    /\ hs' = [hs EXCEPT ![r] = "check_local"]
    /\ UNCHANGED <<nullifier, index, net, mpc, cancel, cache, matched, events, signalled>>

\* order_ready_for_handshake, under a new order book lock.
CheckLocalReady(r) ==
    /\ hs[r] = "check_local"
    /\ hs' = [hs EXCEPT ![r] = IF nullifier[LocalOrder(r)] # None THEN "lookup" ELSE "ended"]
    /\ UNCHANGED <<nullifier, index, reg, net, mpc, cancel, cache, matched, events, signalled>>

\* new_handshake, first part: both proofs must be there.  The order book read
\* lock taken here is held to the end of new_handshake.
LookupNullifiers(r) ==
    /\ hs[r] = "lookup"
    /\ IF nullifier[LocalOrder(r)] # None /\ nullifier[PeerOrder(r)] # None
       THEN /\ reg' = [reg EXCEPT ![r].nullifiers =
                          {nullifier[LocalOrder(r)], nullifier[PeerOrder(r)]}]
            /\ hs' = [hs EXCEPT ![r] = "insert_state"]
       ELSE /\ hs' = [hs EXCEPT ![r] = "ended"]
            /\ UNCHANGED reg
    /\ UNCHANGED <<nullifier, index, net, mpc, cancel, cache, matched, events, signalled>>

InsertState(r) ==
    /\ hs[r] = "insert_state"
    /\ StateMapFree
    /\ state_map' = [state_map EXCEPT ![r] =
                       [state |-> "OrderNegotiation", cancel_channel |-> FALSE]]
    /\ hs' = [hs EXCEPT ![r] = "insert_index"]
    /\ UNCHANGED <<nullifier, nullifier_map, state_lock, reg, net, mpc, cancel, cache,
                   matched, events, signalled>>

\* Faulty variant: only the local nullifier is indexed.
InsertLocalIndex(r) ==
    /\ hs[r] = "insert_index"
    /\ nullifier_map' = [n \in Nullifiers |->
          IF n \in reg[r].nullifiers \cap WalletNullifiers[LocalOrder(r)]
          THEN nullifier_map[n] \cup {r} ELSE nullifier_map[n]]
    /\ hs' = [hs EXCEPT ![r] = IF net[r] = "none" THEN "cache_check" ELSE "registered"]
    /\ UNCHANGED <<nullifier, state_map, state_lock, reg, net, mpc, cancel, cache, matched,
                   events, signalled>>

\* The initiator is done; the responder goes on to look at the cache.
InsertIndex(r) ==
    /\ hs[r] = "insert_index"
    /\ nullifier_map' = [n \in Nullifiers |->
          IF n \in reg[r].nullifiers THEN nullifier_map[n] \cup {r} ELSE nullifier_map[n]]
    /\ hs' = [hs EXCEPT ![r] = IF net[r] = "none" THEN "cache_check" ELSE "registered"]
    /\ UNCHANGED <<nullifier, state_map, state_lock, reg, net, mpc, cancel, cache, matched,
                   events, signalled>>

\* The responder rejects a cached pair, leaving the state entry where it is, or
\* has the connection brokered.
RespondToProposal(r) ==
    /\ hs[r] = "cache_check"
    /\ hs' = [hs EXCEPT ![r] = "registered"]
    /\ net' = [net EXCEPT ![r] = IF contains(reg[r].pair) THEN "closed" ELSE "brokered"]
    /\ UNCHANGED <<nullifier, index, reg, mpc, cancel, cache, matched, events, signalled>>

\* The peer's answer to a proposal of ours; it may overtake the registration.
\* handle_execute_match marks the pair completed before anything has run.
HandleExecuteMatch(r) ==
    /\ net[r] = "awaiting"
    /\ mark_completed(reg[r].pair)
    /\ net' = [net EXCEPT ![r] = "brokered"]
    /\ UNCHANGED <<nullifier, index, reg, hs, mpc, cancel, matched, events, signalled>>

\* handle_proposal_rejection
HandleRejection(r) ==
    /\ net[r] = "awaiting"
    /\ mark_completed(reg[r].pair) \/ UNCHANGED cache
    /\ net' = [net EXCEPT ![r] = "closed"]
    /\ UNCHANGED <<nullifier, index, reg, hs, mpc, cancel, matched, events, signalled>>

\* BrokerMpcNet fails (no dialable address): no MpcNetSetup job follows.
BrokerFails(r) ==
    /\ net[r] = "brokered"
    /\ net' = [net EXCEPT ![r] = "closed"]
    /\ UNCHANGED <<nullifier, index, reg, hs, mpc, cancel, cache, matched, events, signalled>>

-----------------------------------------------------------------------------
(* Running the match.                                                      *)

\* Faulty variant: the job can be delivered again.
MpcNetSetupAgain(r) ==
    /\ net[r] = "brokered"
    /\ StateMapFree
    /\ IF state_map[r] = None
       THEN mpc' = [mpc EXCEPT ![r] = "failed"] /\ UNCHANGED cache
       ELSE mpc' = [mpc EXCEPT ![r] = "fetched"] /\ mark_invisible(reg[r].pair)
    /\ UNCHANGED <<nullifier, index, reg, hs, net, cancel, matched, events, signalled>>

\* MpcNetSetup: an unknown request is an error, a known one is made invisible.
MpcNetSetup(r) ==
    /\ net[r] = "brokered"
    /\ StateMapFree
    /\ net' = [net EXCEPT ![r] = "closed"]
    /\ IF state_map[r] = None
       THEN mpc' = [mpc EXCEPT ![r] = "failed"] /\ UNCHANGED cache
       ELSE mpc' = [mpc EXCEPT ![r] = "fetched"] /\ mark_invisible(reg[r].pair)
    /\ UNCHANGED <<nullifier, index, reg, hs, cancel, matched, events, signalled>>

\* execute_match looks the state up again, and takes its own copy of it.
ExecuteMatch(r) ==
    /\ mpc[r] = "fetched"
    /\ StateMapFree
    /\ mpc' = [mpc EXCEPT ![r] = IF state_map[r] = None THEN "failed" ELSE "started"]
    /\ UNCHANGED <<nullifier, index, reg, hs, net, cancel, cache, matched, events, signalled>>

\* Faulty variant: the channel is not stored.
InProgressNoChannel(r) ==
    /\ mpc[r] = "started"
    /\ StateMapFree
    /\ state_map' = IF state_map[r] = None THEN state_map
                    ELSE [state_map EXCEPT ![r].state = "MatchInProgress"]
    /\ mpc' = [mpc EXCEPT ![r] = "linking"]
    /\ UNCHANGED <<nullifier, nullifier_map, state_lock, reg, hs, net, cancel, cache,
                   matched, events, signalled>>

\* in_progress: the cancel channel is registered, if there is still an entry;
\* the MPC goes on in either case.
InProgress(r) ==
    /\ mpc[r] = "started"
    /\ StateMapFree
    /\ state_map' = IF state_map[r] = None THEN state_map
                    ELSE [state_map EXCEPT ![r] = [state |-> "MatchInProgress",
                                                   cancel_channel |-> TRUE]]
    /\ mpc' = [mpc EXCEPT ![r] = "linking"]
    /\ UNCHANGED <<nullifier, nullifier_map, state_lock, reg, hs, net, cancel, cache,
                   matched, events, signalled>>

\* execute_match_impl: connect, then fetch the witness for the local order.
LinkWitness(r) ==
    /\ mpc[r] = "linking"
    /\ mpc' = [mpc EXCEPT ![r] = IF nullifier[LocalOrder(r)] # None THEN "mpc" ELSE "failed"]
    /\ UNCHANGED <<nullifier, index, reg, hs, net, cancel, cache, matched, events, signalled>>

\* Each of the three phases (MPC, collaborative proof, exchange of fees and
\* keys) ends with a look at the cancel channel.
CheckCancel(r, from, to) ==
    /\ mpc[r] = from
    /\ mpc' = [mpc EXCEPT ![r] = IF cancel[r] = 0 THEN to ELSE "failed"]
    /\ UNCHANGED <<nullifier, index, reg, hs, net, cancel, cache, matched, events, signalled>>

FinishMpc(r) == CheckCancel(r, "mpc", "proving")
FinishProof(r) == CheckCancel(r, "proving", "sharing")

\* Faulty variant: no last look at the channel before opening.
FinishExchangeUnchecked(r) ==
    /\ mpc[r] = "sharing"
    /\ mpc' = [mpc EXCEPT ![r] = "opening"]
    /\ UNCHANGED <<nullifier, index, reg, hs, net, cancel, cache, matched, events, signalled>>

FinishExchange(r) == CheckCancel(r, "sharing", "opening")

\* The match result is opened: both parties now know it.
OpenMatch(r) ==
    /\ mpc[r] = "opening"
    /\ mpc' = [mpc EXCEPT ![r] = "opened"]
    /\ UNCHANGED <<nullifier, index, reg, hs, net, cancel, cache, matched, events, signalled>>

\* The connection, the MPC or the proof fails.  The error is only logged: the
\* entries in the state index stay.
MpcFails(r) ==
    /\ ReceiverAlive(r)
    /\ mpc' = [mpc EXCEPT ![r] = "failed"]
    /\ UNCHANGED <<nullifier, index, reg, hs, net, cancel, cache, matched, events, signalled>>

\* record_completed_match, up to completed().
RecordCompletedMatch(r) ==
    /\ mpc[r] = "opened"
    /\ StateMapFree
    /\ IF state_map[r] = None
       THEN mpc' = [mpc EXCEPT ![r] = "failed"] /\ UNCHANGED <<cache, matched>>
       ELSE /\ mpc' = [mpc EXCEPT ![r] = "recording"]
            /\ mark_completed(reg[r].pair)
            /\ matched' = matched \cup {reg[r].pair}
    /\ UNCHANGED <<nullifier, index, reg, hs, net, cancel, events, signalled>>

\* completed() takes the write lock, and calls remove_handshake, which takes
\* the same lock, before it lets go.
Completed(r) ==
    /\ mpc[r] = "recording"
    /\ StateMapFree
    /\ state_lock' = r
    /\ state_map' = IF state_map[r] = None THEN state_map
                    ELSE [state_map EXCEPT ![r].state = "Completed"]
    /\ mpc' = [mpc EXCEPT ![r] = "completing"]
    /\ UNCHANGED <<nullifier, nullifier_map, reg, hs, net, cancel, cache, matched,
                   events, signalled>>

\* The first acquisition of remove_handshake inside completed().
CompletedRemove(r) ==
    /\ mpc[r] = "completing"
    /\ StateMapFree
    /\ state_map' = [state_map EXCEPT ![r] = None]
    /\ UNCHANGED <<nullifier, nullifier_map, state_lock, flow, cancel, cache, matched,
                   events, signalled>>

-----------------------------------------------------------------------------
(* The chain and the shootdown.                                            *)

\* A new proof moves an order to another nullifier of its wallet.  (A spent one
\* may come back: see StaleOnlyByRace in OrderBook.)
NewProof(o, n) ==
    /\ n \in WalletNullifiers[o]
    /\ \A r \in Requests : ~ReadsBook(r)
    /\ nullifier' = [nullifier EXCEPT ![o] = n]
    /\ UNCHANGED <<index, flow, cancel, cache, matched, events, signalled>>

\* handle_nullifier_spent enqueues the shootdown ...
EnqueueShootdown(n) ==
    /\ shoot[n].pc = "none"
    /\ shoot' = [shoot EXCEPT ![n].pc = "queued"]
    /\ nullify' = [nullify EXCEPT ![n] = "pending"]
    /\ UNCHANGED <<nullifier, index, flow, cancel, cache, matched, signalled>>

\* ... and then takes the order book write lock for nullify_orders.
NullifyOrders(n) ==
    /\ nullify[n] = "pending"
    /\ \A r \in Requests : ~ReadsBook(r)
    /\ nullify' = [nullify EXCEPT ![n] = "done"]
    /\ nullifier' = [o \in Orders |-> IF nullifier[o] = n THEN None ELSE nullifier[o]]
    /\ UNCHANGED <<index, flow, cancel, cache, matched, shoot, signalled>>

LoopPc(todo) == IF todo = {} THEN "done" ELSE "loop"

\* shootdown_nullifier takes the nullifier's requests out of the index.
ShootdownTake(n) ==
    /\ shoot[n].pc = "queued"
    /\ shoot' = [shoot EXCEPT ![n].pc = LoopPc(nullifier_map[n]), ![n].todo = nullifier_map[n]]
    /\ nullifier_map' = [nullifier_map EXCEPT ![n] = {}]
    /\ UNCHANGED <<nullifier, state_map, state_lock, flow, cancel, cache, matched, nullify,
                   signalled>>

\* Faulty variant: the state entry is read, not removed.
ShootdownPeek(n, r) ==
    /\ shoot[n].pc = "loop"
    /\ r \in shoot[n].todo
    /\ StateMapFree
    /\ shoot' = [shoot EXCEPT ![n].pc = IF state_map[r] = None THEN LoopPc(shoot[n].todo \ {r})
                                                              ELSE "unindex",
                              ![n].todo = @ \ {r},
                              ![n].cur = IF state_map[r] = None THEN None ELSE r,
                              ![n].channel = state_map[r] # None /\ state_map[r].cancel_channel]
    /\ UNCHANGED <<nullifier, index, flow, cancel, cache, matched, nullify, signalled>>

\* Faulty variant: a request whose entry the other shootdown has removed is
\* waited for.
ShootdownAwaitsEntry(n, r) ==
    /\ shoot[n].pc = "loop"
    /\ r \in shoot[n].todo
    /\ StateMapFree
    /\ state_map[r] # None
    /\ shoot' = [shoot EXCEPT ![n].pc = "unindex", ![n].todo = @ \ {r}, ![n].cur = r,
                              ![n].channel = state_map[r].cancel_channel]
    /\ state_map' = [state_map EXCEPT ![r] = None]
    /\ UNCHANGED <<nullifier, nullifier_map, state_lock, flow, cancel, cache, matched, nullify,
                   signalled>>

\* remove_handshake for one request of the loop: the state entry goes first; a
\* request without one needs nothing more.
ShootdownRemove(n, r) ==
    /\ shoot[n].pc = "loop"
    /\ r \in shoot[n].todo
    /\ StateMapFree
    /\ IF state_map[r] = None
       THEN /\ shoot' = [shoot EXCEPT ![n].pc = LoopPc(shoot[n].todo \ {r}), ![n].todo = @ \ {r}]
            /\ UNCHANGED state_map
       ELSE /\ shoot' = [shoot EXCEPT ![n].pc = "unindex", ![n].todo = @ \ {r}, ![n].cur = r,
                                     ![n].channel = state_map[r].cancel_channel]
            /\ state_map' = [state_map EXCEPT ![r] = None]
    /\ UNCHANGED <<nullifier, nullifier_map, state_lock, flow, cancel, cache, matched, nullify,
                   signalled>>

\* Capacity of the cancel channel, bounded(1).
ChannelCapacity == 1

\* Faulty variant: the request stays indexed under its other nullifier.
ShootdownSendOneSided(n) ==
    LET r == shoot[n].cur
        sends == shoot[n].channel /\ ReceiverAlive(r)
    IN  /\ shoot[n].pc = "unindex"
        /\ sends => cancel[r] < ChannelCapacity
        /\ nullifier_map' = [nullifier_map EXCEPT ![n] = @ \ {r}]
        /\ cancel' = IF sends THEN [cancel EXCEPT ![r] = @ + 1] ELSE cancel
        /\ signalled' = IF sends /\ mpc[r] # "opening" THEN signalled \cup {r} ELSE signalled
        /\ shoot' = [shoot EXCEPT ![n].pc = LoopPc(shoot[n].todo),
                                  ![n].cur = None, ![n].channel = FALSE]
        /\ UNCHANGED <<nullifier, state_map, state_lock, flow, cache, matched, nullify>>

\* The rest of remove_handshake, and the signal.  Sending to a thread that is
\* gone is an error, which the `?' makes the end of the whole loop; sending to a
\* full channel would block.
ShootdownSend(n) ==
    LET r == shoot[n].cur
        dead == shoot[n].channel /\ ~ReceiverAlive(r)
        sends == shoot[n].channel /\ ReceiverAlive(r)
    IN  /\ shoot[n].pc = "unindex"
        /\ sends => cancel[r] < ChannelCapacity
        /\ nullifier_map' = [m \in Nullifiers |->
              IF m \in reg[r].nullifiers THEN nullifier_map[m] \ {r} ELSE nullifier_map[m]]
        /\ cancel' = IF sends THEN [cancel EXCEPT ![r] = @ + 1] ELSE cancel
        /\ signalled' = IF sends /\ mpc[r] # "opening" THEN signalled \cup {r} ELSE signalled
        /\ shoot' = [shoot EXCEPT ![n].pc = IF dead THEN "aborted" ELSE LoopPc(shoot[n].todo),
                                  ![n].cur = None, ![n].channel = FALSE]
        /\ UNCHANGED <<nullifier, state_map, state_lock, flow, cache, matched, nullify>>

-----------------------------------------------------------------------------
(* What cluster peers and the clock do to the cache.                       *)

\* CacheEntry: a cluster peer completed a match on the pair.
CacheEntry(pair) ==
    /\ mark_completed(pair)
    /\ UNCHANGED <<nullifier, index, flow, cancel, matched, events, signalled>>

\* PeerMatchInProgress: a cluster peer is about to match the pair.
PeerMatchInProgress(pair) ==
    /\ mark_invisible(pair)
    /\ UNCHANGED <<nullifier, index, flow, cancel, matched, events, signalled>>

\* The invisibility window elapses.
WindowElapses(pair) ==
    /\ cache[pair] = "invisible"
    /\ cache' = [cache EXCEPT ![pair] = "none"]
    /\ UNCHANGED <<nullifier, index, flow, cancel, matched, events, signalled>>

-----------------------------------------------------------------------------
Init ==
    /\ nullifier \in {f \in [Orders -> Nullifiers] : \A o \in Orders : f[o] \in WalletNullifiers[o]}
    /\ state_map = [r \in Requests |-> None]
    /\ nullifier_map = [n \in Nullifiers |-> {}]
    /\ state_lock = None
    /\ reg = [r \in Requests |-> None]
    /\ hs = [r \in Requests |-> "unused"]
    /\ net = [r \in Requests |-> "none"]
    /\ mpc = [r \in Requests |-> "none"]
    /\ cancel = [r \in Requests |-> 0]
    /\ cache = [pair \in Pairs |-> "none"]
    /\ matched = {}
    /\ shoot = [n \in Nullifiers |->
                  [pc |-> "none", todo |-> {}, cur |-> None, channel |-> FALSE]]
    /\ nullify = [n \in Nullifiers |-> "none"]
    /\ signalled = {}

\* The steps of the task that handles the job of a request.
Register(r) ==
    CheckLocalReady(r) \/ LookupNullifiers(r) \/ InsertState(r) \/ InsertIndex(r)
      \/ RespondToProposal(r)

Match(r) ==
    MpcNetSetup(r) \/ ExecuteMatch(r) \/ InProgress(r) \/ LinkWitness(r) \/ FinishMpc(r)
      \/ FinishProof(r) \/ FinishExchange(r) \/ OpenMatch(r) \/ RecordCompletedMatch(r)
      \/ Completed(r)

Shoot(n) == ShootdownTake(n) \/ (\E r \in Requests : ShootdownRemove(n, r)) \/ ShootdownSend(n)

Next ==
    \/ \E r \in Requests, pair \in Pairs : PerformHandshake(r, pair) \/ ReceiveProposal(r, pair)
    \/ \E r \in Requests : \/ Register(r) \/ Match(r) \/ MpcFails(r)
                           \/ HandleExecuteMatch(r) \/ HandleRejection(r) \/ BrokerFails(r)
    \/ \E n \in Nullifiers : EnqueueShootdown(n) \/ NullifyOrders(n) \/ Shoot(n)
    \/ \E o \in Orders, n \in Nullifiers : NewProof(o, n)
    \/ \E pair \in Pairs : CacheEntry(pair) \/ PeerMatchInProgress(pair) \/ WindowElapses(pair)

Spec == Init /\ [][Next]_vars

\* Every task that can go on eventually does (a fair runtime), and the phases of
\* an MPC end, if only with an error.
Fairness ==
    /\ \A r \in Requests : WF_vars(Register(r)) /\ WF_vars(Match(r))
    /\ \A n \in Nullifiers : WF_vars(NullifyOrders(n)) /\ WF_vars(Shoot(n))

FairSpec == Spec /\ Fairness

\* With the step inside completed() that waits for the lock its caller holds.
CompletingSpec ==
    /\ Init /\ [][Next \/ \E r \in Requests : CompletedRemove(r)]_vars
    /\ Fairness
    /\ \A r \in Requests : WF_vars(CompletedRemove(r))

-----------------------------------------------------------------------------
(* Properties.                                                             *)

\* The shootdown of a nullifier has taken its requests out of the index.
Taken(n) == shoot[n].pc \notin {"none", "queued"}

\* nullifier_map leads only to live handshakes: a request under a nullifier has a
\* state entry, and that nullifier, or a shootdown is just removing it
\* (new_handshake and remove_handshake update the two maps one after the other).
IndexSound ==
    \A n \in Nullifiers : \A r \in nullifier_map[n] :
        /\ n \in reg[r].nullifiers
        /\ state_map[r] # None \/ \E m \in Nullifiers : shoot[m].cur = r

\* nullifier_map leads to every live handshake: one that is registered is found
\* under each of its nullifiers, unless it is still being registered or a
\* shootdown of that nullifier has begun.
IndexComplete ==
    \A r \in Requests : \A n \in Nullifiers :
        (state_map[r] # None /\ n \in reg[r].nullifiers)
          => r \in nullifier_map[n] \/ hs[r] = "insert_index" \/ Taken(n)

\* A running MPC can be cancelled: its channel is in the state index, unless a
\* shootdown on one of its nullifiers has already removed the entry.
RunningIsCancellable ==
    \A r \in Requests :
        ReceiverAlive(r) => \/ state_map[r] # None /\ state_map[r].cancel_channel
                            \/ \E n \in reg[r].nullifiers : Taken(n)

\* With both nullifiers of a match shot down at the same time, the cancel channel
\* (capacity 1) never gets a second signal, so shootdown_nullifier never blocks
\* on send while other matches wait to be cancelled.
SendNeverBlocks ==
    \A n \in Nullifiers :
        (shoot[n].pc = "unindex" /\ shoot[n].channel) => cancel[shoot[n].cur] < ChannelCapacity

\* The assertions of HandshakeState::in_progress and ::completed never fail.
AssertionsHold ==
    \A r \in Requests : state_map[r] # None =>
        /\ mpc[r] = "started" => state_map[r].state = "OrderNegotiation"
        /\ mpc[r] = "recording" => state_map[r].state \in {"OrderNegotiation", "MatchInProgress"}

\* A match signalled before its last look at the cancel channel is never opened,
\* whichever phase the signal found it in (execute_match_impl, build_handshake_result).
SignalledNeverOpens ==
    \A r \in signalled : mpc[r] \notin {"opening", "opened", "recording", "completing"}

\* Until a match completes (see CompletedLeaves), every shootdown job comes to an
\* end, and so does the nullify_orders call behind it: registration, match and the
\* shootdowns of both nullifiers never lock each other out.
ShootdownEnds ==
    \A n \in Nullifiers :
        shoot[n].pc = "queued" ~>
            \/ shoot[n].pc \in {"done", "aborted"} /\ nullify[n] = "done"
            \/ ~StateMapFree

(* What the comments say of the handshake manager.                         *)

\* state.rs:124 "Shootdown all active handshakes on a given nullifier", state.rs:134
\* "For each request, remove the state entry for the request and send a cancel
\* signal over the request's cancel channel if one has already been allocated":
\* when the job is over, no MPC it had to cancel is left running unsignalled.
ShootdownReachesAll ==
    \A n \in Nullifiers : shoot[n].pc \in {"done", "aborted"} =>
        \A r \in shoot[n].todo : ~(ReceiverAlive(r) /\ cancel[r] = 0 /\ state_map[r] # None)

\* state.rs:175 "For now, we simply remove the handshake from the state".
CompletedLeaves == \A r \in Requests : mpc[r] = "completing" ~> state_map[r] = None
=============================================================================
