--------------------------- MODULE HandshakeProofs ---------------------------
(***************************************************************************)
(* Proofs about Handshake, for any sets of requests, orders and            *)
(* nullifiers.                                                             *)
(*                                                                         *)
(* The inductive invariant IInv has four parts: the types, how far the     *)
(* handler, the connection and the MPC thread of one request can be apart  *)
(* (FlowInv), what the two maps of the state index and the shootdown jobs  *)
(* say of each other (IndexInv), and where a cancel signal can be found    *)
(* (SignalInv).                                                            *)
(***************************************************************************)
EXTENDS Handshake, TLAPS

Registration == [pair: Pairs, nullifiers: SUBSET Nullifiers]

HsPcs == {"unused", "check_local", "lookup", "insert_state", "insert_index", "cache_check",
          "registered", "ended"}
NetPcs == {"none", "awaiting", "brokered", "closed"}
MpcPcs == {"none", "failed", "fetched", "started", "linking", "mpc", "proving", "sharing",
           "opening", "opened", "recording", "completing"}
ShootPcs == {"none", "queued", "loop", "unindex", "done", "aborted"}

IndexType ==
    /\ state_map \in [Requests -> HandshakeState \cup {None}]
    /\ nullifier_map \in [Nullifiers -> SUBSET Requests]
    /\ shoot \in [Nullifiers -> [pc: ShootPcs, todo: SUBSET Requests,
                                 cur: Requests \cup {None}, channel: BOOLEAN]]

FlowType ==
    /\ nullifier \in [Orders -> Nullifiers \cup {None}]
    /\ DOMAIN reg = Requests
    /\ hs \in [Requests -> HsPcs]
    /\ \A r \in Requests : hs[r] # "unused" => reg[r] \in Registration
    /\ net \in [Requests -> NetPcs]
    /\ mpc \in [Requests -> MpcPcs]
    /\ cancel \in [Requests -> {0, 1}]
    /\ signalled \subseteq Requests

\* new_handshake has written the state entry, or also the nullifiers.
StateInserted(r) == hs[r] \in {"insert_index", "cache_check", "registered"}
Indexed(r) == hs[r] \in {"cache_check", "registered"}

\* The thread of a request starts once the connection is set up, and only for a
\* request that has been registered; before that, and after a failed lookup, it
\* has left no trace in the entry.
FlowOK(r) ==
    /\ hs[r] \in {"unused", "check_local"} => net[r] = "none"
    /\ hs[r] = "cache_check" => net[r] = "none"
    /\ net[r] # "closed" => mpc[r] = "none"
    /\ mpc[r] \notin {"none", "failed"} => StateInserted(r)
    /\ hs[r] = "insert_index" => state_map[r] # None
    /\ state_map[r] # None =>
         /\ StateInserted(r)
         /\ mpc[r] \in {"none", "fetched", "started"} => state_map[r].state = "OrderNegotiation"
         /\ state_map[r].state = "Completed" => mpc[r] = "completing"
         /\ ReceiverAlive(r) => state_map[r].cancel_channel

FlowInv == \A r \in Requests : FlowOK(r)

\* A job in its loop holds requests registered under its nullifier; the one it
\* has just removed is no other job's, and has no entry any more.
ShootOK(n) ==
    /\ shoot[n].todo # {} => Taken(n)
    /\ \A r \in shoot[n].todo : Indexed(r) /\ n \in reg[r].nullifiers
    /\ shoot[n].pc = "unindex" <=> shoot[n].cur # None
    /\ \A r \in Requests : shoot[n].cur = r =>
         /\ Indexed(r) /\ state_map[r] = None
         /\ \A m \in Nullifiers : shoot[m].cur = r => m = n

\* An entry that is gone was removed by the shootdown of one of its nullifiers.
RemovedByShootdown ==
    \A r \in Requests : StateInserted(r) /\ state_map[r] = None =>
        \E n \in reg[r].nullifiers : n \in Nullifiers /\ Taken(n)

IndexInv ==
    /\ \A n \in Nullifiers : ShootOK(n)
    /\ \A n \in Nullifiers : \A r \in nullifier_map[n] : Indexed(r)
    /\ IndexSound
    /\ IndexComplete
    /\ RemovedByShootdown

\* A signal in the channel was sent by the only job that found the entry; a
\* thread signalled before its last look still has the signal to see.
SignalInv ==
    /\ \A r \in Requests : cancel[r] # 0 =>
         /\ Indexed(r) /\ state_map[r] = None
         /\ \A n \in Nullifiers : shoot[n].cur # r
    /\ \A r \in signalled :
         cancel[r] # 0 /\ mpc[r] \in {"linking", "mpc", "proving", "sharing", "failed"}

\* The inductive invariant.
IInv == IndexType /\ FlowType /\ FlowInv /\ IndexInv /\ SignalInv

\* An entry is never mistaken for its absence.
LEMMA EntryNotNone ==
  ASSUME NEW st \in {"OrderNegotiation", "MatchInProgress", "Completed"}, NEW ch \in BOOLEAN
  PROVE  [state |-> st, cancel_channel |-> ch] # None
  BY NoneAssumption DEF HandshakeState

\* A handshake is proposed: the request is registered, nothing is indexed yet.
LEMMA StepPerformHandshake ==
  ASSUME NEW r \in Requests, NEW pair \in Pairs, IInv, PerformHandshake(r, pair)
  PROVE  IInv'
  <1> USE DEF PerformHandshake
  <1>1. IndexType'
    BY DEF IInv, IndexType, index, events
  <1>2. FlowType'
    BY DEF IInv, FlowType, Registration, HsPcs, NetPcs
  <1>3. FlowInv'
    BY DEF IInv, FlowType, FlowInv, FlowOK, StateInserted, ReceiverAlive, index
  <1>4. IndexInv'
    BY DEF IInv, IndexInv, ShootOK, IndexSound, IndexComplete, RemovedByShootdown,
    Taken, Indexed, StateInserted, index, events
  <1>5. SignalInv'
    BY DEF IInv, SignalInv, Indexed, index, events
  <1> QED BY <1>1, <1>2, <1>3, <1>4, <1>5 DEF IInv

\* A proposal arrives, which registers its request.
LEMMA StepReceiveProposal ==
  ASSUME NEW r \in Requests, NEW pair \in Pairs, IInv, ReceiveProposal(r, pair)
  PROVE  IInv'
  <1> USE DEF ReceiveProposal
  <1>1. IndexType'
    BY DEF IInv, IndexType, index, events
  <1>2. FlowType'
    BY DEF IInv, FlowType, Registration, HsPcs
  <1>3. FlowInv'
    BY DEF IInv, FlowInv, FlowOK, StateInserted, ReceiverAlive, index
  <1>4. IndexInv'
    BY DEF IInv, IndexInv, ShootOK, IndexSound, IndexComplete, RemovedByShootdown,
    Taken, Indexed, StateInserted, index, events
  <1>5. SignalInv'
    BY DEF IInv, SignalInv, Indexed, index, events
  <1> QED BY <1>1, <1>2, <1>3, <1>4, <1>5 DEF IInv

\* The local order is looked up.
LEMMA StepCheckLocalReady ==
  ASSUME NEW r \in Requests, IInv, CheckLocalReady(r)
  PROVE  IInv'
  <1> USE DEF CheckLocalReady
  <1>1. IndexType'
    BY DEF IInv, IndexType, index, events
  <1>2. FlowType'
    BY DEF IInv, FlowType, HsPcs
  <1>3. FlowInv'
    BY DEF IInv, FlowInv, FlowOK, StateInserted, ReceiverAlive, index
  <1>4. IndexInv'
    BY DEF IInv, IndexInv, ShootOK, IndexSound, IndexComplete, RemovedByShootdown,
    Taken, Indexed, StateInserted, index, events
  <1>5. SignalInv'
    BY DEF IInv, SignalInv, Indexed, index, events
  <1> QED BY <1>1, <1>2, <1>3, <1>4, <1>5 DEF IInv

\* The nullifiers of the two orders are read; a missing one ends the handler.
LEMMA StepLookupNullifiers ==
  ASSUME NEW r \in Requests, IInv, LookupNullifiers(r)
  PROVE  IInv'
  <1> USE DEF LookupNullifiers
  <1>1. IndexType'
    BY DEF IInv, IndexType, index, events
  <1>2. FlowType'
    <2>1. reg[r] \in Registration
      BY DEF IInv, FlowType
    <2>2. LocalOrder(r) \in Orders /\ PeerOrder(r) \in Orders
      BY <2>1 DEF Registration, Pairs, Orders, LocalOrder, PeerOrder
    <2>3. reg'[r] \in Registration
      BY <2>2 DEF IInv, FlowType, Registration
    <2>4. DOMAIN reg' = Requests /\ \A q \in Requests \ {r} : reg'[q] = reg[q]
      BY DEF IInv, FlowType
    <2> QED BY <2>3 DEF IInv, FlowType, HsPcs
  <1>3. FlowInv'
    BY DEF IInv, FlowType, FlowInv, FlowOK, StateInserted, ReceiverAlive, index
  <1>4. IndexInv'
    <2>1. \A m \in Nullifiers : ShootOK(m)'
      BY DEF IInv, IndexType, FlowType, IndexInv, ShootOK, Taken, Indexed, index, events
    <2>2. \A m \in Nullifiers : \A q \in nullifier_map'[m] : Indexed(q)'
      BY DEF IInv, IndexType, FlowType, IndexInv, Indexed, index
    <2>3. IndexSound'
      BY DEF IInv, IndexType, FlowType, IndexInv, IndexSound, Indexed, index, events
    <2>4. IndexComplete'
      BY DEF IInv, FlowType, FlowInv, FlowOK, IndexInv, IndexComplete, Taken,
      StateInserted, index, events
    <2>5. RemovedByShootdown'
      BY DEF IInv, FlowType, IndexInv, RemovedByShootdown, Taken, StateInserted, index,
      events
    <2> QED BY <2>1, <2>2, <2>3, <2>4, <2>5 DEF IndexInv
  <1>5. SignalInv'
    BY DEF IInv, FlowType, SignalInv, Indexed, index, events
  <1> QED BY <1>1, <1>2, <1>3, <1>4, <1>5 DEF IInv

\* The entry is written into the state map.
LEMMA StepInsertState ==
  ASSUME NEW r \in Requests, IInv, InsertState(r)
  PROVE  IInv'
  <1> USE DEF InsertState
  <1>1. IndexType'
    BY DEF IInv, IndexType, HandshakeState, events
  <1>2. FlowType'
    BY DEF IInv, FlowType, HsPcs
  <1>3. FlowInv'
    BY EntryNotNone, Zenon DEF IInv, IndexType, FlowType, FlowInv, FlowOK, StateInserted,
    ReceiverAlive
  <1>4. IndexInv'
    <2>1. \A m \in Nullifiers : ShootOK(m)'
      BY DEF IInv, IndexInv, ShootOK, Taken, Indexed, events
    <2>2. \A m \in Nullifiers : \A q \in nullifier_map'[m] : Indexed(q)'
      BY DEF IInv, IndexInv, Indexed
    <2>3. IndexSound'
      BY DEF IInv, IndexInv, IndexSound, Indexed, events
    <2>4. IndexComplete'
      BY DEF IInv, FlowType, IndexInv, IndexComplete, Taken, events
    <2>5. RemovedByShootdown'
      BY EntryNotNone, Zenon DEF IInv, IndexType, FlowType, IndexInv, RemovedByShootdown,
      Taken, StateInserted, events
    <2> QED BY <2>1, <2>2, <2>3, <2>4, <2>5 DEF IndexInv
  <1>5. SignalInv'
    BY DEF IInv, SignalInv, Indexed, events
  <1> QED BY <1>1, <1>2, <1>3, <1>4, <1>5 DEF IInv

\* The request is indexed under its nullifiers.
LEMMA StepInsertIndex ==
  ASSUME NEW r \in Requests, IInv, InsertIndex(r)
  PROVE  IInv'
  <1> USE DEF InsertIndex
  <1>1. IndexType'
    BY DEF IInv, IndexType, events
  <1>2. FlowType'
    BY DEF IInv, FlowType, HsPcs
  <1>3. FlowInv'
    BY DEF IInv, FlowInv, FlowOK, StateInserted, ReceiverAlive
  <1>4. IndexInv'
    <2>1. \A m \in Nullifiers : ShootOK(m)'
      BY DEF IInv, IndexInv, ShootOK, Taken, Indexed, events
    <2>2. \A m \in Nullifiers : \A q \in nullifier_map'[m] : Indexed(q)'
      BY DEF IInv, FlowType, IndexInv, Indexed
    <2>3. IndexSound'
      BY DEF IInv, IndexInv, IndexSound, FlowInv, FlowOK, events
    <2>4. IndexComplete'
      BY DEF IInv, IndexInv, IndexComplete, Taken, events
    <2>5. RemovedByShootdown'
      BY DEF IInv, IndexInv, RemovedByShootdown, Taken, StateInserted, events
    <2> QED BY <2>1, <2>2, <2>3, <2>4, <2>5 DEF IndexInv
  <1>5. SignalInv'
    BY DEF IInv, SignalInv, Indexed, events
  <1> QED BY <1>1, <1>2, <1>3, <1>4, <1>5 DEF IInv

\* The proposal is answered.
LEMMA StepRespondToProposal ==
  ASSUME NEW r \in Requests, IInv, RespondToProposal(r)
  PROVE  IInv'
  <1> USE DEF RespondToProposal
  <1>1. IndexType'
    BY DEF IInv, IndexType, index, events
  <1>2. FlowType'
    BY DEF IInv, FlowType, HsPcs, NetPcs
  <1>3. FlowInv'
    BY DEF IInv, FlowType, FlowInv, FlowOK, StateInserted, ReceiverAlive, index
  <1>4. IndexInv'
    BY DEF IInv, IndexInv, ShootOK, IndexSound, IndexComplete, RemovedByShootdown,
    Taken, Indexed, StateInserted, index, events
  <1>5. SignalInv'
    BY DEF IInv, SignalInv, Indexed, index, events
  <1> QED BY <1>1, <1>2, <1>3, <1>4, <1>5 DEF IInv

\* The peer agrees to execute the match.
LEMMA StepHandleExecuteMatch ==
  ASSUME NEW r \in Requests, IInv, HandleExecuteMatch(r)
  PROVE  IInv'
  <1> USE DEF HandleExecuteMatch
  <1>1. IndexType'
    BY DEF IInv, IndexType, index, events
  <1>2. FlowType'
    BY DEF IInv, FlowType, NetPcs
  <1>3. FlowInv'
    BY DEF IInv, FlowInv, FlowOK, StateInserted, ReceiverAlive, index
  <1>4. IndexInv'
    BY DEF IInv, IndexInv, ShootOK, IndexSound, IndexComplete, RemovedByShootdown,
    Taken, Indexed, StateInserted, index, events
  <1>5. SignalInv'
    BY DEF IInv, SignalInv, Indexed, index, events
  <1> QED BY <1>1, <1>2, <1>3, <1>4, <1>5 DEF IInv

\* The peer rejects the proposal.
LEMMA StepHandleRejection ==
  ASSUME NEW r \in Requests, IInv, HandleRejection(r)
  PROVE  IInv'
  <1> USE DEF HandleRejection
  <1>1. IndexType'
    BY DEF IInv, IndexType, index, events
  <1>2. FlowType'
    BY DEF IInv, FlowType, NetPcs
  <1>3. FlowInv'
    BY DEF IInv, FlowInv, FlowOK, StateInserted, ReceiverAlive, index
  <1>4. IndexInv'
    BY DEF IInv, IndexInv, ShootOK, IndexSound, IndexComplete, RemovedByShootdown,
    Taken, Indexed, StateInserted, index, events
  <1>5. SignalInv'
    BY DEF IInv, SignalInv, Indexed, index, events
  <1> QED BY <1>1, <1>2, <1>3, <1>4, <1>5 DEF IInv

\* The connection cannot be set up.
LEMMA StepBrokerFails ==
  ASSUME NEW r \in Requests, IInv, BrokerFails(r)
  PROVE  IInv'
  <1> USE DEF BrokerFails
  <1>1. IndexType'
    BY DEF IInv, IndexType, index, events
  <1>2. FlowType'
    BY DEF IInv, FlowType, NetPcs
  <1>3. FlowInv'
    BY DEF IInv, FlowInv, FlowOK, StateInserted, ReceiverAlive, index
  <1>4. IndexInv'
    BY DEF IInv, IndexInv, ShootOK, IndexSound, IndexComplete, RemovedByShootdown,
    Taken, Indexed, StateInserted, index, events
  <1>5. SignalInv'
    BY DEF IInv, SignalInv, Indexed, index, events
  <1> QED BY <1>1, <1>2, <1>3, <1>4, <1>5 DEF IInv

\* The connection is set up: a known request gets its MPC thread, an unknown one
\* is an error.
LEMMA StepMpcNetSetup ==
  ASSUME NEW r \in Requests, IInv, MpcNetSetup(r)
  PROVE  IInv'
  <1> USE DEF MpcNetSetup
  <1>1. IndexType'
    BY DEF IInv, IndexType, index, events
  <1>2. FlowType'
    BY DEF IInv, FlowType, NetPcs, MpcPcs
  <1>3. FlowInv'
    BY DEF IInv, FlowType, FlowInv, FlowOK, StateInserted, ReceiverAlive, index
  <1>4. IndexInv'
    BY DEF IInv, IndexInv, ShootOK, IndexSound, IndexComplete, RemovedByShootdown,
    Taken, Indexed, StateInserted, index, events
  <1>5. SignalInv'
    BY DEF IInv, FlowType, SignalInv, Indexed, index, events
  <1> QED BY <1>1, <1>2, <1>3, <1>4, <1>5 DEF IInv

\* The MPC thread looks its state up again.
LEMMA StepExecuteMatch ==
  ASSUME NEW r \in Requests, IInv, ExecuteMatch(r)
  PROVE  IInv'
  <1> USE DEF ExecuteMatch
  <1>1. IndexType'
    BY DEF IInv, IndexType, index, events
  <1>2. FlowType'
    BY DEF IInv, FlowType, MpcPcs
  <1>3. FlowInv'
    BY DEF IInv, FlowInv, FlowOK, StateInserted, ReceiverAlive, index
  <1>4. IndexInv'
    BY DEF IInv, IndexInv, ShootOK, IndexSound, IndexComplete, RemovedByShootdown,
    Taken, Indexed, StateInserted, index, events
  <1>5. SignalInv'
    BY DEF IInv, SignalInv, Indexed, index, events
  <1> QED BY <1>1, <1>2, <1>3, <1>4, <1>5 DEF IInv

\* The entry moves to MatchInProgress and gets its cancel channel, if it is
\* still there.
LEMMA StepInProgress ==
  ASSUME NEW r \in Requests, IInv, InProgress(r)
  PROVE  IInv'
  <1> USE DEF InProgress
  <1>1. IndexType'
    BY DEF IInv, IndexType, HandshakeState, events
  <1>2. FlowType'
    BY DEF IInv, FlowType, MpcPcs
  <1>3. FlowInv'
    <2>1. FlowOK(r)'
      <3>1. CASE state_map[r] = None
        BY <3>1 DEF IInv, FlowInv, FlowOK, StateInserted
      <3>2. CASE state_map[r] # None
        <4>1. state_map'[r] = [state |-> "MatchInProgress", cancel_channel |-> TRUE]
          BY <3>2 DEF IInv, IndexType
        <4> QED BY EntryNotNone, Zenon DEF IInv, IndexType, FlowType, FlowInv, FlowOK,
           StateInserted
      <3> QED BY <3>1, <3>2
    <2>2. ASSUME NEW q \in Requests \ {r} PROVE FlowOK(q)'
      BY DEF IInv, FlowInv, FlowOK, StateInserted, ReceiverAlive
    <2> QED BY <2>1, <2>2 DEF FlowInv
  <1>4. IndexInv'
    <2>1. \A m \in Nullifiers : ShootOK(m)'
      BY DEF IInv, IndexInv, ShootOK, Taken, Indexed, events
    <2>2. \A m \in Nullifiers : \A q \in nullifier_map'[m] : Indexed(q)'
      BY DEF IInv, IndexInv, Indexed
    <2>3. IndexSound'
      BY EntryNotNone, Zenon DEF IInv, IndexType, IndexInv, IndexSound, events
    <2>4. IndexComplete'
      BY SMTT(30) DEF IInv, IndexInv, IndexComplete, Taken, events
    <2>5. RemovedByShootdown'
      BY EntryNotNone, Zenon DEF IInv, IndexType, IndexInv, RemovedByShootdown, Taken,
      StateInserted, events
    <2> QED BY <2>1, <2>2, <2>3, <2>4, <2>5 DEF IndexInv
  <1>5. SignalInv'
    BY DEF IInv, SignalInv, Indexed, events
  <1> QED BY <1>1, <1>2, <1>3, <1>4, <1>5 DEF IInv

\* The witness is linked.
LEMMA StepLinkWitness ==
  ASSUME NEW r \in Requests, IInv, LinkWitness(r)
  PROVE  IInv'
  <1> USE DEF LinkWitness
  <1>1. IndexType'
    BY DEF IInv, IndexType, index, events
  <1>2. FlowType'
    BY DEF IInv, FlowType, MpcPcs
  <1>3. FlowInv'
    BY DEF IInv, FlowInv, FlowOK, StateInserted, ReceiverAlive, index
  <1>4. IndexInv'
    BY DEF IInv, IndexInv, ShootOK, IndexSound, IndexComplete, RemovedByShootdown,
    Taken, Indexed, StateInserted, index, events
  <1>5. SignalInv'
    BY DEF IInv, SignalInv, Indexed, index, events
  <1> QED BY <1>1, <1>2, <1>3, <1>4, <1>5 DEF IInv

\* The thread looks at its cancel channel between two phases.
LEMMA StepCheckCancel ==
  ASSUME NEW r \in Requests, IInv, FinishMpc(r) \/ FinishProof(r) \/ FinishExchange(r)
  PROVE  IInv'
  <1> USE DEF CheckCancel, FinishMpc, FinishProof, FinishExchange
  <1>1. IndexType'
    BY DEF IInv, IndexType, index, events
  <1>2. FlowType'
    BY DEF IInv, FlowType, MpcPcs
  <1>3. FlowInv'
    BY SMTT(30) DEF IInv, FlowType, FlowInv, FlowOK, StateInserted, ReceiverAlive, index
  <1>4. IndexInv'
    BY DEF IInv, IndexInv, ShootOK, IndexSound, IndexComplete, RemovedByShootdown,
    Taken, Indexed, StateInserted, index, events
  <1>5. SignalInv'
    BY DEF IInv, FlowType, SignalInv, Indexed, index, events
  <1> QED BY <1>1, <1>2, <1>3, <1>4, <1>5 DEF IInv

\* The match is opened, after the last look.
LEMMA StepOpenMatch ==
  ASSUME NEW r \in Requests, IInv, OpenMatch(r)
  PROVE  IInv'
  <1> USE DEF OpenMatch
  <1>1. IndexType'
    BY DEF IInv, IndexType, index, events
  <1>2. FlowType'
    BY SMTT(30) DEF IInv, FlowType, MpcPcs
  <1>3. FlowInv'
    BY DEF IInv, FlowInv, FlowOK, StateInserted, ReceiverAlive, index
  <1>4. IndexInv'
    BY DEF IInv, IndexInv, ShootOK, IndexSound, IndexComplete, RemovedByShootdown,
    Taken, Indexed, StateInserted, index, events
  <1>5. SignalInv'
    BY DEF IInv, SignalInv, Indexed, index, events
  <1> QED BY <1>1, <1>2, <1>3, <1>4, <1>5 DEF IInv

\* The MPC fails.
LEMMA StepMpcFails ==
  ASSUME NEW r \in Requests, IInv, MpcFails(r)
  PROVE  IInv'
  <1> USE DEF MpcFails
  <1>1. IndexType'
    BY DEF IInv, IndexType, index, events
  <1>2. FlowType'
    BY DEF IInv, FlowType, MpcPcs
  <1>3. FlowInv'
    BY DEF IInv, FlowInv, FlowOK, StateInserted, ReceiverAlive, index
  <1>4. IndexInv'
    BY DEF IInv, IndexInv, ShootOK, IndexSound, IndexComplete, RemovedByShootdown,
    Taken, Indexed, StateInserted, index, events
  <1>5. SignalInv'
    BY DEF IInv, SignalInv, Indexed, index, events
  <1> QED BY <1>1, <1>2, <1>3, <1>4, <1>5 DEF IInv

\* The match is recorded.
LEMMA StepRecordCompletedMatch ==
  ASSUME NEW r \in Requests, IInv, RecordCompletedMatch(r)
  PROVE  IInv'
  <1> USE DEF RecordCompletedMatch
  <1>1. IndexType'
    BY DEF IInv, IndexType, index, events
  <1>2. FlowType'
    BY DEF IInv, FlowType, MpcPcs
  <1>3. FlowInv'
    BY SMTT(30) DEF IInv, FlowType, FlowInv, FlowOK, StateInserted, ReceiverAlive, index
  <1>4. IndexInv'
    BY DEF IInv, IndexInv, ShootOK, IndexSound, IndexComplete, RemovedByShootdown,
    Taken, Indexed, StateInserted, index, events
  <1>5. SignalInv'
    BY DEF IInv, FlowType, SignalInv, Indexed, index, events
  <1> QED BY <1>1, <1>2, <1>3, <1>4, <1>5 DEF IInv

\* The entry moves to Completed, if it is still there.
LEMMA StepCompleted ==
  ASSUME NEW r \in Requests, IInv, Completed(r)
  PROVE  IInv'
  <1> USE DEF Completed
  <1>1. IndexType'
    BY DEF IInv, IndexType, HandshakeState, events
  <1>2. FlowType'
    BY DEF IInv, FlowType, MpcPcs
  <1>3. FlowInv'
    BY NoneAssumption DEF IInv, IndexType, FlowType, FlowInv, FlowOK, HandshakeState,
    StateInserted, ReceiverAlive
  <1>4. IndexInv'
    <2>1. \A m \in Nullifiers : ShootOK(m)'
      BY DEF IInv, IndexInv, ShootOK, Taken, Indexed, events
    <2>2. \A m \in Nullifiers : \A q \in nullifier_map'[m] : Indexed(q)'
      BY DEF IInv, IndexInv, Indexed
    <2>3. IndexSound'
      BY NoneAssumption DEF IInv, IndexType, IndexInv, IndexSound, HandshakeState,
      events
    <2>4. IndexComplete'
      BY DEF IInv, IndexInv, IndexComplete, Taken, events
    <2>5. RemovedByShootdown'
      BY NoneAssumption DEF IInv, IndexType, IndexInv, RemovedByShootdown, Taken,
      StateInserted, HandshakeState, events
    <2> QED BY <2>1, <2>2, <2>3, <2>4, <2>5 DEF IndexInv
  <1>5. SignalInv'
    BY DEF IInv, SignalInv, Indexed, events
  <1> QED BY <1>1, <1>2, <1>3, <1>4, <1>5 DEF IInv

\* A spent nullifier queues a shootdown.
LEMMA StepEnqueueShootdown ==
  ASSUME NEW n \in Nullifiers, IInv, EnqueueShootdown(n)
  PROVE  IInv'
  <1> USE DEF EnqueueShootdown
  <1>1. IndexType'
    BY DEF IInv, IndexType, ShootPcs, index
  <1>2. FlowType'
    BY DEF IInv, FlowType, flow
  <1>3. FlowInv'
    BY DEF IInv, FlowInv, FlowOK, StateInserted, ReceiverAlive, index, flow
  <1>4. IndexInv'
    BY DEF IInv, IndexInv, ShootOK, IndexSound, IndexComplete, RemovedByShootdown,
    Taken, Indexed, StateInserted, index, flow
  <1>5. SignalInv'
    BY DEF IInv, SignalInv, Indexed, index, flow
  <1> QED BY <1>1, <1>2, <1>3, <1>4, <1>5 DEF IInv

\* A shootdown removes its nullifier from the index and takes the requests
\* under it.
LEMMA StepShootdownTake ==
  ASSUME NEW n \in Nullifiers, IInv, ShootdownTake(n)
  PROVE  IInv'
  <1> USE DEF ShootdownTake
  <1>1. IndexType'
    <2>1. nullifier_map[n] \in SUBSET Requests
      BY DEF IInv, IndexType
    <2>2. shoot'[n] \in [pc: ShootPcs, todo: SUBSET Requests, cur: Requests \cup {None},
          channel: BOOLEAN]
      BY Zenon DEF IInv, IndexType, ShootPcs, LoopPc
    <2> QED BY <2>2 DEF IInv, IndexType
  <1>2. FlowType'
    BY DEF IInv, FlowType, flow
  <1>3. FlowInv'
    BY DEF IInv, FlowInv, FlowOK, StateInserted, ReceiverAlive, flow
  <1>4. IndexInv'
    <2>1. \A m \in Nullifiers : ShootOK(m)'
      <3>1. ShootOK(n)'
        <4>1. /\ shoot'[n].pc = LoopPc(nullifier_map[n]) /\ shoot'[n].todo = nullifier_map[n]
              /\ shoot'[n].cur = shoot[n].cur
              /\ \A m \in Nullifiers \ {n} : shoot'[m] = shoot[m]
              /\ shoot'[n].pc \in {"done", "loop"}
          BY DEF IInv, IndexType, LoopPc
        <4>2. shoot[n].cur = None
          BY DEF IInv, IndexInv, ShootOK
        <4> QED BY <4>1, NoneAssumption DEF IInv, IndexType, IndexInv, ShootOK, Taken
      <3>2. ASSUME NEW m \in Nullifiers \ {n} PROVE ShootOK(m)'
        <4>1. /\ \A k \in Nullifiers : shoot'[k].cur = shoot[k].cur
              /\ shoot'[m] = shoot[m]
          BY DEF IInv, IndexType
        <4> QED BY DEF IInv, IndexType, IndexInv, ShootOK, Taken, Indexed, flow
      <3> QED BY <3>1, <3>2
    <2>2. \A m \in Nullifiers : \A q \in nullifier_map'[m] : Indexed(q)'
      BY DEF IInv, IndexInv, Indexed, flow
    <2>3. IndexSound'
      BY DEF IInv, IndexType, IndexInv, IndexSound, flow
    <2>4. IndexComplete'
      BY DEF IInv, IndexType, IndexInv, IndexComplete, ShootOK, Taken, flow
    <2>5. RemovedByShootdown'
      BY DEF IInv, IndexType, IndexInv, RemovedByShootdown, Taken, StateInserted, flow
    <2> QED BY <2>1, <2>2, <2>3, <2>4, <2>5 DEF IndexInv
  <1>5. SignalInv'
    BY DEF IInv, IndexType, SignalInv, Indexed, flow
  <1> QED BY <1>1, <1>2, <1>3, <1>4, <1>5 DEF IInv

\* It removes that request from the index of its other nullifiers, and signals
\* the thread if the entry had a channel.
LEMMA StepShootdownSend ==
  ASSUME NEW n \in Nullifiers, IInv, ShootdownSend(n)
  PROVE  IInv'
  <1> USE DEF ShootdownSend
  <1>1. IndexType'
    <2>2. shoot'[n] \in [pc: ShootPcs, todo: SUBSET Requests, cur: Requests \cup {None},
          channel: BOOLEAN]
      BY Zenon DEF IInv, IndexType, ShootPcs, LoopPc
    <2>3. nullifier_map' \in [Nullifiers -> SUBSET Requests]
      BY DEF IInv, IndexType
    <2> QED BY <2>2 DEF IInv, IndexType
  <1>2. FlowType'
    <2>1. shoot[n].cur \in Requests
      BY DEF IInv, IndexType, IndexInv, ShootOK
    <2>2. cancel' \in [Requests -> {0, 1}]
      BY <2>1 DEF IInv, FlowType, ChannelCapacity
    <2>3. signalled' \subseteq Requests
      BY <2>1 DEF IInv, FlowType
    <2> QED BY <2>2 DEF IInv, FlowType, flow
  <1>3. FlowInv'
    BY DEF IInv, FlowInv, FlowOK, StateInserted, ReceiverAlive, flow
  <1>4. IndexInv'
    BY DEF IInv, IndexType, IndexInv, ShootOK
  <1>5. SignalInv'
    BY DEF IInv, IndexType, SignalInv, Indexed, flow
  <1> QED BY <1>1, <1>2, <1>3, <1>4, <1>5 DEF IInv

\* It removes the entry of one of them.
LEMMA StepShootdownRemove ==
  ASSUME NEW n \in Nullifiers, NEW r \in Requests, IInv, ShootdownRemove(n, r)
  PROVE  IInv'
  <1> USE DEF ShootdownRemove
  <1>1. IndexType'
    BY DEF IInv, IndexType
  <1>2. FlowType'
    BY DEF IInv, FlowType, flow
  <1>3. FlowInv'
    BY DEF IInv, IndexType
  <1>4. IndexInv'
    BY DEF IInv, IndexType
  <1>5. SignalInv'
    BY DEF IInv, IndexType
  <1> QED BY <1>1, <1>2, <1>3, <1>4, <1>5 DEF IInv

\* Only the order book's nullifiers, the cache or the calls of nullify_orders
\* change.
LEMMA StepElsewhere ==
  ASSUME IInv, nullifier' \in [Orders -> Nullifiers \cup {None}],
         UNCHANGED <<state_map, nullifier_map, shoot, reg, hs, net, mpc, cancel, signalled>>
  PROVE  IInv'
  <1>1. IndexType' /\ FlowType' /\ FlowInv' /\ SignalInv'
    BY DEF IInv, IndexType, FlowType, FlowInv, FlowOK, StateInserted, ReceiverAlive,
    SignalInv, Indexed
  <1>2. IndexInv'
    BY SMTT(30) DEF IInv, IndexInv, ShootOK, IndexSound, IndexComplete, RemovedByShootdown,
    Taken, Indexed, StateInserted
  <1> QED BY <1>1, <1>2 DEF IInv

\* Initially nothing is registered and no job has begun.
LEMMA InitIInv == Init => IInv
  <1> SUFFICES ASSUME Init PROVE IInv
    OBVIOUS
  <1> USE DEF Init
  <1>1. IndexType
    BY DEF IndexType, ShootPcs
  <1>2. FlowType
    BY DEF FlowType, HsPcs, NetPcs, MpcPcs
  <1>3. FlowInv
    BY DEF FlowInv, FlowOK
  <1>4. IndexInv
    BY NoneAssumption DEF IndexInv, ShootOK, IndexSound, IndexComplete,
    RemovedByShootdown, StateInserted
  <1>5. SignalInv
    BY DEF SignalInv
  <1> QED BY <1>1, <1>2, <1>3, <1>4, <1>5 DEF IInv

\* Every step keeps the invariant.
LEMMA NextIInv == IInv /\ [Next]_vars => IInv'
  <1> SUFFICES ASSUME IInv, [Next]_vars PROVE IInv'
    OBVIOUS
  <1>0. nullifier \in [Orders -> Nullifiers \cup {None}]
    BY DEF IInv, FlowType
  <1>1. CASE UNCHANGED vars
    BY <1>0, <1>1, StepElsewhere DEF vars, index, flow, events
  <1>2. ASSUME NEW r \in Requests, NEW pair \in Pairs,
               PerformHandshake(r, pair) \/ ReceiveProposal(r, pair)
        PROVE  IInv'
    BY <1>2, StepPerformHandshake, StepReceiveProposal
  <1>3. ASSUME NEW r \in Requests, Register(r) PROVE IInv'
    BY <1>3, StepCheckLocalReady, StepLookupNullifiers, StepInsertState,
    StepInsertIndex, StepRespondToProposal DEF Register
  <1>4. ASSUME NEW r \in Requests, Match(r) \/ MpcFails(r) PROVE IInv'
    BY <1>4, StepMpcNetSetup, StepExecuteMatch, StepInProgress, StepLinkWitness,
    StepCheckCancel, StepOpenMatch, StepRecordCompletedMatch, StepCompleted,
    StepMpcFails DEF Match
  <1>5. ASSUME NEW r \in Requests, HandleExecuteMatch(r) \/ HandleRejection(r) \/ BrokerFails(r)
        PROVE  IInv'
    BY <1>5, StepHandleExecuteMatch, StepHandleRejection, StepBrokerFails
  <1>6. ASSUME NEW n \in Nullifiers, EnqueueShootdown(n) \/ Shoot(n) PROVE IInv'
    BY <1>6, StepEnqueueShootdown, StepShootdownTake, StepShootdownRemove,
    StepShootdownSend DEF Shoot
  <1>7. ASSUME NEW n \in Nullifiers, NullifyOrders(n) PROVE IInv'
    <2>1. nullifier' \in [Orders -> Nullifiers \cup {None}]
      BY <1>0, <1>7, SMTT(30) DEF NullifyOrders
    <2> QED BY <1>7, <2>1, StepElsewhere DEF NullifyOrders, index, flow
  <1>8. ASSUME NEW o \in Orders, NEW n \in Nullifiers, NewProof(o, n) PROVE IInv'
    <2>1. nullifier' \in [Orders -> Nullifiers \cup {None}]
      BY <1>0, <1>8 DEF NewProof
    <2> QED BY <1>8, <2>1, StepElsewhere DEF NewProof, index, flow, events
  <1>9. ASSUME NEW pair \in Pairs,
               CacheEntry(pair) \/ PeerMatchInProgress(pair) \/ WindowElapses(pair)
        PROVE  IInv'
    BY <1>0, <1>9, StepElsewhere DEF CacheEntry, PeerMatchInProgress, WindowElapses,
    index, flow, events
  <1> QED BY <1>1, <1>2, <1>3, <1>4, <1>5, <1>6, <1>7, <1>8, <1>9 DEF Next

-----------------------------------------------------------------------------
\* The inductive invariant holds in every reachable state.
THEOREM Inductive == Spec => []IInv
  BY InitIInv, NextIInv, PTL DEF Spec

\* nullifier_map leads only to live handshakes, however many handshakes are
\* registered and shot down at the same time.
THEOREM IndexIsSound == Spec => []IndexSound
  <1>1. IInv => IndexSound
    BY DEF IInv, IndexInv
  <1> QED BY <1>1, Inductive, PTL

\* nullifier_map leads to every live handshake under each of its nullifiers.
THEOREM IndexIsComplete == Spec => []IndexComplete
  <1>1. IInv => IndexComplete
    BY SMTT(30) DEF IInv, IndexInv
  <1> QED BY <1>1, Inductive, PTL

\* A running MPC has its cancel channel in the index, unless a shootdown of one
\* of its nullifiers came first.
THEOREM RunningCanBeCancelled == Spec => []RunningIsCancellable
  <1>1. IInv => RunningIsCancellable
    BY SMTT(30) DEF IInv, FlowInv, FlowOK, IndexInv, RemovedByShootdown, RunningIsCancellable,
    ReceiverAlive
  <1> QED BY <1>1, Inductive, PTL

\* shootdown_nullifier never sends on a full cancel channel.
THEOREM SendsNeverBlock == Spec => []SendNeverBlocks
  <1>1. IInv => SendNeverBlocks
    BY DEF IInv, IndexType, IndexInv, ShootOK, SignalInv, SendNeverBlocks,
    ChannelCapacity
  <1> QED BY <1>1, Inductive, PTL

\* The assertions on the transitions of a HandshakeState hold.
THEOREM TransitionsAsserted == Spec => []AssertionsHold
  <1>1. IInv => AssertionsHold
    BY DEF IInv, IndexType, HandshakeState, FlowInv, FlowOK, AssertionsHold
  <1> QED BY <1>1, Inductive, PTL

\* A match signalled before its last look at the channel is never opened.
THEOREM SignalPreventsOpening == Spec => []SignalledNeverOpens
  <1>1. IInv => SignalledNeverOpens
    BY DEF IInv, SignalInv, SignalledNeverOpens
  <1> QED BY <1>1, Inductive, PTL
=============================================================================
