--------------------------- MODULE OrderBookProofs ---------------------------
(***************************************************************************)
(* Proofs about OrderBook, for any sets of orders, wallets, nullifiers and *)
(* any number of handlers in flight.                                       *)
(*                                                                         *)
(* The inductive invariant IInv has three parts: what holds of the book    *)
(* alone (BookInv), what a handler in flight may rely on when it takes the *)
(* lock again (TaskInv), and how far a nullifier already handled can still *)
(* be carried by handlers (StaleInv).                                      *)
(***************************************************************************)
EXTENDS OrderBook, TLAPS

BookType ==
    /\ order_map \in [OrderIds -> NetworkOrder \cup {None}]
    /\ orders_by_nullifier \in [Nullifiers -> SUBSET OrderIds]
    /\ local_orders \subseteq LocalOrders
    /\ verified_orders \subseteq OrderIds

\* Every order of the local cluster in the book is in local_orders.
LocalTracked == \A o \in LocalOrders : contains_order(o) => o \in local_orders

BookInv ==
    /\ BookType
    /\ BookWellFormed
    /\ NullifierIndexed
    /\ VerifiedFindable
    /\ LocalTracked

\* A handler in flight carries a well-formed record, works for one order unless
\* it waits for the prover, and finds its orders in the book when it is about to
\* attach something to them.
TaskOK(t) ==
    /\ task[t].pc = "idle" => task[t].todo = {}
    /\ task[t].pc # "idle" => task[t].info \in NetworkOrder /\ WellFormed(task[t].info)
    /\ task[t].pc \in {"attach_proof", "attach_witness", "await_prover"}
         => \A o \in task[t].todo : contains_order(o)
    /\ task[t].pc # "await_prover" => \A x, y \in task[t].todo : x = y

TaskInv ==
    /\ \A t \in Tasks : TaskOK(t)
    /\ \A o \in proof_asked : contains_order(o)

\* A handler that carries a handled nullifier which no handler carried when it
\* was handled works for the local cluster, or adds a record without a proof.
StaleInv ==
    /\ StaleOnlyByRace
    /\ \A n \in handled \ raced, t \in Tasks :
          Carries(t, n) => \/ task[t].todo \subseteq LocalOrders
                           \/ task[t].pc = "add_order" /\ task[t].info.proof = None

\* The types of the variables outside the book.
OtherType ==
    /\ wallet_nullifier \in [Wallets -> Nullifiers]
    /\ startup \subseteq LocalOrders
    /\ task \in [Tasks -> Task]
    /\ proof_asked \subseteq LocalOrders
    /\ witness_asked \subseteq LocalOrders
    /\ spent \subseteq Nullifiers
    /\ handled \subseteq spent
    /\ raced \subseteq handled

IInv == BookInv /\ OtherType /\ TaskInv /\ StaleInv

-----------------------------------------------------------------------------
\* LocalOrders are orders.
LEMMA LocalType == LocalOrders \subseteq OrderIds
  BY WalletsAssumption DEF LocalOrders

\* The records NetworkOrder::new builds are well formed.
LEMMA NewOrderWF ==
  \A n \in Nullifiers : NewNetworkOrder(n) \in NetworkOrder /\ WellFormed(NewNetworkOrder(n))
  BY NoneAssumption DEF NewNetworkOrder, NetworkOrder, OrderStates, WellFormed

\* add_order keeps the book consistent whatever well-formed record it is given,
\* and loses no order.
LEMMA AddOrderBook ==
  ASSUME NEW o \in OrderIds, NEW info \in NetworkOrder, WellFormed(info),
         BookInv, add_order(o, info)
  PROVE  /\ BookInv'
         /\ contains_order(o)'
         /\ \A x \in OrderIds : contains_order(x) => contains_order(x)'
  <1>1. /\ contains_order(o)'
        /\ \A x \in OrderIds : contains_order(x) => contains_order(x)'
    BY NoneAssumption DEF BookInv, BookType, add_order, contains_order
  <1>2. BookType'
    BY LocalType DEF BookInv, BookType, add_order, NetworkOrder
  <1>3. BookWellFormed'
    BY DEF BookInv, BookType, add_order, contains_order, BookWellFormed, WellFormed
  <1>4. NullifierIndexed'
    BY DEF BookInv, BookType, add_order, contains_order, NullifierIndexed, NetworkOrder
  <1>5. VerifiedFindable'
    BY <1>1 DEF BookInv, BookType, add_order, contains_order, VerifiedFindable
  <1>6. LocalTracked'
    BY LocalType DEF BookInv, BookType, add_order, contains_order, LocalTracked
  <1> QED BY <1>1, <1>2, <1>3, <1>4, <1>5, <1>6 DEF BookInv

\* attach_commitment_proof makes a well-formed Verified record.
LEMMA AttachWF ==
  ASSUME NEW order \in NetworkOrder, NEW n \in Nullifiers
  PROVE  /\ attach_commitment_proof(order, n) \in NetworkOrder
         /\ WellFormed(attach_commitment_proof(order, n))
         /\ attach_commitment_proof(order, n).match_nullifier = n
         /\ attach_commitment_proof(order, n).proof = n
  BY NoneAssumption, Zenon DEF attach_commitment_proof, NetworkOrder, OrderStates, WellFormed

\* update_order_validity_proof keeps the book consistent for an order that is in
\* the book (for another it would leave a dangling entry in verified_orders).
LEMMA UpdateProofBook ==
  ASSUME NEW o \in OrderIds, NEW n \in Nullifiers, contains_order(o),
         BookInv, update_order_validity_proof(o, n)
  PROVE  /\ BookInv'
         /\ \A x \in OrderIds : contains_order(x) => contains_order(x)'
  <1>a. order_map[o] \in NetworkOrder
    BY DEF BookInv, BookType, contains_order
  <1>b. order_map' = [order_map EXCEPT ![o] = attach_commitment_proof(order_map[o], n)]
    BY DEF update_order_validity_proof, contains_order
  <1>c. /\ orders_by_nullifier' = [orders_by_nullifier EXCEPT ![n] = @ \cup {o}]
        /\ verified_orders' = verified_orders \cup {o}
        /\ local_orders' = local_orders
    BY DEF update_order_validity_proof
  <1>1. \A x \in OrderIds : contains_order(x) => contains_order(x)'
    BY <1>a, <1>b, AttachWF, NoneAssumption DEF BookInv, BookType, contains_order
  <1>2. BookType'
    BY <1>a, <1>b, <1>c, AttachWF DEF BookInv, BookType
  <1>3. BookWellFormed'
    BY <1>a, <1>b, AttachWF DEF BookInv, BookType, contains_order, BookWellFormed
  <1>4. NullifierIndexed'
    BY <1>a, <1>b, <1>c, AttachWF
    DEF BookInv, BookType, contains_order, NullifierIndexed, NetworkOrder
  <1>5. VerifiedFindable'
    BY <1>1, <1>b, <1>c DEF BookInv, BookType, contains_order, VerifiedFindable
  <1>6. LocalTracked'
    BY LocalType, <1>b, <1>c DEF BookInv, BookType, contains_order, LocalTracked
  <1> QED BY <1>1, <1>2, <1>3, <1>4, <1>5, <1>6 DEF BookInv

\* Attaching a witness changes no other field.
LEMMA WitnessWF ==
  ASSUME NEW order \in NetworkOrder
  PROVE  /\ [order EXCEPT !.witness = TRUE] \in NetworkOrder
         /\ [order EXCEPT !.witness = TRUE].state = order.state
         /\ [order EXCEPT !.witness = TRUE].proof = order.proof
         /\ [order EXCEPT !.witness = TRUE].match_nullifier = order.match_nullifier
  BY Zenon DEF NetworkOrder

\* attach_validity_proof_witness changes no field an index depends on.
LEMMA AttachWitnessBook ==
  ASSUME NEW o \in OrderIds, BookInv, attach_validity_proof_witness(o)
  PROVE  /\ BookInv'
         /\ \A x \in OrderIds : contains_order(x) => contains_order(x)'
         /\ \A x \in OrderIds : contains_order(x)' =>
               /\ contains_order(x)
               /\ order_map'[x].state = order_map[x].state
               /\ order_map'[x].proof = order_map[x].proof
  <1> DEFINE new == IF order_map[o] = None THEN None ELSE [order_map[o] EXCEPT !.witness = TRUE]
  <1>a. order_map' = [order_map EXCEPT ![o] = new]
    BY DEF attach_validity_proof_witness
  <1>b. UNCHANGED <<orders_by_nullifier, local_orders, verified_orders>>
    BY DEF attach_validity_proof_witness
  <1>c. order_map[o] # None => /\ new \in NetworkOrder
                               /\ new.state = order_map[o].state
                               /\ new.proof = order_map[o].proof
                               /\ new.match_nullifier = order_map[o].match_nullifier
    <2>1. order_map[o] # None => order_map[o] \in NetworkOrder
      BY DEF BookInv, BookType
    <2> QED BY <2>1, WitnessWF
  <1>d. order_map[o] = None => new = None
    OBVIOUS
  <1> HIDE DEF new
  <1>1. \A x \in OrderIds : contains_order(x) => contains_order(x)'
    BY <1>a, <1>c, <1>d, NoneAssumption DEF BookInv, BookType, contains_order
  <1>2. \A x \in OrderIds : contains_order(x)' =>
          /\ contains_order(x)
          /\ order_map'[x].state = order_map[x].state
          /\ order_map'[x].proof = order_map[x].proof
          /\ order_map'[x].match_nullifier = order_map[x].match_nullifier
    BY <1>a, <1>c, <1>d DEF BookInv, BookType, contains_order
  <1>3. BookType'
    BY <1>a, <1>b, <1>c, <1>d DEF BookInv, BookType
  <1>4. BookWellFormed'
    BY <1>2 DEF BookInv, BookWellFormed, WellFormed
  <1>5. NullifierIndexed'
    BY <1>2, <1>b DEF BookInv, NullifierIndexed
  <1>6. VerifiedFindable'
    BY <1>1, <1>2, <1>b DEF BookInv, BookType, VerifiedFindable
  <1>7. LocalTracked'
    BY <1>2, <1>b, LocalType DEF BookInv, LocalTracked
  <1> QED BY <1>1, <1>2, <1>3, <1>4, <1>5, <1>6, <1>7 DEF BookInv

\* A cancelled record is well formed and keeps its nullifier.
LEMMA CancelledWF ==
  ASSUME NEW order \in NetworkOrder
  PROVE  /\ Cancelled(order) \in NetworkOrder
         /\ WellFormed(Cancelled(order))
         /\ Cancelled(order).state = "Cancelled"
         /\ Cancelled(order).match_nullifier = order.match_nullifier
  BY Zenon DEF Cancelled, NetworkOrder, OrderStates, WellFormed

\* nullify_orders keeps the book consistent, and because the index is complete
\* it cancels every order matched under the nullifier.
LEMMA NullifyBook ==
  ASSUME NEW n \in Nullifiers, BookInv, nullify_orders(n)
  PROVE  /\ BookInv'
         /\ \A x \in OrderIds : contains_order(x) <=> contains_order(x)'
         /\ \A x \in OrderIds : contains_order(x) /\ order_map[x].match_nullifier = n
               => order_map'[x] = Cancelled(order_map[x]) /\ x \notin verified_orders'
         /\ \A x \in OrderIds : contains_order(x) /\ order_map'[x].state = "Verified"
               => order_map'[x] = order_map[x]
  <1> DEFINE hit == {o \in orders_by_nullifier[n] : contains_order(o)}
  <1>a. /\ order_map' = [o \in OrderIds |-> IF o \in hit THEN Cancelled(order_map[o])
                                                         ELSE order_map[o]]
        /\ verified_orders' = verified_orders \ hit
        /\ UNCHANGED <<orders_by_nullifier, local_orders>>
    BY DEF nullify_orders
  <1>b. \A x \in hit : contains_order(x) /\ x \in OrderIds
    BY DEF BookInv, BookType
  <1>c. \A x \in OrderIds : contains_order(x) => order_map[x] \in NetworkOrder
    BY DEF BookInv, BookType, contains_order
  <1>d. \A x \in OrderIds : contains_order(x) /\ order_map[x].match_nullifier = n => x \in hit
    BY DEF BookInv, NullifierIndexed
  <1> HIDE DEF hit
  <1>e. \A x \in hit : /\ order_map'[x] = Cancelled(order_map[x])
                       /\ order_map'[x] \in NetworkOrder
                       /\ WellFormed(order_map'[x])
                       /\ order_map'[x].state = "Cancelled"
                       /\ order_map'[x].match_nullifier = order_map[x].match_nullifier
    BY <1>a, <1>b, <1>c, CancelledWF
  <1>f. \A x \in OrderIds \ hit : order_map'[x] = order_map[x]
    BY <1>a
  <1>1. \A x \in OrderIds : contains_order(x) <=> contains_order(x)'
    BY <1>b, <1>e, <1>f, NoneAssumption DEF contains_order
  <1>2. \A x \in OrderIds : contains_order(x) /\ order_map[x].match_nullifier = n
               => order_map'[x] = Cancelled(order_map[x]) /\ x \notin verified_orders'
    BY <1>a, <1>d, <1>e
  <1>3. \A x \in OrderIds : contains_order(x) /\ order_map'[x].state = "Verified"
               => order_map'[x] = order_map[x]
    BY <1>e, <1>f
  <1>4. BookType'
    <2>1. \A x \in OrderIds : order_map'[x] \in NetworkOrder \cup {None}
      BY <1>e, <1>f DEF BookInv, BookType
    <2>2. order_map' \in [OrderIds -> NetworkOrder \cup {None}]
      BY <2>1, <1>a
    <2> QED BY <2>2, <1>a DEF BookInv, BookType
  <1>5. BookWellFormed'
    BY <1>1, <1>e, <1>f DEF BookInv, BookWellFormed
  <1>6. NullifierIndexed'
    BY <1>1, <1>a, <1>e, <1>f DEF BookInv, NullifierIndexed
  <1>7. VerifiedFindable'
    BY <1>1, <1>a, <1>e, <1>f DEF BookInv, BookType, VerifiedFindable
  <1>8. LocalTracked'
    BY <1>1, <1>a, LocalType DEF BookInv, LocalTracked
  <1> QED BY <1>1, <1>2, <1>3, <1>4, <1>5, <1>6, <1>7, <1>8 DEF BookInv

\* add_wallets keeps the book consistent.
LEMMA AddWalletBook ==
  ASSUME NEW w \in Wallets, NEW n \in Nullifiers, BookInv, add_wallet_orders(w, n)
  PROVE  /\ BookInv'
         /\ \A x \in OrderIds : contains_order(x) => contains_order(x)'
         /\ \A x \in w : contains_order(x)'
         /\ \A x \in OrderIds \ w : order_map'[x] = order_map[x]
  <1>a. w \subseteq OrderIds /\ w \subseteq LocalOrders
    BY WalletsAssumption DEF LocalOrders
  <1>b. /\ order_map' = [o \in OrderIds |-> IF o \in w THEN NewNetworkOrder(n) ELSE order_map[o]]
        /\ orders_by_nullifier' = [orders_by_nullifier EXCEPT ![n] = @ \cup w]
        /\ local_orders' = local_orders \cup w
        /\ UNCHANGED verified_orders
    BY DEF add_wallet_orders
  <1>c. \A x \in w : order_map'[x] = NewNetworkOrder(n)
    BY <1>a, <1>b
  <1>d. \A x \in OrderIds \ w : order_map'[x] = order_map[x]
    BY <1>b
  <1>e. /\ NewNetworkOrder(n) \in NetworkOrder /\ WellFormed(NewNetworkOrder(n))
        /\ NewNetworkOrder(n).match_nullifier = n
        /\ NewNetworkOrder(n).state = "Received"
    BY NewOrderWF DEF NewNetworkOrder
  <1>1. /\ \A x \in OrderIds : contains_order(x) => contains_order(x)'
        /\ \A x \in w : contains_order(x)'
    BY <1>c, <1>d, <1>e, NoneAssumption DEF contains_order
  <1>2. BookType'
    <2>1. order_map' \in [OrderIds -> NetworkOrder \cup {None}]
      BY <1>b, <1>e DEF BookInv, BookType
    <2> QED BY <2>1, <1>a, <1>b DEF BookInv, BookType
  <1>3. BookWellFormed'
    BY <1>c, <1>d, <1>e DEF BookInv, BookWellFormed, contains_order
  <1>4. NullifierIndexed'
    BY <1>a, <1>b, <1>c, <1>d, <1>e DEF BookInv, BookType, NullifierIndexed, contains_order, NetworkOrder
  <1>5. VerifiedFindable'
    BY <1>1, <1>b, <1>c, <1>d, <1>e DEF BookInv, BookType, VerifiedFindable, contains_order
  <1>6. LocalTracked'
    BY <1>a, <1>b, <1>d, LocalType DEF BookInv, LocalTracked, contains_order
  <1> QED BY <1>1, <1>2, <1>3, <1>4, <1>5, <1>6, <1>d DEF BookInv

-----------------------------------------------------------------------------
(* What the handlers in flight rely on.                                    *)

\* Steps that leave the tasks and the requests alone keep TaskInv, because no
\* order ever leaves the book.
LEMMA TaskInvFrame ==
  ASSUME TaskInv, OtherType, UNCHANGED <<task, proof_asked>>,
         \A x \in OrderIds : contains_order(x) => contains_order(x)'
  PROVE  TaskInv'
  <1>1. \A t \in Tasks : task[t].todo \subseteq OrderIds
    BY DEF OtherType, Task
  <1>2. proof_asked \subseteq OrderIds
    BY LocalType DEF OtherType
  <1> QED BY <1>1, <1>2 DEF TaskInv, TaskOK

\* Starting a handler keeps TaskInv and the type of the tasks.
LEMMA StartTask ==
  ASSUME NEW t \in Tasks, NEW pc \in TaskPcs \ {"idle"}, NEW todo \in SUBSET OrderIds,
         NEW info \in NetworkOrder, WellFormed(info),
         TaskInv, OtherType, Start(t, pc, todo, info), UNCHANGED proof_asked,
         \A x \in OrderIds : contains_order(x) => contains_order(x)',
         pc \in {"attach_proof", "attach_witness", "await_prover"}
           => \A o \in todo : contains_order(o)',
         pc # "await_prover" => \A x, y \in todo : x = y
  PROVE  TaskInv' /\ task' \in [Tasks -> Task]
  <1> DEFINE new == [pc |-> pc, todo |-> todo, info |-> info]
  <1>1. new \in Task /\ new.pc = pc /\ new.todo = todo /\ new.info = info
    BY DEF Task
  <1>2. task' = [task EXCEPT ![t] = new]
    BY DEF Start
  <1> HIDE DEF new
  <1>3. task' \in [Tasks -> Task]
    BY <1>1, <1>2 DEF OtherType
  <1>4. TaskOK(t)'
    BY <1>1, <1>2 DEF OtherType, TaskOK
  <1>5. \A u \in Tasks \ {t} : TaskOK(u)'
    BY <1>2 DEF OtherType, TaskInv, TaskOK, Task
  <1>6. \A o \in proof_asked' : contains_order(o)'
    BY LocalType DEF OtherType, TaskInv
  <1> QED BY <1>3, <1>4, <1>5, <1>6 DEF TaskInv

\* Ending a handler keeps TaskInv and the type of the tasks.
LEMMA FinishTask ==
  ASSUME NEW t \in Tasks, TaskInv, OtherType, Finish(t), UNCHANGED proof_asked,
         \A x \in OrderIds : contains_order(x) => contains_order(x)'
  PROVE  TaskInv' /\ task' \in [Tasks -> Task]
  <1>1. Idle \in Task /\ Idle.pc = "idle" /\ Idle.todo = {}
    BY DEF Idle, Task, TaskPcs
  <1>2. task' = [task EXCEPT ![t] = Idle]
    BY DEF Finish
  <1>3. task' \in [Tasks -> Task]
    BY <1>1, <1>2 DEF OtherType
  <1>4. TaskOK(t)'
    BY <1>1, <1>2 DEF OtherType, TaskOK
  <1>5. \A u \in Tasks \ {t} : TaskOK(u)'
    BY <1>2 DEF OtherType, TaskInv, TaskOK, Task
  <1>6. \A o \in proof_asked' : contains_order(o)'
    BY LocalType DEF OtherType, TaskInv
  <1> QED BY <1>3, <1>4, <1>5, <1>6 DEF TaskInv

\* Moving a handler on to its next lock acquisition does so too.
LEMMA GotoTask ==
  ASSUME NEW t \in Tasks, NEW pc \in TaskPcs \ {"idle"},
         task[t].pc \notin {"idle", "await_prover"}, TaskInv, OtherType, Goto(t, pc), UNCHANGED proof_asked,
         \A x \in OrderIds : contains_order(x) => contains_order(x)',
         pc \in {"attach_proof", "attach_witness", "await_prover"}
           => \A o \in task[t].todo : contains_order(o)'
  PROVE  TaskInv' /\ task' \in [Tasks -> Task]
  <1> DEFINE new == [task[t] EXCEPT !.pc = pc]
  <1>1. new \in Task /\ new.pc = pc /\ new.todo = task[t].todo /\ new.info = task[t].info
    BY DEF Task, OtherType
  <1>2. task' = [task EXCEPT ![t] = new]
    BY DEF Goto
  <1> HIDE DEF new
  <1>3. task' \in [Tasks -> Task]
    BY <1>1, <1>2 DEF OtherType
  <1>4. TaskOK(t)'
    BY <1>1, <1>2 DEF OtherType, TaskInv, TaskOK
  <1>5. \A u \in Tasks \ {t} : TaskOK(u)'
    BY <1>2 DEF OtherType, TaskInv, TaskOK, Task
  <1>6. \A o \in proof_asked' : contains_order(o)'
    BY LocalType DEF OtherType, TaskInv
  <1> QED BY <1>3, <1>4, <1>5, <1>6 DEF TaskInv

\* StaleInv is kept by a step that handles no event, when every order of another
\* cluster that is Verified after it was so before or got a fresh proof, and
\* every handler that carries a nullifier after it may do so.
LEMMA StaleFrame ==
  ASSUME StaleInv, OtherType, UNCHANGED <<handled, raced>>,
         \A x \in OrderIds \ LocalOrders :
            contains_order(x)' /\ order_map'[x].state = "Verified"
              => \/ /\ contains_order(x) /\ order_map[x].state = "Verified"
                    /\ order_map'[x].proof = order_map[x].proof
                 \/ order_map'[x].proof \notin handled \ raced,
         \A u \in Tasks : \/ task'[u] = task[u]
                          \/ task'[u].pc = "idle"
                          \/ task'[u].todo \subseteq LocalOrders
                          \/ task'[u].pc = "add_order" /\ task'[u].info.proof = None
                          \/ task'[u].info.match_nullifier \notin handled \ raced
  PROVE  StaleInv'
  <1>1. StaleOnlyByRace'
    BY DEF StaleInv, StaleOnlyByRace
  <1>2. ASSUME NEW n \in handled \ raced, NEW u \in Tasks, Carries(u, n)'
        PROVE  \/ task'[u].todo \subseteq LocalOrders
               \/ task'[u].pc = "add_order" /\ task'[u].info.proof = None
    <2>1. CASE task'[u] = task[u]
      BY <1>2, <2>1 DEF StaleInv, Carries
    <2>2. CASE task'[u] # task[u]
      BY <1>2, <2>2 DEF Carries
    <2> QED BY <2>1, <2>2
  <1> QED BY <1>1, <1>2 DEF StaleInv, Carries

\* A handler that is about to write a proof for an order of another cluster
\* does not carry a stale nullifier.
LEMMA FreshProof ==
  ASSUME IInv, NEW t \in Tasks, NEW o \in OrderIds \ LocalOrders, o \in task[t].todo,
         task[t].pc # "idle", task[t].pc # "add_order" \/ task[t].info.proof # None
  PROVE  task[t].info.match_nullifier \notin handled \ raced
  BY DEF IInv, StaleInv, Carries

\* The initial state satisfies the inductive invariant.
LEMMA InitIInv == Init => IInv
  <1> SUFFICES ASSUME Init PROVE IInv
    OBVIOUS
  <1>1. Idle \in Task /\ Idle.pc = "idle" /\ Idle.todo = {}
    BY DEF Idle, Task, TaskPcs
  <1>2. TypeOK
    BY <1>1 DEF Init, TypeOK
  <1>3. \A o \in OrderIds : ~contains_order(o)
    BY DEF Init, contains_order
  <1>4. BookInv
    BY <1>2, <1>3, LocalType
    DEF Init, TypeOK, BookInv, BookType, BookWellFormed, NullifierIndexed, VerifiedFindable, LocalTracked
  <1>5. TaskInv
    BY <1>1 DEF Init, TaskInv, TaskOK
  <1>6. StaleInv
    BY DEF Init, StaleInv, StaleOnlyByRace
  <1> QED BY <1>2, <1>4, <1>5, <1>6 DEF IInv, TypeOK, OtherType

-----------------------------------------------------------------------------
(* One lemma per handler step.                                             *)

\* Steps that do not take the book lock for writing leave BookInv alone.
LEMMA SameBook ==
  ASSUME BookInv, UNCHANGED book
  PROVE  BookInv' /\ \A x \in OrderIds : contains_order(x) <=> contains_order(x)'
  BY DEF book, BookInv, BookType, BookWellFormed, NullifierIndexed, VerifiedFindable,
         LocalTracked, contains_order

\* handle_order_info_response up to the lock: a foreign record with a proof is
\* checked against the contract, hence not stale.
LEMMA StepOrderInfoResponse ==
  ASSUME IInv, NEW t \in Tasks, NEW o \in OrderIds, NEW info \in NetworkOrder,
         OrderInfoResponse(t, o, info)
  PROVE  IInv'
  <1>1. BookInv' /\ \A x \in OrderIds : contains_order(x) <=> contains_order(x)'
    BY SameBook DEF IInv, OrderInfoResponse
  <1>2. OtherType /\ TaskInv
    BY DEF IInv
  <1>3. UNCHANGED proof_asked /\ witness_asked' \subseteq LocalOrders
    BY <1>2 DEF OrderInfoResponse, request_order_witness, asked, OtherType
  <1>4. TaskInv' /\ task' \in [Tasks -> Task]
    BY <1>1, <1>2, <1>3, StartTask DEF OrderInfoResponse, TaskPcs
  <1>5. UNCHANGED <<order_map, wallet_nullifier, startup, spent, handled, raced>>
    BY DEF OrderInfoResponse, book, chain
  <1>6. OtherType'
    BY <1>2, <1>3, <1>4, <1>5 DEF OtherType
  <1>7. StaleInv'
    <2>1. task' = [task EXCEPT ![t] = [pc |-> "add_order", todo |-> {o}, info |-> info]]
      BY DEF OrderInfoResponse, Start
    <2>2. /\ task'[t].pc = "add_order" /\ task'[t].todo = {o} /\ task'[t].info = info
          /\ \A u \in Tasks \ {t} : task'[u] = task[u]
      BY <1>2, <2>1 DEF OtherType
    <2>3. \/ o \in LocalOrders \/ info.proof = None
          \/ info.match_nullifier \notin handled \ raced
      BY <1>2 DEF OrderInfoResponse, check_nullifier_unused, WellFormed, OtherType
    <2>4. \A x \in OrderIds : contains_order(x)' => contains_order(x) /\ order_map'[x] = order_map[x]
      BY <1>5 DEF contains_order
    <2>5. \A u \in Tasks : \/ task'[u] = task[u]
                           \/ task'[u].todo \subseteq LocalOrders
                           \/ task'[u].pc = "add_order" /\ task'[u].info.proof = None
                           \/ task'[u].info.match_nullifier \notin handled \ raced
      BY <2>2, <2>3
    <2> QED BY <1>2, <1>5, <2>4, <2>5, StaleFrame DEF IInv
  <1> QED BY <1>1, <1>4, <1>6, <1>7 DEF IInv

\* handle_new_order and handle_new_validity_proof start alike.
LEMMA StepNewOrder ==
  ASSUME IInv, NEW t \in Tasks, NEW o \in OrderIds, NEW n \in Nullifiers,
         NewOrder(t, o, n) \/ NewValidityProof(t, o, n)
  PROVE  IInv'
  <1>0. UNCHANGED <<book, wallet_nullifier, startup, asked, chain>>
    BY DEF NewOrder, NewValidityProof
  <1>1. BookInv' /\ \A x \in OrderIds : contains_order(x) <=> contains_order(x)'
    BY <1>0, SameBook DEF IInv
  <1>2. OtherType /\ TaskInv
    BY DEF IInv
  <1>3. UNCHANGED <<order_map, wallet_nullifier, startup, proof_asked, witness_asked,
                    spent, handled, raced>>
    BY <1>0 DEF book, asked, chain
  <1>4. PICK pc \in {"add_order", "check_contains"} :
           Start(t, pc, {o}, NewNetworkOrder(n)) /\ (o \in LocalOrders \/ n \notin spent)
    BY DEF NewOrder, NewValidityProof, check_nullifier_unused
  <1>5. TaskInv' /\ task' \in [Tasks -> Task]
    <2>1. pc \in TaskPcs \ {"idle"} /\ pc \notin {"attach_proof", "attach_witness", "await_prover"}
      BY DEF TaskPcs
    <2>2. NewNetworkOrder(n) \in NetworkOrder /\ WellFormed(NewNetworkOrder(n))
      BY NewOrderWF
    <2>3. {o} \in SUBSET OrderIds
      OBVIOUS
    <2> QED BY <1>1, <1>2, <1>3, <1>4, <2>1, <2>2, <2>3, StartTask
  <1>6. OtherType'
    BY <1>2, <1>3, <1>5 DEF OtherType
  <1>7. StaleInv'
    <2>1. task' = [task EXCEPT ![t] = [pc |-> pc, todo |-> {o}, info |-> NewNetworkOrder(n)]]
      BY <1>4 DEF Start
    <2>2. /\ task'[t].todo = {o} /\ task'[t].info.match_nullifier = n
          /\ \A u \in Tasks \ {t} : task'[u] = task[u]
      BY <1>2, <2>1 DEF OtherType, NewNetworkOrder
    <2>3. \/ o \in LocalOrders \/ n \notin handled \ raced
      BY <1>2, <1>4 DEF OtherType
    <2>4. \A x \in OrderIds : contains_order(x)' => contains_order(x) /\ order_map'[x] = order_map[x]
      BY <1>3 DEF contains_order
    <2>5. \A u \in Tasks : \/ task'[u] = task[u]
                           \/ task'[u].todo \subseteq LocalOrders
                           \/ task'[u].info.match_nullifier \notin handled \ raced
      BY <2>2, <2>3
    <2> QED BY <1>2, <1>3, <2>4, <2>5, StaleFrame DEF IInv
  <1> QED BY <1>1, <1>5, <1>6, <1>7 DEF IInv

\* RelayerState::add_order by a handler in flight, final or followed by the proof.
LEMMA StepAddOrder ==
  ASSUME IInv, NEW t \in Tasks, NEW o \in OrderIds, AddOrder(t, o) \/ AddMissing(t, o)
  PROVE  IInv'
  <1>0. /\ o \in task[t].todo /\ task[t].pc \in {"add_order", "add_missing"}
        /\ add_order(o, task[t].info)
        /\ UNCHANGED <<wallet_nullifier, startup, proof_asked, witness_asked, spent, handled, raced>>
    BY DEF AddOrder, AddMissing, At, asked, chain
  <1>1. OtherType /\ TaskInv /\ BookInv
    BY DEF IInv
  <1>2. task[t].info \in NetworkOrder /\ WellFormed(task[t].info)
    BY <1>0, <1>1 DEF TaskInv, TaskOK
  <1>3. BookInv' /\ contains_order(o)' /\ \A x \in OrderIds : contains_order(x) => contains_order(x)'
    BY <1>0, <1>1, <1>2, AddOrderBook
  <1>6. \A x \in OrderIds \ LocalOrders :
           contains_order(x)' /\ order_map'[x].state = "Verified"
             => \/ /\ contains_order(x) /\ order_map[x].state = "Verified"
                   /\ order_map'[x].proof = order_map[x].proof
                \/ order_map'[x].proof \notin handled \ raced
    <2>1. order_map' = [order_map EXCEPT ![o] = task[t].info]
      BY <1>0 DEF add_order
    <2>2. \A x \in OrderIds \ {o} : order_map'[x] = order_map[x]
      BY <1>1, <2>1 DEF BookInv, BookType
    <2>3. order_map'[o] = task[t].info
      BY <1>1, <2>1 DEF BookInv, BookType
    <2>4. task[t].info.state = "Verified" => task[t].info.proof = task[t].info.match_nullifier
                                          /\ task[t].info.proof # None
      BY <1>2 DEF WellFormed
    <2>5. o \notin LocalOrders /\ task[t].info.state = "Verified"
            => task[t].info.match_nullifier \notin handled \ raced
      BY <1>0, <2>4, FreshProof
    <2> QED BY <2>2, <2>3, <2>4, <2>5 DEF contains_order
  <1>4. CASE AddOrder(t, o)
    <2>1. TaskInv' /\ task' \in [Tasks -> Task]
      BY <1>0, <1>1, <1>3, <1>4, FinishTask DEF AddOrder
    <2>2. OtherType'
      BY <1>0, <1>1, <2>1 DEF OtherType
    <2>3. StaleInv'
      <3>1. \A u \in Tasks : task'[u] = task[u] \/ task'[u].pc = "idle"
        BY <1>1, <1>4 DEF AddOrder, Finish, Idle, OtherType
      <3> QED BY <1>0, <1>1, <1>6, <3>1, StaleFrame DEF IInv
    <2> QED BY <1>3, <2>1, <2>2, <2>3 DEF IInv
  <1>5. CASE AddMissing(t, o)
    <2>1. task[t].pc = "add_missing" /\ Goto(t, "attach_proof")
      BY <1>5 DEF AddMissing, At
    <2>2. \A x \in task[t].todo : contains_order(x)'
      BY <1>0, <1>1, <1>3, <2>1 DEF TaskInv, TaskOK
    <2>3. TaskInv' /\ task' \in [Tasks -> Task]
      BY <1>0, <1>1, <1>3, <2>1, <2>2, GotoTask DEF TaskPcs
    <2>4. OtherType'
      BY <1>0, <1>1, <2>3 DEF OtherType
    <2>5. StaleInv'
      <3>1. /\ \A u \in Tasks \ {t} : task'[u] = task[u]
            /\ task'[t].todo = task[t].todo /\ task'[t].info = task[t].info
        BY <1>1, <2>1 DEF Goto, OtherType, Task
      <3>2. task[t].todo \subseteq LocalOrders \/ task[t].info.match_nullifier \notin handled \ raced
        BY <2>1 DEF IInv, StaleInv, Carries
      <3>3. \A u \in Tasks : \/ task'[u] = task[u]
                             \/ task'[u].todo \subseteq LocalOrders
                             \/ task'[u].info.match_nullifier \notin handled \ raced
        BY <3>1, <3>2
      <3> QED BY <1>0, <1>1, <1>6, <3>3, StaleFrame DEF IInv
    <2> QED BY <1>3, <2>3, <2>4, <2>5 DEF IInv
  <1> QED BY <1>4, <1>5

\* handle_new_validity_proof asks whether the order is in the book.  The answer
\* stays right until the proof is attached, because no order leaves the book.
LEMMA StepCheckContains ==
  ASSUME IInv, NEW t \in Tasks, NEW o \in OrderIds, CheckContains(t, o)
  PROVE  IInv'
  <1>1. OtherType /\ TaskInv /\ BookInv
    BY DEF IInv
  <1>2. /\ task[t].pc = "check_contains" /\ o \in task[t].todo
        /\ UNCHANGED <<order_map, wallet_nullifier, startup, proof_asked, witness_asked,
                       spent, handled, raced>>
    BY DEF CheckContains, At, book, asked, chain
  <1>3. BookInv' /\ \A x \in OrderIds : contains_order(x) <=> contains_order(x)'
    BY <1>1, SameBook DEF CheckContains
  <1>4. PICK pc \in {"attach_proof", "add_missing"} :
           Goto(t, pc) /\ (pc = "attach_proof" => contains_order(o))
    BY DEF CheckContains
  <1>5. \A x \in task[t].todo : x = o
    BY <1>1, <1>2 DEF TaskInv, TaskOK
  <1>6. TaskInv' /\ task' \in [Tasks -> Task]
    <2>1. pc \in TaskPcs \ {"idle"} /\ task[t].pc \notin {"idle", "await_prover"}
      BY <1>2 DEF TaskPcs
    <2>2. pc \in {"attach_proof", "attach_witness", "await_prover"}
            => \A x \in task[t].todo : contains_order(x)'
      BY <1>3, <1>4, <1>5
    <2> QED BY <1>1, <1>2, <1>3, <1>4, <2>1, <2>2, GotoTask
  <1>7. OtherType'
    BY <1>1, <1>2, <1>6 DEF OtherType
  <1>8. StaleInv'
    <2>1. /\ \A u \in Tasks \ {t} : task'[u] = task[u]
          /\ task'[t].todo = task[t].todo /\ task'[t].info = task[t].info
      BY <1>1, <1>4 DEF Goto, OtherType, Task
    <2>2. task[t].todo \subseteq LocalOrders \/ task[t].info.match_nullifier \notin handled \ raced
      BY <1>2 DEF IInv, StaleInv, Carries
    <2>3. \A u \in Tasks : \/ task'[u] = task[u]
                           \/ task'[u].todo \subseteq LocalOrders
                           \/ task'[u].info.match_nullifier \notin handled \ raced
      BY <2>1, <2>2
    <2>4. \A x \in OrderIds : contains_order(x)' => contains_order(x) /\ order_map'[x] = order_map[x]
      BY <1>2 DEF contains_order
    <2> QED BY <1>1, <1>2, <2>3, <2>4, StaleFrame DEF IInv
  <1> QED BY <1>3, <1>6, <1>7, <1>8 DEF IInv

\* The three steps that attach a proof, once the order is known to be in the
\* book and, when it belongs to another cluster, the nullifier to be fresh.
LEMMA ProofStale ==
  ASSUME BookInv, NEW o \in OrderIds, NEW n \in Nullifiers,
         contains_order(o), update_order_validity_proof(o, n),
         o \in LocalOrders \/ n \notin handled \ raced
  PROVE  \A x \in OrderIds \ LocalOrders :
           contains_order(x)' /\ order_map'[x].state = "Verified"
             => \/ /\ contains_order(x) /\ order_map[x].state = "Verified"
                   /\ order_map'[x].proof = order_map[x].proof
                \/ order_map'[x].proof \notin handled \ raced
  <1>1. order_map' = [order_map EXCEPT ![o] = attach_commitment_proof(order_map[o], n)]
    BY DEF update_order_validity_proof, contains_order
  <1>2. \A x \in OrderIds \ {o} : order_map'[x] = order_map[x]
    BY <1>1 DEF BookInv, BookType
  <1>3. order_map[o] \in NetworkOrder /\ order_map'[o] = attach_commitment_proof(order_map[o], n)
    BY <1>1 DEF BookInv, BookType, contains_order
  <1>4. order_map'[o].proof = n
    BY <1>3, AttachWF
  <1> QED BY <1>2, <1>4 DEF contains_order

\* handle_new_validity_proof attaches the proof to an order that is in the book.
LEMMA StepAttachProof ==
  ASSUME IInv, NEW t \in Tasks, NEW o \in OrderIds, AttachProof(t, o)
  PROVE  IInv'
  <1>1. OtherType /\ TaskInv /\ BookInv
    BY DEF IInv
  <1>2. /\ task[t].pc = "attach_proof" /\ o \in task[t].todo
        /\ update_order_validity_proof(o, task[t].info.match_nullifier)
        /\ Finish(t)
        /\ UNCHANGED <<wallet_nullifier, startup, proof_asked, spent, handled, raced>>
        /\ witness_asked' \subseteq witness_asked \cup LocalOrders
    BY DEF AttachProof, At, request_order_witness, chain
  <1>3. contains_order(o) /\ task[t].info \in NetworkOrder /\ task[t].info.match_nullifier \in Nullifiers
    BY <1>1, <1>2 DEF TaskInv, TaskOK, NetworkOrder
  <1>4. BookInv' /\ \A x \in OrderIds : contains_order(x) => contains_order(x)'
    BY <1>1, <1>2, <1>3, UpdateProofBook
  <1>5. TaskInv' /\ task' \in [Tasks -> Task]
    BY <1>1, <1>2, <1>4, FinishTask
  <1>6. OtherType'
    BY <1>1, <1>2, <1>5 DEF OtherType
  <1>7. StaleInv'
    <2>1. o \in LocalOrders \/ task[t].info.match_nullifier \notin handled \ raced
      BY <1>2, FreshProof
    <2>2. \A u \in Tasks : task'[u] = task[u] \/ task'[u].pc = "idle"
      BY <1>1, <1>2 DEF Finish, Idle, OtherType
    <2> QED BY <1>1, <1>2, <1>3, <2>1, <2>2, ProofStale, StaleFrame DEF IInv
  <1> QED BY <1>4, <1>5, <1>6, <1>7 DEF IInv

\* A proof comes back from the prover for one of the orders that wait for it.
LEMMA StepProverAnswer ==
  ASSUME IInv, NEW t \in Tasks, NEW o \in OrderIds, ProverAnswer(t, o)
  PROVE  IInv'
  <1>1. OtherType /\ TaskInv /\ BookInv
    BY DEF IInv
  <1>2. /\ task[t].pc = "await_prover" /\ o \in task[t].todo
        /\ update_order_validity_proof(o, task[t].info.match_nullifier)
        /\ UNCHANGED <<wallet_nullifier, startup, proof_asked, witness_asked, spent, handled, raced>>
    BY DEF ProverAnswer, At, asked, chain
  <1>3. contains_order(o) /\ task[t].info \in NetworkOrder /\ task[t].info.match_nullifier \in Nullifiers
    BY <1>1, <1>2 DEF TaskInv, TaskOK, NetworkOrder
  <1>4. BookInv' /\ \A x \in OrderIds : contains_order(x) => contains_order(x)'
    BY <1>1, <1>2, <1>3, UpdateProofBook
  <1>5. CASE Finish(t)
    <2>1. TaskInv' /\ task' \in [Tasks -> Task]
      BY <1>1, <1>2, <1>4, <1>5, FinishTask
    <2>2. OtherType'
      BY <1>1, <1>2, <2>1 DEF OtherType
    <2>3. o \in LocalOrders \/ task[t].info.match_nullifier \notin handled \ raced
      BY <1>2, FreshProof
    <2>4. \A u \in Tasks : task'[u] = task[u] \/ task'[u].pc = "idle"
      BY <1>1, <1>5 DEF Finish, Idle, OtherType
    <2>5. StaleInv'
      BY <1>1, <1>2, <1>3, <2>3, <2>4, ProofStale, StaleFrame DEF IInv
    <2> QED BY <1>4, <2>1, <2>2, <2>5 DEF IInv
  <1>6. CASE task' = [task EXCEPT ![t].todo = @ \ {o}]
    <2> DEFINE new == [task[t] EXCEPT !.todo = @ \ {o}]
    <2>1. /\ new \in Task /\ new.pc = "await_prover" /\ new.info = task[t].info
          /\ new.todo = task[t].todo \ {o}
      BY <1>1, <1>2 DEF OtherType, Task
    <2>2. task' = [task EXCEPT ![t] = new]
      BY <1>6
    <2> HIDE DEF new
    <2>3. task' \in [Tasks -> Task] /\ task'[t] = new /\ \A u \in Tasks \ {t} : task'[u] = task[u]
      BY <1>1, <2>1, <2>2 DEF OtherType
    <2>4. TaskInv'
      <3>1. \A u \in Tasks : task[u].todo \subseteq OrderIds
        BY <1>1 DEF OtherType, Task
      <3>2. TaskOK(t)'
        BY <1>1, <1>2, <1>4, <2>1, <2>3, <3>1 DEF TaskInv, TaskOK
      <3>3. \A u \in Tasks \ {t} : TaskOK(u)'
        BY <1>1, <1>4, <2>3, <3>1 DEF TaskInv, TaskOK
      <3>4. \A x \in proof_asked' : contains_order(x)'
        BY <1>1, <1>2, <1>4, LocalType DEF OtherType, TaskInv
      <3> QED BY <3>2, <3>3, <3>4 DEF TaskInv
    <2>5. OtherType'
      BY <1>1, <1>2, <2>3 DEF OtherType
    <2>6. o \in LocalOrders \/ task[t].info.match_nullifier \notin handled \ raced
      BY <1>2, FreshProof
    <2>7. task[t].todo \subseteq LocalOrders \/ task[t].info.match_nullifier \notin handled \ raced
      BY <1>2 DEF IInv, StaleInv, Carries
    <2>8. \A u \in Tasks : \/ task'[u] = task[u]
                           \/ task'[u].todo \subseteq LocalOrders
                           \/ task'[u].info.match_nullifier \notin handled \ raced
      BY <2>1, <2>3, <2>7, SMTT(30)
    <2>9. StaleInv'
      BY <1>1, <1>2, <1>3, <2>6, <2>8, ProofStale, StaleFrame DEF IInv
    <2> QED BY <1>4, <2>4, <2>5, <2>9 DEF IInv
  <1> QED BY <1>5, <1>6 DEF ProverAnswer

\* A cluster peer answers with a proof for an order add_wallets put in the book.
LEMMA StepUpdatedProof ==
  ASSUME IInv, NEW o \in OrderIds, NEW n \in Nullifiers, UpdatedValidityProof(o, n)
  PROVE  IInv'
  <1>1. OtherType /\ TaskInv /\ BookInv
    BY DEF IInv
  <1>2. /\ update_order_validity_proof(o, n) /\ contains_order(o) /\ o \in LocalOrders
        /\ UNCHANGED <<wallet_nullifier, startup, task, proof_asked, witness_asked,
                       spent, handled, raced>>
    BY <1>1 DEF UpdatedValidityProof, TaskInv, OtherType, asked, chain
  <1>3. BookInv' /\ \A x \in OrderIds : contains_order(x) => contains_order(x)'
    BY <1>1, <1>2, UpdateProofBook
  <1>4. TaskInv'
    BY <1>1, <1>2, <1>3, TaskInvFrame
  <1>5. OtherType'
    BY <1>1, <1>2 DEF OtherType
  <1>6. StaleInv'
    BY <1>1, <1>2, ProofStale, StaleFrame DEF IInv
  <1> QED BY <1>3, <1>4, <1>5, <1>6 DEF IInv

\* A cluster peer answers with a witness.
LEMMA StepWitnessResponse ==
  ASSUME IInv, NEW o \in OrderIds, ValidityWitnessResponse(o)
  PROVE  IInv'
  <1>1. OtherType /\ TaskInv /\ BookInv
    BY DEF IInv
  <1>2. /\ attach_validity_proof_witness(o)
        /\ UNCHANGED <<wallet_nullifier, startup, task, proof_asked, witness_asked,
                       spent, handled, raced>>
    BY SMTT(30) DEF ValidityWitnessResponse, asked, chain
  <1>3. /\ BookInv' /\ \A x \in OrderIds : contains_order(x) => contains_order(x)'
        /\ \A x \in OrderIds : contains_order(x)' =>
              /\ contains_order(x)
              /\ order_map'[x].state = order_map[x].state
              /\ order_map'[x].proof = order_map[x].proof
    BY <1>1, <1>2, AttachWitnessBook
  <1>4. TaskInv'
    BY <1>1, <1>2, <1>3, TaskInvFrame
  <1>5. OtherType'
    BY <1>1, <1>2 DEF OtherType
  <1>6. StaleInv'
    BY <1>1, <1>2, <1>3, StaleFrame DEF IInv
  <1> QED BY <1>3, <1>4, <1>5, <1>6 DEF IInv

\* The startup thread attaches the witness and goes on to wait for the proof.
LEMMA StepStartupWitness ==
  ASSUME IInv, NEW t \in Tasks, NEW o \in OrderIds, StartupWitness(t, o)
  PROVE  IInv'
  <1>1. OtherType /\ TaskInv /\ BookInv
    BY DEF IInv
  <1>2. /\ task[t].pc = "attach_witness" /\ Goto(t, "await_prover")
        /\ attach_validity_proof_witness(o)
        /\ UNCHANGED <<wallet_nullifier, startup, proof_asked, witness_asked,
                       spent, handled, raced>>
    BY DEF StartupWitness, At, asked, chain
  <1>3. /\ BookInv' /\ \A x \in OrderIds : contains_order(x) => contains_order(x)'
        /\ \A x \in OrderIds : contains_order(x)' =>
              /\ contains_order(x)
              /\ order_map'[x].state = order_map[x].state
              /\ order_map'[x].proof = order_map[x].proof
    BY <1>1, <1>2, AttachWitnessBook
  <1>4. TaskInv' /\ task' \in [Tasks -> Task]
    <2>1. \A x \in task[t].todo : contains_order(x)'
      BY <1>1, <1>2, <1>3 DEF TaskInv, TaskOK, OtherType, Task
    <2> QED BY <1>1, <1>2, <1>3, <2>1, GotoTask DEF TaskPcs
  <1>5. OtherType'
    BY <1>1, <1>2, <1>4, SMTT(30) DEF OtherType
  <1>6. StaleInv'
    <2>1. /\ \A u \in Tasks \ {t} : task'[u] = task[u]
          /\ task'[t].todo = task[t].todo /\ task'[t].info = task[t].info
      BY <1>1, <1>2 DEF Goto, OtherType, Task
    <2>2. task[t].todo \subseteq LocalOrders \/ task[t].info.match_nullifier \notin handled \ raced
      BY <1>2 DEF IInv, StaleInv, Carries
    <2>3. \A u \in Tasks : \/ task'[u] = task[u]
                           \/ task'[u].todo \subseteq LocalOrders
                           \/ task'[u].info.match_nullifier \notin handled \ raced
      BY <2>1, <2>2
    <2> QED BY <1>1, <1>2, <1>3, <2>3, StaleFrame DEF IInv
  <1> QED BY <1>3, <1>4, <1>5, <1>6 DEF IInv

\* handle_replicate_request overwrites the orders of a wallet, all local.
LEMMA StepReplicate ==
  ASSUME IInv, NEW w \in Wallets, NEW n \in Nullifiers, Replicate(w, n)
  PROVE  IInv'
  <1>1. OtherType /\ TaskInv /\ BookInv
    BY DEF IInv
  <1>2. /\ add_wallet_orders(w, n)
        /\ wallet_nullifier' = [wallet_nullifier EXCEPT ![w] = n]
        /\ proof_asked' = proof_asked \cup w
        /\ UNCHANGED <<startup, task, witness_asked, spent, handled, raced>>
    BY DEF Replicate, chain
  <1>3. w \subseteq LocalOrders /\ w \subseteq OrderIds
    BY WalletsAssumption DEF LocalOrders
  <1>4. /\ BookInv' /\ \A x \in OrderIds : contains_order(x) => contains_order(x)'
        /\ \A x \in w : contains_order(x)'
        /\ \A x \in OrderIds \ w : order_map'[x] = order_map[x]
    BY <1>1, <1>2, AddWalletBook
  <1>5. TaskInv'
    <2>1. \A u \in Tasks : task[u].todo \subseteq OrderIds
      BY <1>1 DEF OtherType, Task
    <2>2. \A u \in Tasks : TaskOK(u)'
      BY <1>1, <1>2, <1>4, <2>1 DEF TaskInv, TaskOK
    <2>3. \A x \in proof_asked' : contains_order(x)'
      BY <1>1, <1>2, <1>4, LocalType DEF OtherType, TaskInv
    <2> QED BY <2>2, <2>3 DEF TaskInv
  <1>6. OtherType'
    BY <1>1, <1>2, <1>3, SMTT(30) DEF OtherType
  <1>7. StaleInv'
    <2>1. \A x \in OrderIds \ LocalOrders : contains_order(x)' =>
            contains_order(x) /\ order_map'[x] = order_map[x]
      BY <1>3, <1>4 DEF contains_order
    <2> QED BY <1>1, <1>2, <2>1, StaleFrame DEF IInv
  <1> QED BY <1>4, <1>5, <1>6, <1>7 DEF IInv

\* The startup thread adds an order of a configured wallet.
LEMMA StepStartupOrder ==
  ASSUME IInv, NEW t \in Tasks, NEW w \in Wallets, NEW o \in OrderIds, StartupOrder(t, w, o)
  PROVE  IInv'
  <1> DEFINE info == NewNetworkOrder(wallet_nullifier[w])
  <1>1. OtherType /\ TaskInv /\ BookInv
    BY DEF IInv
  <1>2. /\ o \in LocalOrders /\ add_order(o, info)
        /\ Start(t, "attach_witness", {o}, info) \/ UNCHANGED task
        /\ startup' = startup \ {o}
        /\ UNCHANGED <<wallet_nullifier, proof_asked, witness_asked, spent, handled, raced>>
    BY <1>1 DEF StartupOrder, OtherType, asked, chain
  <1>3. info \in NetworkOrder /\ WellFormed(info)
    BY <1>1, NewOrderWF DEF OtherType
  <1> HIDE DEF info
  <1>4. BookInv' /\ contains_order(o)' /\ \A x \in OrderIds : contains_order(x) => contains_order(x)'
    BY <1>1, <1>2, <1>3, AddOrderBook
  <1>5. \A x \in OrderIds \ LocalOrders :
          contains_order(x)' => contains_order(x) /\ order_map'[x] = order_map[x]
    BY <1>1, <1>2 DEF add_order, contains_order, BookInv, BookType
  <1>6. CASE UNCHANGED task
    <2>1. TaskInv'
      BY <1>1, <1>2, <1>4, <1>6, TaskInvFrame
    <2>2. OtherType'
      BY <1>1, <1>2, <1>6 DEF OtherType
    <2>3. StaleInv'
      BY <1>1, <1>2, <1>5, <1>6, StaleFrame DEF IInv
    <2> QED BY <1>4, <2>1, <2>2, <2>3 DEF IInv
  <1>7. CASE Start(t, "attach_witness", {o}, info)
    <2>1. TaskInv' /\ task' \in [Tasks -> Task]
      <3>1. "attach_witness" \in TaskPcs \ {"idle"} /\ {o} \in SUBSET OrderIds
        BY DEF TaskPcs
      <3>2. \A x \in {o} : contains_order(x)'
        BY <1>4
      <3> QED BY <1>1, <1>2, <1>3, <1>4, <1>7, <3>1, <3>2, StartTask
    <2>2. OtherType'
      BY <1>1, <1>2, <2>1 DEF OtherType
    <2>3. \A u \in Tasks : task'[u] = task[u] \/ task'[u].todo \subseteq LocalOrders
      BY <1>1, <1>2, <1>7 DEF Start, OtherType
    <2>4. StaleInv'
      BY <1>1, <1>2, <1>5, <2>3, StaleFrame DEF IInv
    <2> QED BY <1>4, <2>1, <2>2, <2>4 DEF IInv
  <1> QED BY <1>2, <1>6, <1>7

\* The listener queues new proofs for the orders of one wallet.
LEMMA StepRefreshProofs ==
  ASSUME IInv, NEW t \in Tasks, NEW w \in Wallets, RefreshProofs(t, w)
  PROVE  IInv'
  <1> DEFINE info == NewNetworkOrder(wallet_nullifier[w])
  <1>1. OtherType /\ TaskInv /\ BookInv
    BY DEF IInv
  <1>2. /\ \A o \in w : contains_order(o)
        /\ Start(t, "await_prover", w, info)
        /\ UNCHANGED <<order_map, wallet_nullifier, startup, proof_asked, witness_asked,
                       spent, handled, raced>>
    BY DEF RefreshProofs, book, asked, chain
  <1>3. w \subseteq LocalOrders /\ w \subseteq OrderIds
    BY WalletsAssumption DEF LocalOrders
  <1>4. info \in NetworkOrder /\ WellFormed(info)
    BY <1>1, NewOrderWF DEF OtherType
  <1> HIDE DEF info
  <1>5. BookInv' /\ \A x \in OrderIds : contains_order(x) <=> contains_order(x)'
    BY <1>1, SameBook DEF RefreshProofs
  <1>6. TaskInv' /\ task' \in [Tasks -> Task]
    <2>1. "await_prover" \in TaskPcs \ {"idle"} /\ w \in SUBSET OrderIds
      BY <1>3 DEF TaskPcs
    <2>2. \A x \in w : contains_order(x)'
      BY <1>2, <1>3, <1>5
    <2> QED BY <1>1, <1>2, <1>4, <1>5, <2>1, <2>2, StartTask
  <1>7. OtherType'
    BY <1>1, <1>2, <1>6 DEF OtherType
  <1>8. StaleInv'
    <2>1. \A u \in Tasks : task'[u] = task[u] \/ task'[u].todo \subseteq LocalOrders
      BY <1>1, <1>2, <1>3 DEF Start, OtherType
    <2>2. \A x \in OrderIds : contains_order(x)' => contains_order(x) /\ order_map'[x] = order_map[x]
      BY <1>2 DEF contains_order
    <2> QED BY <1>1, <1>2, <2>1, <2>2, StaleFrame DEF IInv
  <1> QED BY <1>5, <1>6, <1>7, <1>8 DEF IInv

\* The contract moves on without the relayer.
LEMMA StepSpend ==
  ASSUME IInv, NEW n \in Nullifiers, SpendNullifier(n)
  PROVE  IInv'
  <1>1. OtherType /\ TaskInv /\ BookInv
    BY DEF IInv
  <1>2. /\ spent' = spent \cup {n}
        /\ UNCHANGED <<order_map, wallet_nullifier, startup, task, proof_asked, witness_asked,
                       handled, raced>>
    BY DEF SpendNullifier, book, asked
  <1>3. BookInv' /\ \A x \in OrderIds : contains_order(x) <=> contains_order(x)'
    BY <1>1, SameBook DEF SpendNullifier
  <1>4. TaskInv'
    BY <1>1, <1>2, <1>3, TaskInvFrame
  <1>5. OtherType'
    BY <1>1, <1>2 DEF OtherType
  <1>6. StaleInv'
    <2>1. \A x \in OrderIds : contains_order(x)' => contains_order(x) /\ order_map'[x] = order_map[x]
      BY <1>2 DEF contains_order
    <2> QED BY <1>1, <1>2, <2>1, StaleFrame DEF IInv
  <1> QED BY <1>3, <1>4, <1>5, <1>6 DEF IInv

\* Handling the event cancels whatever the index finds, and the index is
\* complete; no handler carries the nullifier unless it is recorded in raced.
LEMMA StepHandleSpent ==
  ASSUME IInv, NEW n \in Nullifiers, HandleNullifierSpent(n)
  PROVE  IInv'
  <1>1. OtherType /\ TaskInv /\ BookInv
    BY DEF IInv
  <1>2. /\ n \in spent /\ nullify_orders(n) /\ handled' = handled \cup {n}
        /\ raced' = IF \E t \in Tasks : Carries(t, n) THEN raced \cup {n} ELSE raced
        /\ UNCHANGED <<wallet_nullifier, startup, task, proof_asked, witness_asked, spent>>
    BY DEF HandleNullifierSpent, asked
  <1>3. /\ BookInv'
        /\ \A x \in OrderIds : contains_order(x) <=> contains_order(x)'
        /\ \A x \in OrderIds : contains_order(x) /\ order_map[x].match_nullifier = n
              => order_map'[x] = Cancelled(order_map[x]) /\ x \notin verified_orders'
        /\ \A x \in OrderIds : contains_order(x) /\ order_map'[x].state = "Verified"
              => order_map'[x] = order_map[x]
    BY <1>1, <1>2, NullifyBook, SMTT(30)
  <1>4. TaskInv'
    BY <1>1, <1>2, <1>3, TaskInvFrame
  <1>5. OtherType'
    BY <1>1, <1>2 DEF OtherType
  <1>6. \A x \in OrderIds : contains_order(x) /\ order_map[x].match_nullifier = n
          => order_map'[x].state = "Cancelled"
    BY <1>1, <1>3, CancelledWF DEF BookInv, BookType, contains_order
  <1>7. StaleOnlyByRace'
    <2> SUFFICES ASSUME NEW m \in handled' \ raced', NEW x \in OrderIds \ LocalOrders,
                        contains_order(x)', order_map'[x].state = "Verified",
                        order_map'[x].proof = m
                 PROVE  FALSE
      BY DEF StaleOnlyByRace
    <2>1. contains_order(x) /\ order_map'[x] = order_map[x]
      BY <1>3
    <2>2. order_map[x].match_nullifier = m
      BY <1>1, <2>1 DEF BookInv, BookWellFormed, WellFormed
    <2>3. m # n
      BY <1>6, <2>1, <2>2
    <2>4. m \in handled \ raced
      BY <1>2, <2>3
    <2> QED BY <2>1, <2>4 DEF IInv, StaleInv, StaleOnlyByRace
  <1>8. ASSUME NEW m \in handled' \ raced', NEW u \in Tasks, Carries(u, m)'
        PROVE  \/ task'[u].todo \subseteq LocalOrders
               \/ task'[u].pc = "add_order" /\ task'[u].info.proof = None
    <2>1. Carries(u, m) /\ task'[u] = task[u]
      BY <1>2, <1>8 DEF Carries
    <2>2. m \in handled \ raced
      BY <1>2, <2>1
    <2> QED BY <2>1, <2>2 DEF IInv, StaleInv
  <1>9. StaleInv'
    BY <1>7, <1>8 DEF StaleInv
  <1> QED BY <1>3, <1>4, <1>5, <1>9 DEF IInv

-----------------------------------------------------------------------------
(* The inductive step and the theorems.                                    *)

\* Every step of every handler preserves the inductive invariant.
LEMMA NextIInv == IInv /\ [Next]_vars => IInv'
  <1> SUFFICES ASSUME IInv, [Next]_vars PROVE IInv'
    OBVIOUS
  <1>1. CASE UNCHANGED vars
    <2>1. BookInv' /\ \A x \in OrderIds : contains_order(x) <=> contains_order(x)'
      BY <1>1, SameBook DEF IInv, vars
    <2>2. UNCHANGED <<order_map, wallet_nullifier, startup, task, proof_asked, witness_asked,
                      spent, handled, raced>>
      BY <1>1 DEF vars, book, asked, chain
    <2>3. OtherType'
      BY <2>2 DEF IInv, OtherType
    <2>4. TaskInv'
      BY <2>1, <2>2, TaskInvFrame, SMTT(30) DEF IInv
    <2>5. StaleInv'
      <3>1. \A x \in OrderIds : contains_order(x)' => contains_order(x) /\ order_map'[x] = order_map[x]
        BY <2>2 DEF contains_order
      <3> QED BY <2>2, <3>1, StaleFrame DEF IInv
    <2> QED BY <2>1, <2>3, <2>4, <2>5 DEF IInv
  <1>2. ASSUME NEW o \in OrderIds, ValidityWitnessResponse(o) PROVE IInv'
    BY <1>2, StepWitnessResponse
  <1>3. ASSUME NEW o \in OrderIds, NEW n \in Nullifiers, UpdatedValidityProof(o, n) PROVE IInv'
    BY <1>3, StepUpdatedProof
  <1>4. ASSUME NEW t \in Tasks, NEW o \in OrderIds, NEW info \in NetworkOrder,
               OrderInfoResponse(t, o, info)
        PROVE  IInv'
    BY <1>4, StepOrderInfoResponse
  <1>5. ASSUME NEW t \in Tasks, NEW o \in OrderIds, NEW n \in Nullifiers,
               NewOrder(t, o, n) \/ NewValidityProof(t, o, n)
        PROVE  IInv'
    BY <1>5, StepNewOrder
  <1>6. ASSUME NEW t \in Tasks, NEW o \in OrderIds, AddOrder(t, o) \/ AddMissing(t, o)
        PROVE  IInv'
    BY <1>6, StepAddOrder
  <1>7. ASSUME NEW t \in Tasks, NEW o \in OrderIds, CheckContains(t, o) PROVE IInv'
    BY <1>7, StepCheckContains
  <1>8. ASSUME NEW t \in Tasks, NEW o \in OrderIds, AttachProof(t, o) PROVE IInv'
    BY <1>8, StepAttachProof
  <1>9. ASSUME NEW t \in Tasks, NEW o \in OrderIds, StartupWitness(t, o) PROVE IInv'
    BY <1>9, StepStartupWitness
  <1>10. ASSUME NEW t \in Tasks, NEW o \in OrderIds, ProverAnswer(t, o) PROVE IInv'
    BY <1>10, StepProverAnswer
  <1>11. ASSUME NEW w \in Wallets, NEW n \in Nullifiers, Replicate(w, n) PROVE IInv'
    BY <1>11, StepReplicate
  <1>12. ASSUME NEW t \in Tasks, NEW w \in Wallets, NEW o \in OrderIds, StartupOrder(t, w, o)
         PROVE  IInv'
    BY <1>12, StepStartupOrder
  <1>13. ASSUME NEW t \in Tasks, NEW w \in Wallets, RefreshProofs(t, w) PROVE IInv'
    BY <1>13, StepRefreshProofs
  <1>14. ASSUME NEW n \in Nullifiers, SpendNullifier(n) PROVE IInv'
    BY <1>14, StepSpend
  <1>15. ASSUME NEW n \in Nullifiers, HandleNullifierSpent(n) PROVE IInv'
    BY <1>15, StepHandleSpent
  <1> QED BY <1>1, <1>2, <1>3, <1>4, <1>5, <1>6, <1>7, <1>8, <1>9, <1>10, <1>11, <1>12,
             <1>13, <1>14, <1>15 DEF Next

\* The inductive invariant holds in every reachable state.
THEOREM Inductive == Spec => []IInv
  BY InitIInv, NextIInv, PTL DEF Spec

\* Every variable keeps its type, for any sets of orders, wallets, nullifiers
\* and handlers.
THEOREM TypeCorrect == Spec => []TypeOK
  <1>1. IInv => TypeOK
    BY DEF IInv, BookInv, BookType, OtherType, TypeOK
  <1> QED BY <1>1, Inductive, PTL

\* The states and the proofs of the book agree, whatever handlers of gossip,
\* startup and chain listener interleave: an order is Verified exactly while it
\* holds a proof, and is matched under the nullifier of that proof.
THEOREM BookStatesAgree == Spec => []BookWellFormed
  <1>1. IInv => BookWellFormed
    BY DEF IInv, BookInv
  <1> QED BY <1>1, Inductive, PTL

\* Every order is in the index under the nullifier it is matched by, so the
\* chain listener finds it.
THEOREM NullifierIndexAgrees == Spec => []NullifierIndexed
  <1>1. IInv => NullifierIndexed
    BY DEF IInv, BookInv
  <1> QED BY <1>1, Inductive, PTL

\* Every Verified order is in verified_orders, which names only orders of the
\* book.
THEOREM VerifiedIndexAgrees == Spec => []VerifiedFindable
  <1>1. IInv => VerifiedFindable
    BY DEF IInv, BookInv
  <1> QED BY <1>1, Inductive, PTL

\* choose_handshake_order never samples an order of the local cluster.
THEOREM NeverSelfMatch == Spec => []NoSelfMatch
  <1>1. IInv => NoSelfMatch
    BY LocalType
    DEF IInv, BookInv, LocalTracked, VerifiedFindable, NoSelfMatch, get_nonlocal_verified_orders
  <1> QED BY <1>1, Inductive, PTL

\* A handled nullifier backs a Verified order of another cluster only through
\* the window between check_nullifier_unused and add_order.
THEOREM OnlyRaceIsStale == Spec => []StaleOnlyByRace
  <1>1. IInv => StaleOnlyByRace
    BY DEF IInv, StaleInv
  <1> QED BY <1>1, Inductive, PTL

\* Handling a nullifier-spent event cancels every order matched under it.
THEOREM NullifyComplete == Spec => NullifyCancelsAll
  <1>1. IInv /\ [Next]_vars =>
          [\A n \in handled' \ handled, o \in OrderIds :
             (contains_order(o) /\ order_map[o].match_nullifier = n)
               => /\ order_map'[o] = Cancelled(order_map[o])
                  /\ o \notin verified_orders']_vars
    <2> SUFFICES ASSUME IInv, Next, NEW m \in handled' \ handled, NEW o \in OrderIds,
                        contains_order(o), order_map[o].match_nullifier = m
                 PROVE  order_map'[o] = Cancelled(order_map[o]) /\ o \notin verified_orders'
      OBVIOUS
    <2>1. PICK n \in Nullifiers : HandleNullifierSpent(n)
      BY Zenon DEF Next, ValidityWitnessResponse, UpdatedValidityProof, OrderInfoResponse, NewOrder,
             NewValidityProof, AddOrder, CheckContains, AddMissing, AttachProof, StartupWitness,
             ProverAnswer, Replicate, StartupOrder, RefreshProofs, SpendNullifier, chain
    <2>2. m = n /\ nullify_orders(n)
      BY <2>1 DEF HandleNullifierSpent
    <2>3. BookInv
      BY DEF IInv
    <2> QED BY <2>2, <2>3, NullifyBook
  <1> QED BY <1>1, Inductive, PTL DEF Spec, NullifyCancelsAll
=============================================================================
