-------------------------- MODULE ChainSyncProofs --------------------------
(***************************************************************************)
(* The invariants of ChainSync and their proofs: the listener, which hands *)
(* each event from its start block on to its handler once unless a query   *)
(* fails or polls race for the token; the path the wallet holds at each    *)
(* point, the roots that proofs are made for, the proof manager, and the   *)
(* theorems.                                                               *)
(***************************************************************************)
EXTENDS MerkleProofs

-----------------------------------------------------------------------------
(* The listener                                                             *)

\* The types of the listener's state.
HistoryType ==
    history \in [overlapped : BOOLEAN, raced : BOOLEAN, failed : BOOLEAN, gap : BOOLEAN,
    late : Nat]

PollTyped(q) ==
    q \in [pc : {"idle", "load", "page", "handle", "apply"}, token : Nat, page : SUBSET Nat,
           more : BOOLEAN, nodes : {q.nodes}]

ListenerType ==
    /\ start_block \in Nat \cup {NoBlock} /\ merkle_last_consistent_block \in Nat
    /\ pagination_token \in Nat
    /\ DOMAIN polls = Polls /\ polls = [p \in Polls |-> polls[p]]
    /\ \A p \in Polls : PollTyped(polls[p])
    /\ shootdowns \in Seq(Values)
    /\ HistoryType

\* The number of events the start block filters out.
First == Before(start_block)

\* A poll holds events with a handler, from the start block on, while it
\* handles them.
PollOK(q) ==
    /\ \A k \in q.page : k \in (First + 1)..Len(events) /\ HasHandler(events[k])
    /\ q.page # {} => q.pc \in {"handle", "apply"}
    /\ q.pc = "apply" => q.page # {} /\ events[Min(q.page)].key = "root"

\* Polls that never overlapped never raced for the token.
Alone ==
    ~history.overlapped =>
        /\ ~history.raced
        /\ \A p, q \in Active : p = q
        /\ \A p \in Polls : polls[p].pc = "page" => polls[p].token = pagination_token

\* What holds of the polls whatever went wrong.
ListenerInv ==
    /\ start_block = NoBlock => Active = {} /\ pagination_token = 0 /\ shootdowns = <<>>
    /\ start_block # NoBlock => start_block <= block
         /\ start_block <= merkle_last_consistent_block
    /\ \A p \in Polls : PollOK(polls[p])
    /\ Alone

\* The events that are done with: before the token, and on no poll's page.
Handled ==
    {k \in (First + 1)..(First + pagination_token) : \A p \in Polls : k \notin polls[p].page}

\* The pages are disjoint and lie before the token.
PagesOK ==
    /\ pagination_token <= Available
    /\ \A p \in Polls : \A k \in polls[p].page : k <= First + pagination_token
    /\ \A p, q \in Polls : p # q => polls[p].page \cap polls[q].page = {}

\* The nullifiers spent by the events in S.
ShotDown(S) == {events[k].val : k \in {l \in S : events[l].key = "spent"}}

\* Unless a query failed or polls raced, the nullifiers shot down are those of
\* the events that are done with, each once.
PagesInv ==
    ~history.failed /\ ~history.raced /\ start_block # NoBlock =>
        PagesOK /\ IsInjective(shootdowns) /\ Range(shootdowns) = ShotDown(Handled)

ListenerIInv == ListenerType /\ ListenerInv /\ PagesInv

\* The start block splits the events at position First.
LEMMA FirstIs ==
    ASSUME ChainInv, ListenerType, start_block # NoBlock
    PROVE  /\ start_block \in Nat /\ First \in Nat /\ First <= Len(events)
           /\ \A k \in DOMAIN events : k <= First <=> events[k].block < start_block
  <1>1. PICK b \in Nat : b = start_block
    BY DEF ListenerType
  <1>2. /\ Before(b) \in 0..Len(events)
        /\ \A k \in DOMAIN events : k <= Before(b) <=> events[k].block < b
    BY BeforeIs
  <1>3. Len(events) \in Nat
    BY ChainFacts
  <1> QED
    BY <1>1, <1>2 DEF First

\* First stays where it is once the start block is known.
LEMMA FirstKept ==
    ASSUME ChainInv, Grown, ListenerType, ListenerInv, start_block # NoBlock,
           start_block' = start_block
    PROVE  First' = First
  <1>1. PICK b \in Nat : b = start_block /\ b <= block
    BY DEF ListenerType, ListenerInv
  <1>2. Before(b)' = Before(b)
    BY <1>1, BeforeKept
  <1>3. First = Before(b)
    BY <1>1 DEF First
  <1>4. First' = Before(b)'
    BY <1>1 DEF First
  <1> QED
    BY <1>2, <1>3, <1>4

\* A page that is not empty has a first event, and its poll is handling it.
LEMMA FrontIs ==
    ASSUME ListenerType, ListenerInv, NEW p \in Polls, polls[p].page # {}
    PROVE  /\ Min(polls[p].page) \in polls[p].page
           /\ \A k \in polls[p].page : Min(polls[p].page) <= k
           /\ polls[p].pc \in {"handle", "apply"} /\ start_block # NoBlock
  <1>1. polls[p].page \in SUBSET Nat
    BY DEF ListenerType, PollTyped
  <1>2. polls[p].pc \in {"handle", "apply"}
    BY DEF ListenerInv, PollOK
  <1>3. start_block # NoBlock
    BY <1>2 DEF ListenerInv, Active
  <1> QED
    BY <1>1, <1>2, <1>3, MinIsLeast

\* Nothing the listener owns changes, the contract may mine a block.
LEMMA ListenerFrame ==
    ASSUME ChainInv, Grown, ListenerIInv, UNCHANGED <<listener, shootdowns>>, HistoryType',
           history'.overlapped = history.overlapped, history'.raced = history.raced,
           history'.failed = history.failed
    PROVE  ListenerIInv' /\ (start_block # NoBlock => Handled' = Handled)
  <1>1. ListenerType'
    BY DEF ListenerIInv, ListenerType, listener
  <1>2. CASE start_block = NoBlock
    <2>1. \A p \in Polls : polls[p].page = {} /\ polls[p].pc = "idle"
      BY <1>2 DEF ListenerIInv, ListenerInv, Active, PollOK
    <2>2. ListenerInv'
      BY <1>2 DEF ListenerIInv, ListenerInv, listener, Active, PollOK, Alone
    <2>3. PagesInv'
      BY <1>2 DEF PagesInv, listener
    <2> QED
      BY <1>1, <1>2, <2>2, <2>3 DEF ListenerIInv
  <1>3. CASE start_block # NoBlock
    <2>1. First' = First /\ start_block' = start_block /\ polls' = polls
          /\ pagination_token' = pagination_token /\ shootdowns' = shootdowns
          /\ merkle_last_consistent_block' = merkle_last_consistent_block
      BY <1>3, FirstKept DEF ListenerIInv, listener
    <2>2. First \in Nat /\ start_block \in Nat /\ First <= Len(events) /\ Len(events) \in Nat
      BY <1>3, FirstIs DEF ListenerIInv
    <2>3. Len(events') \in Nat /\ Len(events) <= Len(events') /\ DOMAIN events = 1..Len(events)
          /\ block \in Nat /\ block' \in Nat /\ block <= block'
          /\ \A k \in 1..Len(events) : events'[k] = events[k]
      BY ChainFacts DEF Grown
    <2>4. Handled' = Handled
      BY <2>1 DEF Handled
    <2>5. ListenerInv'
      <3>1. ASSUME NEW p \in Polls PROVE PollOK(polls[p])'
        <4>1. PollOK(polls[p])
          BY DEF ListenerIInv, ListenerInv
        <4>2. ASSUME NEW k \in polls[p].page
              PROVE  k \in (First' + 1)..Len(events') /\ HasHandler(events'[k])
                     /\ events'[k] = events[k]
          BY <2>1, <2>2, <2>3, <4>1 DEF PollOK
        <4>3. polls[p].page # {} => Min(polls[p].page) \in polls[p].page
          BY FrontIs DEF ListenerIInv
        <4> QED
          BY <2>1, <4>1, <4>2, <4>3 DEF PollOK
      <3>2. Alone'
        BY <2>1 DEF ListenerIInv, ListenerInv, Alone, Active
      <3>3. start_block' <= block' /\ start_block' <= merkle_last_consistent_block'
        BY <1>3, <2>1, <2>2, <2>3 DEF ListenerIInv, ListenerInv
      <3> QED
        BY <1>3, <2>1, <3>1, <3>2, <3>3 DEF ListenerInv
    <2>6. PagesInv'
      <3> SUFFICES ASSUME ~history.failed, ~history.raced
                   PROVE  PagesOK' /\ IsInjective(shootdowns')
                          /\ Range(shootdowns') = ShotDown(Handled)'
        BY DEF PagesInv
      <3>1. PagesOK /\ IsInjective(shootdowns) /\ Range(shootdowns) = ShotDown(Handled)
        BY <1>3 DEF ListenerIInv, PagesInv
      <3>2. pagination_token \in Nat
        BY DEF ListenerIInv, ListenerType
      <3>3. PagesOK'
        <4>1. pagination_token' <= Available'
          BY <2>1, <2>2, <2>3, <3>1, <3>2 DEF PagesOK, Available, First
        <4> QED
          BY <2>1, <3>1, <4>1 DEF PagesOK
      <3>4. \A k \in Handled : events'[k] = events[k]
        BY <2>2, <2>3, <3>1, <3>2 DEF Handled, PagesOK, Available, First
      <3>5. ShotDown(Handled)' = ShotDown(Handled)
        BY <2>4, <3>4 DEF ShotDown
      <3> QED
        BY <3>1, <3>3, <3>5
    <2> QED
      BY <1>1, <2>4, <2>5, <2>6 DEF ListenerIInv
  <1> QED
    BY <1>2, <1>3

\* One poll becomes q, the contract and the start block staying as they are.
PollStepTo(p, q) ==
    /\ UNCHANGED <<chain, start_block>> /\ start_block # NoBlock
    /\ polls' = [polls EXCEPT ![p] = q]

\* A poll moves on to q and the rest of the listener's state stays well
\* formed.
LEMMA PollSwap ==
    ASSUME ChainInv, ListenerType, ListenerInv, NEW p \in Polls, NEW q, PollStepTo(p, q),
           PollTyped(q), PollOK(q), HistoryType', pagination_token' \in Nat,
           shootdowns' \in Seq(Values), merkle_last_consistent_block' \in Nat,
           start_block <= merkle_last_consistent_block',
           ~history'.overlapped =>
              /\ Active \subseteq {p} /\ ~history'.raced
              /\ q.pc = "page" => q.token = pagination_token'
    PROVE  ListenerType' /\ ListenerInv' /\ First' = First /\ events' = events
           /\ \A r \in Polls : polls'[r] = IF r = p THEN q ELSE polls[r]
  <1>1. DOMAIN polls = Polls /\ events' = events /\ leaves' = leaves /\ block' = block
        /\ start_block' = start_block
    BY DEF ListenerType, PollStepTo, chain
  <1>2. \A r \in Polls : polls'[r] = IF r = p THEN q ELSE polls[r]
    BY <1>1 DEF PollStepTo
  <1>3. First' = First
    BY <1>1 DEF First, Before
  <1>4. ListenerType'
    <2>1. DOMAIN polls' = Polls /\ polls' = [r \in Polls |-> polls'[r]]
      BY <1>1, Zenon DEF PollStepTo
    <2>2. \A r \in Polls : PollTyped(polls'[r])
      BY <1>2 DEF ListenerType
    <2> QED
      BY <1>1, <2>1, <2>2 DEF ListenerType
  <1>5. ListenerInv'
    <2>1. ASSUME NEW r \in Polls PROVE PollOK(polls[r])'
      BY <1>1, <1>2, <1>3 DEF ListenerInv, PollOK
    <2>2. Alone'
      <3> SUFFICES ASSUME ~history'.overlapped
                   PROVE  /\ ~history'.raced
                          /\ \A r, t \in Active' : r = t
                          /\ \A r \in Polls : polls'[r].pc = "page"
                                                => polls'[r].token = pagination_token'
        BY DEF Alone
      <3>1. Active' \subseteq {p}
        BY <1>2 DEF Active
      <3>2. \A r \in Polls : polls'[r].pc = "page" => r = p
        BY <3>1 DEF Active
      <3> QED
        BY <1>2, <3>1, <3>2
    <2> QED
      BY <1>1, <2>1, <2>2 DEF ListenerInv, PollStepTo
  <1> QED
    BY <1>1, <1>2, <1>3, <1>4, <1>5

\* Without overlap, a poll that runs is the only one and has not raced.
LEMMA OnlyActive ==
    ASSUME ListenerInv, NEW p \in Polls, polls[p].pc # "idle", ~history.overlapped
    PROVE  Active \subseteq {p} /\ ~history.raced
  BY DEF ListenerInv, Alone, Active

\* The page of a poll stays as it is.
LEMMA SamePages ==
    ASSUME ListenerIInv, NEW p \in Polls, NEW q, q.page = polls[p].page, First' = First,
           \A r \in Polls : polls'[r] = IF r = p THEN q ELSE polls[r],
           start_block' = start_block, events' = events,
           UNCHANGED <<pagination_token, shootdowns>>,
           history'.raced = history.raced, history'.failed = history.failed
    PROVE  PagesInv' /\ Handled' = Handled
  <1>1. \A r \in Polls : polls'[r].page = polls[r].page
    OBVIOUS
  <1>2. Handled' = Handled
    BY DEF Handled
  <1>3. ShotDown(Handled)' = ShotDown(Handled)
    BY <1>2 DEF ShotDown
  <1>4. PagesOK' <=> PagesOK
    BY DEF PagesOK, Available, First
  <1> QED
    BY <1>2, <1>3, <1>4 DEF ListenerIInv, PagesInv

\* The event at the front of a page is done with.
LEMMA FrontHandled ==
    ASSUME ChainInv, ListenerIInv, start_block # NoBlock,
           NEW p \in Polls, NEW q, polls[p].page # {},
           q.page = LaterEvents(p), First' = First,
           \A r \in Polls : polls'[r] = IF r = p THEN q ELSE polls[r],
           start_block' = start_block, events' = events,
           UNCHANGED pagination_token,
           ~history.failed, ~history.raced
    PROVE  PagesOK' /\ Handled' = Handled \cup {Min(polls[p].page)}
           /\ Min(polls[p].page) \notin Handled
  <1>1. PICK k0 \in polls[p].page : k0 = Min(polls[p].page)
    BY FrontIs DEF ListenerIInv
  <1>2. PagesOK /\ PollOK(polls[p])
    BY DEF ListenerIInv, PagesInv, ListenerInv
  <1>3. q.page = polls[p].page \ {k0}
    BY <1>1 DEF LaterEvents
  <1>4. \A r \in Polls : polls'[r].page = IF r = p THEN polls[p].page \ {k0} ELSE polls[r].page
    BY <1>3
  <1>5. \A r \in Polls : r # p => k0 \notin polls[r].page
    BY <1>2 DEF PagesOK
  <1>6. PagesOK'
    BY <1>2, <1>4 DEF PagesOK, Available, First
  <1>7. k0 \in (First + 1)..(First + pagination_token)
    <2>1. k0 \in (First + 1)..Len(events) /\ k0 <= First + pagination_token
      BY <1>2 DEF PollOK, PagesOK
    <2>2. First \in Nat /\ pagination_token \in Nat
      BY FirstIs DEF ListenerIInv, ListenerType
    <2> QED
      BY <2>1
  <1>8. Handled' = Handled \cup {k0}
    BY <1>4, <1>5, <1>7 DEF Handled
  <1> QED
    BY <1>1, <1>6, <1>8 DEF Handled

\* A poll runs only after execute has noted the start block.
LEMMA ActiveStarted ==
    ASSUME ListenerInv, NEW p \in Polls, polls[p].pc # "idle"
    PROVE  start_block # NoBlock
  BY DEF ListenerInv, Active

\* The timer starts a poll.
LEMMA StepSpawnPoll ==
    ASSUME ChainInv, ListenerIInv, NEW p \in Polls, SpawnPoll(p)
    PROVE  /\ ListenerIInv' /\ First' = First /\ Handled' = Handled
           /\ \A r \in Polls : polls'[r] = IF r = p THEN [polls[p] EXCEPT !.pc = "load"] ELSE polls[r]
  <1> DEFINE q == [polls[p] EXCEPT !.pc = "load"]
  <1>1. PollTyped(polls[p]) /\ PollOK(polls[p]) /\ polls[p].pc = "idle" /\ DOMAIN polls = Polls
    BY DEF ListenerIInv, ListenerType, ListenerInv, SpawnPoll
  <1>2. PollTyped(q) /\ q.pc = "load" /\ q.page = polls[p].page /\ polls[p].page = {}
    BY <1>1 DEF PollTyped, PollOK
  <1>3. PollStepTo(p, q)
    BY DEF PollStepTo, SpawnPoll
  <1>4. PollOK(q)
    BY <1>2 DEF PollOK
  <1>5. HistoryType' /\ history'.raced = history.raced /\ history'.failed = history.failed
        /\ (~history'.overlapped => ~history.overlapped /\ Active = {})
    BY Zenon DEF ListenerIInv, ListenerType, HistoryType, SpawnPoll
  <1>6. ~history'.overlapped => Active \subseteq {p} /\ ~history'.raced
    BY <1>5 DEF ListenerIInv, ListenerInv, Alone
  <1>7. /\ pagination_token' = pagination_token /\ shootdowns' = shootdowns
        /\ merkle_last_consistent_block' = merkle_last_consistent_block
        /\ start_block' = start_block /\ start_block # NoBlock
    BY DEF SpawnPoll
  <1> HIDE DEF q
  <1>8. ListenerType' /\ ListenerInv' /\ First' = First /\ events' = events
        /\ \A r \in Polls : polls'[r] = IF r = p THEN q ELSE polls[r]
    <2>1. q.pc # "page"
      BY <1>2
    <2>2. pagination_token' \in Nat /\ shootdowns' \in Seq(Values)
          /\ merkle_last_consistent_block' \in Nat
               /\ start_block <= merkle_last_consistent_block'
      BY <1>7 DEF ListenerIInv, ListenerType, ListenerInv
    <2> QED
      BY <1>2, <1>3, <1>4, <1>5, <1>6, <2>2, PollSwap DEF ListenerIInv
  <1>9. PagesInv' /\ Handled' = Handled
    BY <1>2, <1>5, <1>7, <1>8, SamePages, Zenon
  <1> QED
    BY <1>8, <1>9 DEF ListenerIInv, q

\* A poll reads the token.
LEMMA StepRequestPage ==
    ASSUME ChainInv, ListenerIInv, NEW p \in Polls, RequestPage(p)
    PROVE  /\ ListenerIInv' /\ First' = First /\ Handled' = Handled
           /\ \A r \in Polls : polls'[r].pc = "apply" <=> polls[r].pc = "apply"
           /\ \A r \in Polls : polls[r].pc = "apply" => polls'[r] = polls[r]
  <1> DEFINE q == [polls[p] EXCEPT !.pc = "page", !.token = pagination_token]
  <1>1. PollTyped(polls[p]) /\ PollOK(polls[p]) /\ polls[p].pc = "load" /\ DOMAIN polls = Polls
        /\ pagination_token \in Nat
    BY DEF ListenerIInv, ListenerType, ListenerInv, RequestPage
  <1>2. PollTyped(q) /\ q.pc = "page" /\ q.page = polls[p].page /\ polls[p].page = {}
        /\ q.token = pagination_token
    BY <1>1, Zenon DEF PollTyped, PollOK
  <1>3. start_block # NoBlock
    BY <1>1, ActiveStarted DEF ListenerIInv
  <1>4. PollStepTo(p, q)
    BY <1>3, Zenon DEF PollStepTo, RequestPage
  <1>5. PollOK(q)
    BY <1>2 DEF PollOK
  <1>6. HistoryType' /\ history' = history
    BY DEF ListenerIInv, ListenerType, HistoryType, RequestPage
  <1>7. ~history'.overlapped => Active \subseteq {p} /\ ~history'.raced
    BY <1>1, <1>6, OnlyActive DEF ListenerIInv
  <1>8. /\ pagination_token' = pagination_token /\ shootdowns' = shootdowns
        /\ merkle_last_consistent_block' = merkle_last_consistent_block
        /\ start_block' = start_block
    BY DEF RequestPage
  <1> HIDE DEF q
  <1>9. ListenerType' /\ ListenerInv' /\ First' = First /\ events' = events
        /\ \A r \in Polls : polls'[r] = IF r = p THEN q ELSE polls[r]
    <2>1. pagination_token' \in Nat /\ shootdowns' \in Seq(Values)
          /\ merkle_last_consistent_block' \in Nat
               /\ start_block <= merkle_last_consistent_block'
      BY <1>3, <1>8 DEF ListenerIInv, ListenerType, ListenerInv
    <2>2. q.token = pagination_token'
      BY <1>2, <1>8
    <2> QED
      BY <1>2, <1>4, <1>5, <1>6, <1>7, <2>1, <2>2, PollSwap DEF ListenerIInv
  <1>10. PagesInv' /\ Handled' = Handled
    BY <1>2, <1>6, <1>8, <1>9, SamePages, Zenon
  <1> QED
    BY <1>1, <1>2, <1>9, <1>10 DEF ListenerIInv

\* A poll reads the nodes changed since the block of its root.
LEMMA StepFetchNodes ==
    ASSUME ChainInv, ListenerIInv, NEW p \in Polls, FetchNodes(p)
    PROVE  /\ ListenerIInv' /\ First' = First /\ Handled' = Handled
           /\ polls'[p].nodes = NodeChanges(NextEvent(p).block)
           /\ polls'[p].page = polls[p].page
           /\ \A r \in Polls : r # p => polls'[r] = polls[r]
  <1> DEFINE ns == NodeChanges(NextEvent(p).block)
             q == [polls[p] EXCEPT !.pc = "apply", !.nodes = ns]
  <1>1. PollTyped(polls[p]) /\ PollOK(polls[p]) /\ polls[p].pc = "handle"
        /\ DOMAIN polls = Polls
        /\ polls[p].page # {} /\ events[Min(polls[p].page)].key = "root"
    BY DEF ListenerIInv, ListenerType, ListenerInv, FetchNodes, NextEvent
  <1>3. start_block # NoBlock
    BY <1>1, ActiveStarted DEF ListenerIInv
  <1>4. PollStepTo(p, q)
    BY <1>3, Zenon DEF PollStepTo, FetchNodes
  <1> HIDE DEF ns
  <1>2. PollTyped(q) /\ q.pc = "apply" /\ q.page = polls[p].page /\ q.nodes = ns
    BY <1>1, Zenon DEF PollTyped
  <1>5. PollOK(q)
    BY <1>1 DEF PollOK
  <1>6. HistoryType' /\ history' = history
    BY DEF ListenerIInv, ListenerType, HistoryType, FetchNodes
  <1>7. ~history'.overlapped => Active \subseteq {p} /\ ~history'.raced
    BY <1>1, <1>6, OnlyActive DEF ListenerIInv
  <1>8. /\ pagination_token' = pagination_token /\ shootdowns' = shootdowns
        /\ merkle_last_consistent_block' = merkle_last_consistent_block
        /\ start_block' = start_block
    BY DEF FetchNodes
  <1> HIDE DEF q
  <1>9. ListenerType' /\ ListenerInv' /\ First' = First /\ events' = events
        /\ \A r \in Polls : polls'[r] = IF r = p THEN q ELSE polls[r]
    <2>1. pagination_token' \in Nat /\ shootdowns' \in Seq(Values)
          /\ merkle_last_consistent_block' \in Nat
               /\ start_block <= merkle_last_consistent_block'
      BY <1>3, <1>8 DEF ListenerIInv, ListenerType, ListenerInv
    <2>2. q.pc # "page"
      BY <1>2
    <2> QED
      BY <1>2, <1>4, <1>5, <1>6, <1>7, <2>1, PollSwap DEF ListenerIInv
  <1>10. PagesInv' /\ Handled' = Handled
    BY <1>2, <1>6, <1>8, <1>9, SamePages
  <1> QED
    BY <1>2, <1>9, <1>10 DEF ListenerIInv, ns

\* A poll ends its page.
LEMMA StepPageDone ==
    ASSUME ChainInv, ListenerIInv, NEW p \in Polls, PageDone(p)
    PROVE  /\ ListenerIInv' /\ First' = First /\ Handled' = Handled
           /\ \A r \in Polls : polls'[r].pc = "apply" => polls'[r] = polls[r]
  <1> DEFINE q == IF polls[p].more THEN [Idle EXCEPT !.pc = "load"] ELSE Idle
  <1>1. polls[p].pc = "handle" /\ polls[p].page = {}
    BY DEF PageDone
  <1>2. PollTyped(q) /\ q.pc \in {"idle", "load"} /\ q.page = {}
    BY Zenon DEF PollTyped, Idle
  <1>3. start_block # NoBlock
    BY <1>1, ActiveStarted DEF ListenerIInv
  <1>4. PollStepTo(p, q)
    BY <1>3 DEF PollStepTo, PageDone
  <1>5. PollOK(q)
    BY <1>2 DEF PollOK
  <1>6. HistoryType' /\ history' = history
    BY DEF ListenerIInv, ListenerType, HistoryType, PageDone
  <1>7. ~history'.overlapped => Active \subseteq {p} /\ ~history'.raced
    BY <1>1, <1>6, OnlyActive DEF ListenerIInv
  <1>8. /\ pagination_token' = pagination_token /\ shootdowns' = shootdowns
        /\ merkle_last_consistent_block' = merkle_last_consistent_block
        /\ start_block' = start_block
    BY DEF PageDone
  <1> HIDE DEF q
  <1>9. ListenerType' /\ ListenerInv' /\ First' = First /\ events' = events
        /\ \A r \in Polls : polls'[r] = IF r = p THEN q ELSE polls[r]
    <2>1. pagination_token' \in Nat /\ shootdowns' \in Seq(Values)
          /\ merkle_last_consistent_block' \in Nat
               /\ start_block <= merkle_last_consistent_block'
      BY <1>3, <1>8 DEF ListenerIInv, ListenerType, ListenerInv
    <2>2. q.pc # "page"
      BY <1>2
    <2> QED
      BY <1>2, <1>4, <1>5, <1>6, <1>7, <2>1, PollSwap DEF ListenerIInv
  <1>10. PagesInv' /\ Handled' = Handled
    BY <1>1, <1>2, <1>6, <1>8, <1>9, SamePages
  <1> QED
    BY <1>2, <1>9, <1>10 DEF ListenerIInv

\* A poll fails, which history records.
LEMMA StepPollFails ==
    ASSUME ChainInv, ListenerIInv, NEW p \in Polls, PollFails(p)
    PROVE  ListenerIInv' /\ history'.failed
  <1>1. polls[p].pc # "idle"
    BY DEF PollFails
  <1>2. PollTyped(Idle) /\ Idle.pc = "idle" /\ Idle.page = {}
    BY DEF PollTyped, Idle
  <1>3. start_block # NoBlock
    BY <1>1, ActiveStarted DEF ListenerIInv
  <1>4. PollStepTo(p, Idle)
    BY <1>3 DEF PollStepTo, PollFails
  <1>5. PollOK(Idle)
    BY <1>2 DEF PollOK
  <1>6. HistoryType' /\ history'.failed /\ history'.overlapped = history.overlapped
        /\ history'.raced = history.raced
    BY Zenon DEF ListenerIInv, ListenerType, HistoryType, PollFails
  <1>7. ~history'.overlapped => Active \subseteq {p} /\ ~history'.raced
    BY <1>1, <1>6, OnlyActive DEF ListenerIInv
  <1>8. /\ pagination_token' = pagination_token /\ shootdowns' = shootdowns
        /\ merkle_last_consistent_block' = merkle_last_consistent_block
    BY DEF PollFails
  <1>9. ListenerType' /\ ListenerInv'
    <2>1. pagination_token' \in Nat /\ shootdowns' \in Seq(Values)
          /\ merkle_last_consistent_block' \in Nat
               /\ start_block <= merkle_last_consistent_block'
      BY <1>3, <1>8 DEF ListenerIInv, ListenerType, ListenerInv
    <2>2. Idle.pc # "page"
      BY <1>2
    <2> QED
      BY <1>2, <1>4, <1>5, <1>6, <1>7, <2>1, PollSwap DEF ListenerIInv
  <1>10. PagesInv'
    BY <1>6 DEF PagesInv
  <1> QED
    BY <1>6, <1>9, <1>10 DEF ListenerIInv

\* Removing the front of a page leaves a poll that handles the rest.
LEMMA LaterOK ==
    ASSUME ListenerIInv, NEW p \in Polls, NEW q, PollOK(polls[p]),
           q.page = LaterEvents(p), q.pc = "handle"
    PROVE  PollOK(q)
  BY DEF PollOK, LaterEvents

\* A poll skips a root it has consumed: one more event is done with.
LEMMA StepSkipRoot ==
    ASSUME ChainInv, ListenerIInv, NEW p \in Polls, SkipRoot(p)
    PROVE  /\ ListenerIInv' /\ First' = First
           /\ ~history.failed /\ ~history.raced =>
                Handled' = Handled \cup {Min(polls[p].page)}
           /\ \A r \in Polls : polls'[r].pc = "apply" => polls'[r] = polls[r]
  <1> DEFINE q == [polls[p] EXCEPT !.page = LaterEvents(p)]
  <1>1. PollTyped(polls[p]) /\ PollOK(polls[p]) /\ polls[p].pc = "handle"
        /\ DOMAIN polls = Polls
        /\ polls[p].page # {} /\ events[Min(polls[p].page)].key = "root"
    BY DEF ListenerIInv, ListenerType, ListenerInv, SkipRoot, NextEvent, Consumed
  <1>2. PollTyped(q) /\ q.pc = "handle" /\ q.page = LaterEvents(p)
    BY <1>1 DEF PollTyped, LaterEvents
  <1>3. start_block # NoBlock
    BY <1>1, ActiveStarted DEF ListenerIInv
  <1>4. PollStepTo(p, q)
    BY <1>3 DEF PollStepTo, SkipRoot
  <1> HIDE DEF q
  <1>5. PollOK(q)
    BY <1>1, <1>2, LaterOK
  <1>6. HistoryType' /\ history' = history
    BY DEF ListenerIInv, ListenerType, HistoryType, SkipRoot
  <1>7. ~history'.overlapped => Active \subseteq {p} /\ ~history'.raced
    BY <1>1, <1>6, OnlyActive DEF ListenerIInv
  <1>8. /\ pagination_token' = pagination_token /\ shootdowns' = shootdowns
        /\ merkle_last_consistent_block' = merkle_last_consistent_block
        /\ start_block' = start_block
    BY DEF SkipRoot
  <1>9. ListenerType' /\ ListenerInv' /\ First' = First /\ events' = events
        /\ \A r \in Polls : polls'[r] = IF r = p THEN q ELSE polls[r]
    <2>1. pagination_token' \in Nat /\ shootdowns' \in Seq(Values)
          /\ merkle_last_consistent_block' \in Nat
               /\ start_block <= merkle_last_consistent_block'
      BY <1>3, <1>8 DEF ListenerIInv, ListenerType, ListenerInv
    <2>2. q.pc # "page"
      BY <1>2
    <2> QED
      BY <1>2, <1>4, <1>5, <1>6, <1>7, <2>1, PollSwap DEF ListenerIInv
  <1>10. ASSUME ~history.failed, ~history.raced
         PROVE  PagesOK' /\ Handled' = Handled \cup {Min(polls[p].page)}
    BY <1>1, <1>2, <1>3, <1>8, <1>9, <1>10, FrontHandled
  <1>11. PagesInv'
    <2> SUFFICES ASSUME ~history.failed, ~history.raced
                 PROVE  PagesOK' /\ IsInjective(shootdowns')
                        /\ Range(shootdowns') = ShotDown(Handled)'
      BY <1>6 DEF PagesInv
    <2>1. IsInjective(shootdowns) /\ Range(shootdowns) = ShotDown(Handled)
      BY <1>3 DEF ListenerIInv, PagesInv
    <2>2. ShotDown(Handled)' = ShotDown(Handled)
      BY <1>1, <1>9, <1>10 DEF ShotDown
    <2> QED
      BY <1>8, <1>10, <2>1, <2>2
  <1> QED
    BY <1>2, <1>9, <1>10, <1>11 DEF ListenerIInv

\* A poll applies the nodes it has read: one more event is done with.
LEMMA StepRootChanged ==
    ASSUME ChainInv, ListenerIInv, NEW p \in Polls, handle_root_changed(p)
    PROVE  /\ ListenerIInv' /\ First' = First
           /\ ~history.failed /\ ~history.raced =>
                Handled' = Handled \cup {Min(polls[p].page)}
           /\ \A r \in Polls : polls'[r].pc = "apply" => r # p /\ polls'[r] = polls[r]
           /\ merkle_last_consistent_block' = NextEvent(p).block
  <1> DEFINE q == [polls[p] EXCEPT !.pc = "handle", !.page = LaterEvents(p), !.nodes = <<>>]
  <1>1. PollTyped(polls[p]) /\ PollOK(polls[p]) /\ polls[p].pc = "apply" /\ DOMAIN polls = Polls
        /\ polls[p].page # {} /\ events[Min(polls[p].page)].key = "root"
    BY DEF ListenerIInv, ListenerType, ListenerInv, handle_root_changed, PollOK
  <1>2. PollTyped(q) /\ q.pc = "handle" /\ q.page = LaterEvents(p)
    BY <1>1, Zenon DEF PollTyped, LaterEvents
  <1>3. start_block # NoBlock
    BY <1>1, ActiveStarted DEF ListenerIInv
  <1>4. PollStepTo(p, q)
    BY <1>3, Zenon DEF PollStepTo, handle_root_changed
  <1> HIDE DEF q
  <1>5. PollOK(q)
    BY <1>1, <1>2, LaterOK
  <1>6. HistoryType' /\ history'.overlapped = history.overlapped
        /\ history'.raced = history.raced /\ history'.failed = history.failed
    BY Zenon DEF ListenerIInv, ListenerType, HistoryType, handle_root_changed
  <1>7. ~history'.overlapped => Active \subseteq {p} /\ ~history'.raced
    BY <1>1, <1>6, OnlyActive DEF ListenerIInv
  <1>8. /\ pagination_token' = pagination_token /\ shootdowns' = shootdowns
        /\ start_block' = start_block
        /\ merkle_last_consistent_block' = NextEvent(p).block
    BY DEF handle_root_changed
  <1>9. ListenerType' /\ ListenerInv' /\ First' = First /\ events' = events
        /\ \A r \in Polls : polls'[r] = IF r = p THEN q ELSE polls[r]
    <2>1. pagination_token' \in Nat /\ shootdowns' \in Seq(Values)
      BY <1>8 DEF ListenerIInv, ListenerType
    <2>2. q.pc # "page"
      BY <1>2
    <2>3. PICK k \in DOMAIN events : k = Min(polls[p].page) /\ ~(k <= First)
      <3>1. Min(polls[p].page) \in (First + 1)..Len(events)
        BY <1>1, FrontIs DEF PollOK, ListenerIInv
      <3> QED
        BY <1>3, <3>1, FirstIs DEF ListenerIInv
    <2>4. merkle_last_consistent_block' \in Nat /\ start_block <= merkle_last_consistent_block'
      BY <1>3, <1>8, <2>3, FirstIs, ChainFacts, SMTT(30) DEF NextEvent, ListenerIInv
    <2> QED
      BY <1>2, <1>4, <1>5, <1>6, <1>7, <2>1, <2>4, PollSwap DEF ListenerIInv
  <1>10. ASSUME ~history.failed, ~history.raced
         PROVE  PagesOK' /\ Handled' = Handled \cup {Min(polls[p].page)}
    BY <1>1, <1>2, <1>3, <1>8, <1>9, <1>10, FrontHandled
  <1>11. PagesInv'
    <2> SUFFICES ASSUME ~history.failed, ~history.raced
                 PROVE  PagesOK' /\ IsInjective(shootdowns')
                        /\ Range(shootdowns') = ShotDown(Handled)'
      BY <1>6 DEF PagesInv
    <2>1. IsInjective(shootdowns) /\ Range(shootdowns) = ShotDown(Handled)
      BY <1>3 DEF ListenerIInv, PagesInv
    <2>2. ShotDown(Handled)' = ShotDown(Handled)
      BY <1>1, <1>9, <1>10 DEF ShotDown
    <2> QED
      BY <1>8, <1>10, <2>1, <2>2, SMTT(30)
  <1> QED
    BY <1>2, <1>8, <1>9, <1>10, <1>11 DEF ListenerIInv

\* A new element at the end keeps a sequence free of repetitions.
LEMMA AppendFresh ==
    ASSUME NEW X, NEW s \in Seq(X), NEW x \in X, IsInjective(s), x \notin Range(s)
    PROVE  IsInjective(Append(s, x)) /\ Range(Append(s, x)) = Range(s) \cup {x}
  <1> DEFINE t == Append(s, x)
             n == Len(s)
  <1>1. n \in Nat /\ DOMAIN s = 1..n /\ DOMAIN t = 1..(n + 1)
    OBVIOUS
  <1>2. (\A i \in 1..n : t[i] = s[i]) /\ t[n + 1] = x
    OBVIOUS
  <1> HIDE DEF t, n
  <1>3. \A i \in 1..(n + 1) : i \in 1..n \/ i = n + 1
    BY <1>1
  <1>4. \A i \in 1..n : s[i] # x
    BY <1>1 DEF Range
  <1>5. IsInjective(t)
    BY <1>1, <1>2, <1>4 DEF IsInjective
  <1>6. n + 1 \in 1..(n + 1) /\ \A i \in 1..n : i \in 1..(n + 1)
    BY <1>1
  <1>7. Range(t) = Range(s) \cup {x}
    BY <1>1, <1>2 DEF Range
  <1> QED
    BY <1>5, <1>7 DEF t

\* A poll shoots down a nullifier, which it has not done before: the contract
\* accepts each once.
LEMMA StepNullifierSpent ==
    ASSUME ChainInv, ListenerIInv, NEW p \in Polls, handle_nullifier_spent(p)
    PROVE  /\ ListenerIInv' /\ First' = First
           /\ ~history.failed /\ ~history.raced =>
                Handled' = Handled \cup {Min(polls[p].page)}
           /\ \A r \in Polls : polls'[r].pc = "apply" => polls'[r] = polls[r]
  <1> DEFINE q == [polls[p] EXCEPT !.page = LaterEvents(p)]
             k0 == Min(polls[p].page)
  <1>1. PollTyped(polls[p]) /\ PollOK(polls[p]) /\ polls[p].pc = "handle"
        /\ DOMAIN polls = Polls
        /\ polls[p].page # {} /\ events[k0].key = "spent"
    BY DEF ListenerIInv, ListenerType, ListenerInv, handle_nullifier_spent, NextEvent
  <1>2. PollTyped(q) /\ q.pc = "handle" /\ q.page = LaterEvents(p)
    BY <1>1 DEF PollTyped, LaterEvents
  <1>3. start_block # NoBlock
    BY <1>1, ActiveStarted DEF ListenerIInv
  <1>4. PollStepTo(p, q)
    BY <1>3 DEF PollStepTo, handle_nullifier_spent
  <1> HIDE DEF q
  <1>5. PollOK(q)
    BY <1>1, <1>2, LaterOK
  <1>6. HistoryType' /\ history' = history
    BY DEF ListenerIInv, ListenerType, HistoryType, handle_nullifier_spent
  <1>7. ~history'.overlapped => Active \subseteq {p} /\ ~history'.raced
    BY <1>1, <1>6, OnlyActive DEF ListenerIInv
  <1>8. /\ pagination_token' = pagination_token
        /\ shootdowns' = Append(shootdowns, events[k0].val)
        /\ merkle_last_consistent_block' = merkle_last_consistent_block
        /\ start_block' = start_block
    BY DEF handle_nullifier_spent, NextEvent
  <1>12. /\ k0 \in DOMAIN events /\ First \in Nat
         /\ events[k0].val \in Values
    <2>1. k0 \in (First + 1)..Len(events)
      BY <1>1, FrontIs DEF PollOK, ListenerIInv
    <2>2. First \in Nat /\ k0 \in DOMAIN events
      BY <1>3, <2>1, FirstIs DEF ListenerIInv
    <2> QED
      BY <2>2, ChainFacts
  <1> HIDE DEF k0
  <1>9. ListenerType' /\ ListenerInv' /\ First' = First /\ events' = events
        /\ \A r \in Polls : polls'[r] = IF r = p THEN q ELSE polls[r]
    <2>1. pagination_token' \in Nat /\ shootdowns' \in Seq(Values)
          /\ merkle_last_consistent_block' \in Nat
               /\ start_block <= merkle_last_consistent_block'
      BY <1>3, <1>8, <1>12, SMTT(30) DEF ListenerIInv, ListenerType, ListenerInv
    <2>2. q.pc # "page"
      BY <1>2
    <2> QED
      BY <1>2, <1>4, <1>5, <1>6, <1>7, <2>1, PollSwap DEF ListenerIInv
  <1>10. ASSUME ~history.failed, ~history.raced
         PROVE  PagesOK' /\ Handled' = Handled \cup {k0} /\ k0 \notin Handled
    BY <1>1, <1>2, <1>3, <1>8, <1>9, <1>10, FrontHandled DEF k0
  <1>11. PagesInv'
    <2> SUFFICES ASSUME ~history.failed, ~history.raced
                 PROVE  PagesOK' /\ IsInjective(shootdowns')
                        /\ Range(shootdowns') = ShotDown(Handled)'
      BY <1>6 DEF PagesInv
    <2>1. IsInjective(shootdowns) /\ Range(shootdowns) = ShotDown(Handled) /\ PagesOK
      BY <1>3 DEF ListenerIInv, PagesInv
    <2>2. ShotDown(Handled)' = ShotDown(Handled) \cup {events[k0].val}
      BY <1>1, <1>9, <1>10 DEF ShotDown
    <2>3. Handled \subseteq DOMAIN events
      BY <1>12, <2>1 DEF Handled, PagesOK, Available, First, ListenerIInv, ListenerType
    <2>4. events[k0].val \notin Range(shootdowns)
      <3>1. ASSUME NEW k \in Handled,
                   events[k].key = "spent" PROVE events[k].val # events[k0].val
        <4>1. k # k0
          BY <1>10
        <4> QED
          BY <1>1, <1>12, <2>3, <3>1, <4>1 DEF ChainInv, ChainOK, SpentOnce
      <3> QED
        BY <2>1, <3>1 DEF ShotDown
    <2>5. IsInjective(shootdowns')
          /\ Range(shootdowns') = Range(shootdowns) \cup {events[k0].val}
      <3>1. shootdowns \in Seq(Values)
        BY DEF ListenerIInv, ListenerType
      <3> QED
        BY <1>8, <1>12, <2>1, <2>4, <3>1, AppendFresh
    <2> QED
      BY <1>10, <2>1, <2>2, <2>5
  <1> QED
    BY <1>2, <1>9, <1>10, <1>11 DEF ListenerIInv, k0

\* A page is an interval, and the token moves past it.
LEMMA PageIs ==
    ASSUME ChainInv, ListenerType, start_block # NoBlock, NEW t \in Nat
    PROVE  /\ Cardinality(PageAt(t)) \in Nat
           /\ \A k \in PageAt(t) : k \in (First + t + 1)..Len(events)
           /\ pagination_token = t /\ t <= Available =>
                 /\ NextToken(t, Cardinality(PageAt(t))) >= t
                 /\ NextToken(t, Cardinality(PageAt(t))) <= Available
                 /\ PageAt(t) = (First + t + 1)..(First + NextToken(t, Cardinality(PageAt(t))))
  <1>0. First \in Nat /\ Len(events) \in Nat /\ First <= Len(events) /\ EVENT_CHUNK_SIZE \in Nat
        /\ EVENT_CHUNK_SIZE > 0
    BY FirstIs, ChainParameters
  <1> DEFINE e == IF First + t + EVENT_CHUNK_SIZE <= Len(events)
                  THEN First + t + EVENT_CHUNK_SIZE ELSE Len(events)
  <1>1. PageAt(t) = (First + t + 1)..e
    BY <1>0 DEF PageAt, First
  <1>2. e \in Nat /\ e <= Len(events) /\ First + t + 1 \in Int
    BY <1>0
  <1>3. Cardinality(PageAt(t)) = IF First + t + 1 > e THEN 0 ELSE e - (First + t + 1) + 1
    <2>1. PICK a \in Int : a = First + t + 1
      BY <1>2
    <2>2. PICK z \in Int : z = e
      BY <1>2
    <2>3. Cardinality(a..z) = IF a > z THEN 0 ELSE z - a + 1
      BY FS_Interval
    <2> HIDE DEF e
    <2> QED
      BY <1>1, <2>1, <2>2, <2>3
  <1>4. Cardinality(PageAt(t)) \in Nat
    BY <1>2, <1>3
  <1>5. \A k \in PageAt(t) : k \in (First + t + 1)..Len(events)
    BY <1>1, <1>2
  <1>6. ASSUME pagination_token = t, t <= Len(events) - First
        PROVE  LET n == NextToken(t, Cardinality(PageAt(t))) IN
               n >= t /\ n <= Len(events) - First /\ e = First + n
    <2>1. CASE Len(events) - First > t + EVENT_CHUNK_SIZE
      <3>1. NextToken(t, Cardinality(PageAt(t))) = t + EVENT_CHUNK_SIZE
        BY <2>1 DEF NextToken, MorePages, Available, First
      <3> QED
        BY <1>0, <2>1, <3>1
    <2>2. CASE ~(Len(events) - First > t + EVENT_CHUNK_SIZE)
      <3>1. NextToken(t, Cardinality(PageAt(t))) = t + Cardinality(PageAt(t))
        BY <1>6, <2>2 DEF NextToken, MorePages, Available, First
      <3>2. e = Len(events)
        BY <1>0, <2>2
      <3>3. Cardinality(PageAt(t)) = Len(events) - First - t
        BY <1>0, <1>3, <1>6, <3>2
      <3> HIDE DEF e
      <3> QED
        BY <1>0, <1>6, <3>1, <3>2, <3>3
    <2> QED
      BY <2>1, <2>2
  <1> HIDE DEF e
  <1> QED
    BY <1>1, <1>4, <1>5, <1>6 DEF Available, First

\* A poll receives its page: unless it raced, the token moves past exactly the
\* events of the page, and those without a handler are done with at once.
LEMMA StepFetchPage ==
    ASSUME ChainInv, ListenerIInv, NEW p \in Polls, fetch_next_events_page(p)
    PROVE  /\ ListenerIInv' /\ First' = First
           /\ ~history'.failed /\ ~history'.raced =>
                ~history.raced /\ ~history.failed
                /\ \A k \in Handled' : k \in Handled \/ ~HasHandler(events[k])
           /\ \A r \in Polls : polls'[r].pc = "apply" => polls'[r] = polls[r]
  <1>1. PollTyped(polls[p]) /\ PollOK(polls[p]) /\ polls[p].pc = "page" /\ DOMAIN polls = Polls
        /\ pagination_token \in Nat
    BY DEF ListenerIInv, ListenerType, ListenerInv, fetch_next_events_page
  <1>2. PICK t \in Nat : t = polls[p].token
    BY <1>1 DEF PollTyped
  <1> DEFINE pg == {k \in PageAt(t) : HasHandler(events[k])}
             more == MorePages(t)
             q == [polls[p] EXCEPT !.pc = "handle", !.token = 0, !.page = pg, !.more = more]
             tk == NextToken(t, Cardinality(PageAt(t)))
  <1>3. start_block # NoBlock
    BY <1>1, ActiveStarted DEF ListenerIInv
  <1>4. /\ pagination_token' = tk
        /\ history' = [history EXCEPT !.raced = @ \/ pagination_token # t]
        /\ polls' = [polls EXCEPT ![p] = q]
        /\ UNCHANGED <<chain, start_block, merkle_last_consistent_block, shootdowns>>
    BY <1>2, Zenon DEF fetch_next_events_page
  <1>5. /\ Cardinality(PageAt(t)) \in Nat
        /\ \A k \in PageAt(t) : k \in (First + t + 1)..Len(events)
        /\ pagination_token = t /\ t <= Available =>
              tk >= t /\ tk <= Available /\ PageAt(t) = (First + t + 1)..(First + tk)
    BY <1>3, PageIs DEF ListenerIInv
  <1>6. tk \in Nat
    BY <1>1, <1>5, ChainParameters DEF NextToken
  <1>7. First \in Nat /\ Len(events) \in Nat
    BY <1>3, FirstIs DEF ListenerIInv
  <1>8. more \in BOOLEAN /\ pg \in SUBSET Nat
        /\ \A k \in pg : k \in (First + 1)..Len(events) /\ HasHandler(events[k])
    BY <1>5, <1>7 DEF MorePages
  <1>9. PollStepTo(p, q)
    BY <1>3, <1>4 DEF PollStepTo
  <1> HIDE DEF pg, more, tk
  <1>10. PollTyped(q) /\ q.pc = "handle" /\ q.page = pg
    BY <1>1, <1>8, Zenon DEF PollTyped
  <1> HIDE DEF q
  <1>11. PollOK(q)
    BY <1>8, <1>10, Zenon DEF PollOK
  <1>12. /\ HistoryType' /\ history'.overlapped = history.overlapped
         /\ history'.failed = history.failed
         /\ ~history'.raced <=> ~history.raced /\ pagination_token = t
    BY <1>4, Zenon DEF ListenerIInv, ListenerType, HistoryType
  <1>13. ~history'.overlapped => Active \subseteq {p} /\ ~history'.raced
    <2>1. ~history.overlapped => pagination_token = t
      BY <1>1, <1>2 DEF ListenerIInv, ListenerInv, Alone
    <2> QED
      BY <1>1, <1>12, <2>1, OnlyActive DEF ListenerIInv
  <1>14. ListenerType' /\ ListenerInv' /\ First' = First /\ events' = events
         /\ \A r \in Polls : polls'[r] = IF r = p THEN q ELSE polls[r]
    <2>1. pagination_token' \in Nat /\ shootdowns' \in Seq(Values)
          /\ merkle_last_consistent_block' \in Nat
               /\ start_block <= merkle_last_consistent_block'
      BY <1>3, <1>4, <1>6 DEF ListenerIInv, ListenerType, ListenerInv
    <2>2. q.pc # "page"
      BY <1>10
    <2> QED
      BY <1>9, <1>10, <1>11, <1>12, <1>13, <2>1, PollSwap DEF ListenerIInv
  <1>15. ASSUME ~history'.failed, ~history'.raced
         PROVE  /\ PagesOK'
                /\ \A k \in Handled' : k \in Handled \/ ~HasHandler(events[k])
                /\ Handled \subseteq Handled'
    <2>1. PagesOK /\ pagination_token = t
      BY <1>3, <1>12, <1>15 DEF ListenerIInv, PagesInv
    <2>2. tk >= t /\ tk <= Available /\ PageAt(t) = (First + t + 1)..(First + tk)
      BY <1>5, <2>1 DEF PagesOK
    <2>3. \A r \in Polls : polls'[r].page = IF r = p THEN pg ELSE polls[r].page
      BY <1>10, <1>14
    <2>4. polls[p].page = {}
      BY <1>1 DEF PollOK
    <2>5. \A r \in Polls : \A k \in polls[r].page : k \in Nat /\ k <= First + t
      BY <2>1 DEF PagesOK, ListenerIInv, ListenerType, PollTyped
    <2>6. \A k \in pg : k \in Nat /\ k > First + t /\ k <= First + tk /\ k \in PageAt(t)
          /\ HasHandler(events[k])
      BY <1>7, <2>2 DEF pg
    <2>7. PagesOK'
      <3>1. pagination_token' <= Available'
        BY <1>4, <1>14, <2>2 DEF Available, First
      <3>2. \A r \in Polls : \A k \in polls'[r].page : k <= First' + pagination_token'
        BY <1>4, <1>6, <1>7, <1>14, <2>2, <2>3, <2>5, <2>6
      <3>3. ASSUME NEW r \in Polls, NEW s \in Polls, r # s
            PROVE  polls'[r].page \cap polls'[s].page = {}
        <4>1. \A u \in Polls : pg \cap polls[u].page = {}
          BY <1>7, <2>5, <2>6
        <4> QED
          BY <2>1, <2>3, <3>3, <4>1 DEF PagesOK
      <3> QED
        BY <3>1, <3>2, <3>3 DEF PagesOK
    <2>8. \A k \in (First + 1)..(First + tk) : k \in (First + 1)..(First + t) \/ k \in PageAt(t)
      BY <1>7, <2>2
    <2>9. \A k \in (First + 1)..(First + t) : k \in (First + 1)..(First + tk) /\ k \notin pg
      BY <1>6, <1>7, <2>2, <2>6
    <2>10. Handled' = {k \in (First + 1)..(First + tk) :
                          \A r \in Polls : k \notin IF r = p THEN pg ELSE polls[r].page}
      BY <1>4, <1>14, <2>3 DEF Handled
    <2>11. Handled = {k \in (First + 1)..(First + t) : \A r \in Polls : k \notin polls[r].page}
      BY <2>1 DEF Handled
    <2>12. ASSUME NEW k \in Handled' PROVE k \in Handled \/ ~HasHandler(events[k])
      <3>1. CASE k \in PageAt(t)
        BY <2>10, <3>1 DEF pg
      <3>2. CASE k \in (First + 1)..(First + t)
        BY <2>4, <2>10, <2>11, <3>2
      <3> QED
        BY <2>8, <2>10, <3>1, <3>2
    <2>13. Handled \subseteq Handled'
      BY <2>9, <2>10, <2>11
    <2> QED
      BY <2>7, <2>12, <2>13
  <1>16. PagesInv'
    <2> SUFFICES ASSUME ~history'.failed, ~history'.raced
                 PROVE  PagesOK' /\ IsInjective(shootdowns')
                        /\ Range(shootdowns') = ShotDown(Handled)'
      BY DEF PagesInv
    <2>1. IsInjective(shootdowns) /\ Range(shootdowns) = ShotDown(Handled)
      BY <1>3, <1>12 DEF ListenerIInv, PagesInv
    <2>2. \A k : events[k].key = "spent" => HasHandler(events[k])
      BY DEF HasHandler
    <2>3. ShotDown(Handled)' = ShotDown(Handled)
      BY <1>14, <1>15, <2>2 DEF ShotDown
    <2> QED
      BY <1>4, <1>15, <2>1, <2>3
  <1> QED
    BY <1>10, <1>12, <1>14, <1>15, <1>16 DEF ListenerIInv

\* The listener notes its start block, nothing being done with yet.
LEMMA StepExecute ==
    ASSUME ChainInv, ListenerIInv, execute
    PROVE  /\ ListenerIInv' /\ Handled' = {} /\ merkle_last_consistent_block' = block
           /\ \A p \in Polls : polls'[p].pc = "idle"
  <1>1. start_block = NoBlock /\ start_block' = block /\ merkle_last_consistent_block' = block
        /\ pagination_token' = pagination_token /\ polls' = polls /\ shootdowns' = shootdowns
        /\ events' = events /\ block' = block
    BY DEF execute, chain
  <1>2. pagination_token = 0 /\ shootdowns = <<>> /\ \A p \in Polls : polls[p].pc = "idle"
    BY <1>1 DEF ListenerIInv, ListenerInv, Active
  <1>3. \A p \in Polls : polls[p].page = {}
    BY <1>2 DEF ListenerIInv, ListenerInv, PollOK
  <1>4. block \in Nat /\ Len(events) \in Nat /\ block # NoBlock
    BY ChainFacts, ChainParameters
  <1>5. HistoryType' /\ history'.overlapped = history.overlapped
        /\ history'.raced = history.raced /\ history'.failed = history.failed
    BY Zenon DEF ListenerIInv, ListenerType, HistoryType, execute
  <1>6. ListenerType'
    BY <1>1, <1>4, <1>5 DEF ListenerIInv, ListenerType
  <1>7. First' = Before(block)
    BY <1>1 DEF First, Before
  <1>8. First' \in Nat /\ First' <= Len(events)
    BY <1>4, <1>7, BeforeIs
  <1>9. ListenerInv'
    <2>1. \A p \in Polls : PollOK(polls[p])'
      BY <1>1, <1>2, <1>3 DEF PollOK
    <2>2. Alone'
      BY <1>1, <1>5 DEF ListenerIInv, ListenerInv, Alone, Active
    <2> QED
      BY <1>1, <1>4, <2>1, <2>2 DEF ListenerInv
  <1>10. Handled' = {}
    <2>1. PICK f \in Nat : f = First'
      BY <1>8
    <2>2. (f + 1)..(f + 0) = {}
      OBVIOUS
    <2> QED
      BY <1>1, <1>2, <2>1 DEF Handled
  <1>11. PagesInv'
    <2>1. PagesOK'
      <3>1. Available' = Len(events) - First'
        BY <1>1 DEF Available, First
      <3>2. pagination_token' <= Available'
        BY <1>1, <1>2, <1>8, <3>1
      <3> QED
        BY <1>1, <1>3, <3>2 DEF PagesOK
    <2>2. IsInjective(shootdowns') /\ Range(shootdowns') = {}
      BY <1>1, <1>2 DEF IsInjective, Range
    <2>3. ShotDown(Handled)' = {}
      BY <1>10 DEF ShotDown
    <2> QED
      BY <2>1, <2>2, <2>3 DEF PagesInv
  <1> QED
    BY <1>1, <1>2, <1>6, <1>9, <1>10, <1>11 DEF ListenerIInv

\* The listener before it starts.
LEMMA InitListener ==
    ASSUME Init
    PROVE  ListenerIInv
  <1>1. \A p \in Polls : polls[p] = Idle
    BY DEF Init
  <1>2. PollTyped(Idle) /\ Idle.pc = "idle" /\ Idle.page = {}
    BY SMTT(30) DEF PollTyped, Idle
  <1>3. ListenerType
    BY <1>2, SMTT(30) DEF ListenerType, HistoryType, Init
  <1>4. ListenerInv
    BY <1>2 DEF ListenerInv, Init, Active, PollOK, Alone
  <1>5. PagesInv
    BY DEF PagesInv, Init
  <1> QED
    BY <1>3, <1>4, <1>5 DEF ListenerIInv

-----------------------------------------------------------------------------
(* What the other actions leave to the listener                             *)

\* The startup thread's state.
InitType ==
    init \in [pc : {"scan", "attach", "prove", "done"}, seen : Nat, path : {init.path},
              todo : SUBSET Orders, sending : SUBSET Orders, waiting : SUBSET Orders]

\* Nothing that went wrong is forgotten.
Worse ==
    /\ HistoryType'
    /\ history.failed => history'.failed
    /\ history.overlapped => history'.overlapped
    /\ history.raced => history'.raced
    /\ history.gap => history'.gap

\* The listener's state stays as it is.
Away ==
    /\ UNCHANGED <<listener, shootdowns>> /\ Worse
    /\ history'.overlapped = history.overlapped /\ history'.raced = history.raced
    /\ history'.failed = history.failed

\* The wallet keeps its path, and the startup thread the one it has built.
PathKept ==
    /\ merkle_proof' = merkle_proof /\ InitType'
    /\ init'.seen = init.seen /\ init'.path = init.path
    /\ init'.pc = init.pc \/ (init'.pc = "done" /\ init.pc \in {"scan", "prove"})

\* The steps that change neither, of the contract, the tasks, the startup
\* thread and the proof manager.
Quiet ==
    \/ \E txs \in Blocks : MineBlock(txs)
    \/ TaskStep
    \/ ScanFails \/ attach_validity_proof_witness \/ InitPanics
    \/ \E o \in Orders : SendOrderJob(o) \/ add_order_validity_proof(o)
    \/ Cancel \/ execution_loop \/ handle_proof_job
    \/ UNCHANGED vars

Elsewhere == Quiet \/ ScanTree \/ add_wallet_merkle_proof

\* Every step is one of the listener's or happens elsewhere.
LEMMA NextCases ==
    ASSUME [Next]_vars
    PROVE  \/ Elsewhere \/ execute
           \/ \E p \in Polls :
                \/ SpawnPoll(p) \/ RequestPage(p) \/ fetch_next_events_page(p) \/ PageDone(p)
                \/ SkipRoot(p) \/ handle_nullifier_spent(p) \/ FetchNodes(p)
                \/ handle_root_changed(p) \/ PollFails(p)
  BY DEF Next, PollStep, InitStep, Elsewhere, Quiet

\* Every step keeps the chain invariant, and events are only added.
LEMMA ChainNext ==
    ASSUME ChainInv, [Next]_vars
    PROVE  ChainInv' /\ Grown
  <1>1. ASSUME NEW txs \in Blocks, MineBlock(txs) PROVE ChainInv' /\ Grown
    BY <1>1, MineChain
  <1>2. (\E txs \in Blocks : MineBlock(txs)) \/ UNCHANGED chain
    <2>1. CASE execute
      BY <2>1 DEF execute
    <2>2. CASE \E p \in Polls : SpawnPoll(p) \/ PollStep(p) \/ PollFails(p)
      BY <2>2, Zenon DEF SpawnPoll, PollStep, PollFails, RequestPage, fetch_next_events_page,
      PageDone, SkipRoot, handle_nullifier_spent, FetchNodes, handle_root_changed
    <2>3. CASE TaskStep
      BY <2>3, Zenon DEF TaskStep, update_wallet_commitment_proofs, TaskFails,
      update_order_proof
    <2>4. CASE InitStep
      BY <2>4, Zenon DEF InitStep, ScanTree, ScanFails, add_wallet_merkle_proof,
      attach_validity_proof_witness, InitPanics, SendOrderJob, add_order_validity_proof
    <2>5. CASE Cancel \/ execution_loop \/ handle_proof_job \/ UNCHANGED vars
      BY <2>5 DEF Cancel, execution_loop, handle_proof_job, vars
    <2> QED
      BY <2>1, <2>2, <2>3, <2>4, <2>5 DEF Next
  <1> QED
    BY <1>1, <1>2, ChainKept

\* The quiet steps leave the listener alone.
LEMMA QuietAway ==
    ASSUME HistoryType, Quiet
    PROVE  Away
  <1>1. ASSUME UNCHANGED <<listener, shootdowns, history>> PROVE Away
    BY <1>1 DEF Away, Worse, HistoryType
  <1>2. CASE \E txs \in Blocks : MineBlock(txs)
    BY <1>1, <1>2 DEF MineBlock
  <1>3. CASE TaskStep
    BY <1>1, <1>3, Zenon DEF TaskStep, update_wallet_commitment_proofs, TaskFails,
    update_order_proof, Stored
  <1>4. CASE ScanFails \/ attach_validity_proof_witness \/ InitPanics
    BY <1>1, <1>4 DEF ScanFails, attach_validity_proof_witness, InitPanics
  <1>5. CASE \E o \in Orders : SendOrderJob(o) \/ add_order_validity_proof(o)
    BY <1>1, <1>5 DEF SendOrderJob, add_order_validity_proof, Stored
  <1>6. CASE Cancel \/ execution_loop \/ UNCHANGED vars
    BY <1>1, <1>6 DEF Cancel, execution_loop, vars
  <1>7. CASE handle_proof_job
    <2>1. history' = [history EXCEPT !.late = IF cancelled THEN history.late + 1 ELSE history.late]
          /\ UNCHANGED <<listener, shootdowns>>
      BY <1>7 DEF handle_proof_job
    <2>2. history.late + 1 \in Nat /\ history.late \in Nat
      BY DEF HistoryType
    <2> QED
      BY <2>1 DEF Away, Worse, HistoryType
  <1> QED
    BY <1>2, <1>3, <1>4, <1>5, <1>6, <1>7 DEF Quiet

\* The quiet steps leave the paths alone.
LEMMA QuietKept ==
    ASSUME InitType, Quiet
    PROVE  PathKept
  <1>1. ASSUME UNCHANGED <<init, merkle_proof>> PROVE PathKept
    BY <1>1 DEF PathKept, InitType
  <1>2. CASE \E txs \in Blocks : MineBlock(txs)
    BY <1>1, <1>2 DEF MineBlock, wallet
  <1>3. CASE TaskStep
    BY <1>1, <1>3, Zenon DEF TaskStep, update_wallet_commitment_proofs, TaskFails,
    update_order_proof, wallet
  <1>4. CASE ScanFails
    BY <1>4 DEF ScanFails, wallet, PathKept, InitType
  <1>5. CASE attach_validity_proof_witness
    BY <1>5 DEF attach_validity_proof_witness, wallet, PathKept, InitType
  <1>6. CASE InitPanics
    BY <1>6 DEF InitPanics, wallet, PathKept, InitType
  <1>7. ASSUME NEW o \in Orders, SendOrderJob(o) PROVE PathKept
    <2>0. merkle_proof' = merkle_proof /\ init.pc = "prove"
      BY <1>7 DEF SendOrderJob, wallet
    <2>1. CASE init' = [init EXCEPT !.todo = @ \ {o}, !.sending = {o}, !.waiting = @ \cup {o}]
      BY <2>0, <2>1, Zenon DEF PathKept, InitType
    <2>2. CASE init' = [init EXCEPT !.pc = "done"]
      BY <2>0, <2>2 DEF PathKept, InitType
    <2>3. CASE init' = [init EXCEPT !.todo = @ \ {o}]
      BY <2>0, <2>3 DEF PathKept, InitType
    <2> QED
      BY <1>7, <2>1, <2>2, <2>3 DEF SendOrderJob
  <1>8. ASSUME NEW o \in Orders, add_order_validity_proof(o) PROVE PathKept
    BY <1>8 DEF add_order_validity_proof, wallet, PathKept, InitType
  <1>9. CASE Cancel \/ execution_loop \/ handle_proof_job \/ UNCHANGED vars
    BY <1>1, <1>9 DEF Cancel, execution_loop, handle_proof_job, vars, wallet
  <1> QED
    BY <1>2, <1>3, <1>4, <1>5, <1>6, <1>7, <1>8, <1>9 DEF Quiet

\* The steps of the others leave the listener alone.
LEMMA ElsewhereAway ==
    ASSUME HistoryType, Elsewhere
    PROVE  Away
  <1>1. CASE ScanTree
    BY <1>1, Zenon DEF ScanTree, Away, Worse, HistoryType
  <1>2. CASE add_wallet_merkle_proof
    BY <1>2 DEF add_wallet_merkle_proof, Away, Worse, HistoryType
  <1> QED
    BY <1>1, <1>2, QuietAway DEF Elsewhere

\* Every step keeps the startup thread's state well formed.
LEMMA InitTypeNext ==
    ASSUME ChainInv, InitType, [Next]_vars
    PROVE  InitType'
  <1>1. CASE Quiet
    BY <1>1, QuietKept DEF PathKept
  <1>2. CASE ScanTree
    <2>1. leaves \in Nat
      BY ChainFacts
    <2> QED
      BY <1>2, <2>1, Zenon DEF ScanTree, InitType
  <1>3. CASE add_wallet_merkle_proof
    BY <1>3 DEF add_wallet_merkle_proof, InitType
  <1>4. CASE UNCHANGED init
    BY <1>4 DEF InitType
  <1> QED
    BY <1>1, <1>2, <1>3, <1>4, NextCases, Zenon DEF Elsewhere, execute, SpawnPoll, RequestPage,
    fetch_next_events_page, PageDone, SkipRoot, handle_nullifier_spent, FetchNodes,
    handle_root_changed, PollFails

\* No step forgets what went wrong.
LEMMA WorseNext ==
    ASSUME HistoryType, [Next]_vars
    PROVE  Worse
  <1>1. CASE Elsewhere
    BY <1>1, ElsewhereAway DEF Away
  <1>2. CASE UNCHANGED history
    BY <1>2 DEF Worse, HistoryType
  <1>3. CASE execute
    BY <1>3, Zenon DEF execute, Worse, HistoryType
  <1>4. ASSUME NEW p \in Polls, SpawnPoll(p) PROVE Worse
    BY <1>4, Zenon DEF SpawnPoll, Worse, HistoryType
  <1>5. ASSUME NEW p \in Polls, fetch_next_events_page(p) PROVE Worse
    BY <1>5, Zenon DEF fetch_next_events_page, Worse, HistoryType
  <1>6. ASSUME NEW p \in Polls, handle_root_changed(p) PROVE Worse
    BY <1>6, Zenon DEF handle_root_changed, Worse, HistoryType
  <1>7. ASSUME NEW p \in Polls, PollFails(p) PROVE Worse
    BY <1>7, Zenon DEF PollFails, Worse, HistoryType
  <1> QED
    BY <1>1, <1>2, <1>3, <1>4, <1>5, <1>6, <1>7, NextCases, Zenon DEF RequestPage, PageDone,
    SkipRoot, handle_nullifier_spent, FetchNodes

\* Every step keeps the listener's invariant.
LEMMA ListenerNext ==
    ASSUME ChainInv, ListenerIInv, [Next]_vars
    PROVE  ListenerIInv'
  <1>1. CASE Elsewhere
    <2>1. Away /\ Grown
      BY <1>1, ElsewhereAway, ChainNext DEF ListenerIInv, ListenerType
    <2> QED
      BY <2>1, ListenerFrame DEF Away, Worse
  <1>2. CASE execute
    BY <1>2, StepExecute
  <1>3. ASSUME NEW p \in Polls,
               \/ SpawnPoll(p) \/ RequestPage(p) \/ fetch_next_events_page(p) \/ PageDone(p)
               \/ SkipRoot(p) \/ handle_nullifier_spent(p) \/ FetchNodes(p)
               \/ handle_root_changed(p) \/ PollFails(p)
        PROVE  ListenerIInv'
    BY <1>3, StepSpawnPoll, StepRequestPage, StepFetchPage, StepPageDone, StepSkipRoot,
    StepNullifierSpent, StepFetchNodes, StepRootChanged, StepPollFails, Zenon
  <1> QED
    BY <1>1, <1>2, <1>3, NextCases

\* Everything from the start block on is done with once the listener has
\* caught up.
LEMMA AllHandled ==
    ASSUME ChainInv, ListenerIInv, CaughtUp
    PROVE  Handled = (First + 1)..Len(events)
  <1>1. \A p \in Polls : polls[p].page = {}
    BY DEF CaughtUp, Active, ListenerIInv, ListenerInv, PollOK
  <1>2. First \in Nat /\ Len(events) \in Nat
    BY FirstIs DEF ListenerIInv, CaughtUp
  <1>3. First + pagination_token = Len(events)
    BY <1>2 DEF CaughtUp, Available, First
  <1> QED
    BY <1>1, <1>3 DEF Handled

\* The invariant of the listener gives SpentHandledOnce.
LEMMA SpentHandled ==
    ASSUME ChainInv, ListenerIInv
    PROVE  SpentHandledOnce
  <1> SUFFICES ASSUME ~history.failed, ~history.raced, start_block # NoBlock
               PROVE  /\ IsInjective(shootdowns) /\ Range(shootdowns) \subseteq SpentSince
                      /\ CaughtUp => Range(shootdowns) = SpentSince
    BY DEF SpentHandledOnce
  <1>1. IsInjective(shootdowns) /\ Range(shootdowns) = ShotDown(Handled) /\ PagesOK
    BY DEF ListenerIInv, PagesInv
  <1>2. /\ start_block \in Nat /\ First \in Nat /\ First <= Len(events) /\ Len(events) \in Nat
        /\ DOMAIN events = 1..Len(events)
        /\ \A k \in DOMAIN events : /\ k <= First <=> events[k].block < start_block
                                    /\ events[k].block \in Nat
    BY FirstIs, ChainFacts DEF ListenerIInv
  <1>3. pagination_token \in Nat /\ First + pagination_token <= Len(events)
    BY <1>1, <1>2 DEF ListenerIInv, ListenerType, PagesOK, Available, First
  <1>4. \A k \in Handled : k \in DOMAIN events /\ events[k].block >= start_block
    BY <1>2, <1>3 DEF Handled
  <1>5. \A k \in DOMAIN events : events[k].block >= start_block
        => k \in (First + 1)..Len(events)
    BY <1>2
  <1>6. SpentSince = {events[k].val : k \in {l \in DOMAIN events : /\ events[l].key = "spent"
                                                                    /\ events[l].block >= start_block}}
    BY DEF SpentSince, Range
  <1>7. ShotDown(Handled) \subseteq SpentSince
    BY <1>4, <1>6 DEF ShotDown
  <1>8. CaughtUp => SpentSince \subseteq ShotDown(Handled)
    BY <1>5, <1>6, AllHandled DEF ShotDown
  <1> QED
    BY <1>1, <1>7, <1>8

-----------------------------------------------------------------------------
(* The wallet's path                                                        *)

\* The roots that are done with are of blocks up to the last consistent one,
\* a root that is about to be applied is of a later block.
RootsOK ==
    /\ start_block # NoBlock =>
         \A k \in Handled : events[k].key = "root"
         => events[k].block <= merkle_last_consistent_block
    /\ \A p \in Polls : polls[p].pc = "apply"
         => NextEvent(p).block > merkle_last_consistent_block

RootsInv ==
    /\ merkle_last_consistent_block <= block
    /\ ~history.failed /\ ~history.overlapped => RootsOK

\* The root at the front of a page is in the chain.
LEMMA ApplyIs ==
    ASSUME ChainInv, ListenerIInv, NEW p \in Polls, polls[p].page # {}
    PROVE  /\ Min(polls[p].page) \in DOMAIN events /\ Min(polls[p].page) > First
           /\ NextEvent(p) = events[Min(polls[p].page)]
           /\ NextEvent(p).block \in Nat /\ NextEvent(p).block <= block
  <1>1. Min(polls[p].page) \in polls[p].page /\ start_block # NoBlock
    BY FrontIs DEF ListenerIInv
  <1>2. First \in Nat /\ DOMAIN events = 1..Len(events) /\ Len(events) \in Nat
    BY <1>1, FirstIs DEF ListenerIInv
  <1>3. Min(polls[p].page) \in (First + 1)..Len(events)
    BY <1>1 DEF ListenerIInv, ListenerInv, PollOK
  <1>4. Min(polls[p].page) \in DOMAIN events /\ Min(polls[p].page) > First
    BY <1>2, <1>3
  <1> QED
    BY <1>4, ChainFacts DEF NextEvent

\* The polls that are about to apply nodes stay as they are.
SameApply ==
    \A r \in Polls : polls'[r].pc = "apply" => polls'[r] = polls[r]

\* The root that such a poll is about to apply stays the same.
LEMMA ApplyKept ==
    ASSUME ChainInv, Grown, ListenerIInv, SameApply, NEW p \in Polls, polls'[p].pc = "apply"
    PROVE  /\ polls[p].pc = "apply" /\ polls[p].page # {} /\ polls'[p].nodes = polls[p].nodes
           /\ NextEvent(p)' = NextEvent(p)
  <1>1. polls'[p] = polls[p] /\ polls[p].pc = "apply"
    BY DEF SameApply
  <1>2. polls[p].page # {}
    BY <1>1 DEF ListenerIInv, ListenerInv, PollOK
  <1>3. PICK k \in DOMAIN events : k = Min(polls[p].page)
    BY <1>2, ApplyIs
  <1>4. events'[k] = events[k]
    BY DEF Grown
  <1> QED
    BY <1>1, <1>2, <1>3, <1>4 DEF NextEvent

\* The roots' invariant is kept when the events newly done with are no roots,
\* or consumed ones.
LEMMA RootsFrame ==
    ASSUME ChainInv, Grown, ListenerIInv, RootsInv, SameApply,
           UNCHANGED <<start_block, merkle_last_consistent_block>>,
           ~history'.failed /\ ~history'.overlapped =>
              /\ ~history.failed /\ ~history.overlapped
              /\ start_block # NoBlock =>
                   \A k \in Handled' : \/ k \in Handled
                                       \/ events'[k].key # "root"
                                       \/ events'[k].block <= merkle_last_consistent_block
    PROVE  RootsInv'
  <1>1. block \in Nat /\ block' \in Nat /\ block <= block'
        /\ merkle_last_consistent_block \in Nat
        /\ merkle_last_consistent_block <= block
    BY ChainFacts DEF Grown, RootsInv, ListenerIInv, ListenerType
  <1>2. ASSUME ~history'.failed, ~history'.overlapped PROVE RootsOK'
    <2>1. RootsOK /\ ~history.failed /\ ~history.overlapped
      BY <1>2 DEF RootsInv
    <2>2. ASSUME start_block # NoBlock, NEW k \in Handled', events'[k].key = "root"
          PROVE  events'[k].block <= merkle_last_consistent_block
      <3>1. CASE k \in Handled
        <4>1. k \in DOMAIN events
          <5>1. First \in Nat /\ pagination_token \in Nat /\ DOMAIN events = 1..Len(events)
                /\ Len(events) \in Nat
            BY <2>2, FirstIs DEF ListenerIInv, ListenerType
          <5>2. pagination_token <= Len(events) - First
            BY <2>1, <2>2 DEF ListenerIInv, ListenerInv, Alone, PagesInv, PagesOK,
            Available, First
          <5> QED
            BY <3>1, <5>1, <5>2 DEF Handled
        <4>2. events'[k] = events[k]
          BY <4>1, Zenon DEF Grown
        <4> QED
          BY <2>1, <2>2, <3>1, <4>2 DEF RootsOK
      <3> QED
        BY <1>2, <2>2, <3>1
    <2>3. ASSUME NEW p \in Polls, polls'[p].pc = "apply"
          PROVE  NextEvent(p)'.block > merkle_last_consistent_block
      BY <2>1, <2>3, ApplyKept DEF RootsOK
    <2> QED
      BY <2>2, <2>3 DEF RootsOK
  <1> QED
    BY <1>1, <1>2 DEF RootsInv

\* A poll reads nodes for a root that is not consumed.
LEMMA RootsFetchNodes ==
    ASSUME ChainInv, ListenerIInv, RootsInv, NEW p \in Polls, FetchNodes(p)
    PROVE  RootsInv' /\ NextEvent(p)' = NextEvent(p)
  <1>1. /\ Handled' = Handled /\ polls'[p].page = polls[p].page /\ polls[p].page # {}
        /\ \A r \in Polls : r # p => polls'[r] = polls[r]
        /\ UNCHANGED <<chain, start_block, merkle_last_consistent_block, history>>
        /\ NextEvent(p).key = "root" /\ ~Consumed(NextEvent(p))
    BY StepFetchNodes, Zenon DEF FetchNodes
  <1>2. \A r \in Polls : NextEvent(r)' = NextEvent(r)
    BY <1>1 DEF NextEvent, chain
  <1>3. NextEvent(p).block > merkle_last_consistent_block
    BY <1>1, ApplyIs, SMTT(30) DEF Consumed, ListenerIInv, ListenerType
  <1>4. RootsOK => RootsOK'
    BY <1>1, <1>2, <1>3, SMTT(30) DEF RootsOK, chain
  <1> QED
    BY <1>1, <1>2, <1>4 DEF RootsInv, chain

\* The root just applied is of the last consistent block, and the latest of
\* those done with.
LEMMA RootsRootChanged ==
    ASSUME ChainInv, ListenerIInv, RootsInv, NEW p \in Polls, handle_root_changed(p)
    PROVE  /\ RootsInv'
           /\ ~history.overlapped => \A r \in Polls : polls'[r].pc # "apply"
  <1>1. /\ ~history.failed /\ ~history.raced => Handled' = Handled \cup {Min(polls[p].page)}
        /\ \A r \in Polls : polls'[r].pc = "apply" => r # p /\ polls'[r] = polls[r]
        /\ merkle_last_consistent_block' = NextEvent(p).block
    BY StepRootChanged
  <1>2. /\ polls[p].pc = "apply" /\ events' = events /\ block' = block
             /\ start_block' = start_block
        /\ HistoryType
    BY DEF handle_root_changed, chain, ListenerIInv, ListenerType
  <1>3. history'.failed = history.failed /\ history'.overlapped = history.overlapped
    BY <1>2 DEF handle_root_changed, HistoryType
  <1>4. /\ Min(polls[p].page) \in DOMAIN events
        /\ NextEvent(p) = events[Min(polls[p].page)]
        /\ NextEvent(p).block \in Nat /\ NextEvent(p).block <= block
    <2>1. polls[p].page # {}
      BY <1>2, SMTT(30) DEF ListenerIInv, ListenerInv, PollOK
    <2> QED
      BY <2>1, ApplyIs
  <1>5. ~history.overlapped => ~history.raced /\ \A r \in Polls : polls'[r].pc # "apply"
    <2> SUFFICES ASSUME ~history.overlapped
                 PROVE  ~history.raced /\ \A r \in Polls : polls'[r].pc # "apply"
      OBVIOUS
    <2>1. Active \subseteq {p} /\ ~history.raced
      BY <1>2, OnlyActive, SMTT(30) DEF ListenerIInv
    <2> QED
      BY <1>1, <2>1 DEF Active
  <1>6. ASSUME ~history.failed, ~history.overlapped PROVE RootsOK'
    <2>1. RootsOK /\ start_block # NoBlock /\ NextEvent(p).block > merkle_last_consistent_block
      BY <1>2, <1>6, ActiveStarted DEF RootsInv, ListenerIInv, RootsOK
    <2>2. ASSUME NEW k \in Handled', events[k].key = "root"
          PROVE  events[k].block <= NextEvent(p).block
      <3>1. CASE k = Min(polls[p].page)
        BY <1>4, <3>1
      <3>2. CASE k \in Handled
        <4>1. events[k].block <= merkle_last_consistent_block
          BY <2>1, <2>2, <3>2 DEF RootsOK
        <4>2. k \in DOMAIN events
          <5>1. First \in Nat /\ pagination_token \in Nat /\ DOMAIN events = 1..Len(events)
                /\ Len(events) \in Nat
            BY <2>1, FirstIs DEF ListenerIInv, ListenerType
          <5>2. pagination_token <= Len(events) - First
            BY <1>5, <1>6, <2>1 DEF ListenerIInv, PagesInv, PagesOK, Available, First
          <5> QED
            BY <3>2, <5>1, <5>2 DEF Handled
        <4>3. events[k].block \in Nat /\ merkle_last_consistent_block \in Nat
          BY <4>2, ChainFacts DEF ListenerIInv, ListenerType
        <4> QED
          BY <1>4, <2>1, <4>1, <4>3
      <3> QED
        BY <1>1, <1>5, <1>6, <3>1, <3>2
    <2> QED
      BY <1>1, <1>2, <1>5, <1>6, <2>2, SMTT(30) DEF RootsOK
  <1> QED
    BY <1>1, <1>2, <1>3, <1>4, <1>5, <1>6, SMTT(30) DEF RootsInv

\* The steps of the others keep the roots' invariant.
LEMMA AwayRoots ==
    ASSUME ChainInv, Grown, ListenerIInv, RootsInv, Away
    PROVE  RootsInv' /\ SameApply
  <1>1. /\ start_block # NoBlock => Handled' = Handled
        /\ UNCHANGED <<start_block, merkle_last_consistent_block, polls>>
        /\ history'.overlapped = history.overlapped /\ history'.failed = history.failed
    BY ListenerFrame DEF Away, Worse, listener
  <1>2. SameApply
    BY <1>1 DEF SameApply
  <1> QED
    BY <1>1, <1>2, RootsFrame

\* At the start no root is done with.
LEMMA RootsExecute ==
    ASSUME ChainInv, ListenerIInv, execute
    PROVE  RootsInv'
  <1>1. Handled' = {} /\ merkle_last_consistent_block' = block /\ block' = block
        /\ block \in Nat /\ \A p \in Polls : polls'[p].pc # "apply"
    BY StepExecute, ChainFacts DEF execute, chain
  <1> QED
    BY <1>1 DEF RootsInv, RootsOK

\* The steps of a poll other than reading nodes, applying them and failing.
PollMoves(p) ==
    \/ SpawnPoll(p) \/ RequestPage(p) \/ fetch_next_events_page(p) \/ PageDone(p)
    \/ SkipRoot(p) \/ handle_nullifier_spent(p)

\* The other steps of a poll keep the roots' invariant.
LEMMA PollMovesRoots ==
    ASSUME ChainInv, ListenerIInv, RootsInv, NEW p \in Polls, PollMoves(p)
    PROVE  RootsInv' /\ SameApply
  <1>1. Grown /\ Worse
    <2>1. [Next]_vars
      BY DEF PollMoves, Next, PollStep
    <2> QED
      BY <2>1, ChainNext, WorseNext DEF ListenerIInv, ListenerType
  <1>2. /\ UNCHANGED <<start_block, merkle_last_consistent_block>> /\ events' = events
        /\ HistoryType
    BY Zenon DEF PollMoves, SpawnPoll, RequestPage, fetch_next_events_page, PageDone,
    SkipRoot, handle_nullifier_spent, ListenerIInv, ListenerType, chain
  <1>3. SameApply
    <2>1. CASE SpawnPoll(p)
      <3>1. [polls[p] EXCEPT !.pc = "load"].pc = "load"
        BY SMTT(30)
      <3> QED
        BY <2>1, <3>1, StepSpawnPoll, Zenon DEF SameApply
    <2>2. CASE ~SpawnPoll(p)
      BY <2>2, StepRequestPage, StepFetchPage, StepPageDone, StepSkipRoot,
      StepNullifierSpent DEF SameApply, PollMoves
    <2> QED
      BY <2>1, <2>2
  <1>4. ASSUME ~history'.failed, ~history'.overlapped
        PROVE  /\ ~history.failed /\ ~history.overlapped
               /\ \A k \in Handled' : \/ k \in Handled
                                      \/ events[k].key # "root"
                                      \/ events[k].block <= merkle_last_consistent_block
    <2>1. ~history.failed /\ ~history.overlapped
      BY <1>1, <1>4 DEF Worse
    <2>2. ~history.raced /\ ~history'.raced
      <3>1. ListenerIInv'
        BY StepSpawnPoll, StepRequestPage, StepFetchPage, StepPageDone, StepSkipRoot,
        StepNullifierSpent, Zenon DEF PollMoves
      <3> QED
        BY <1>4, <2>1, <3>1 DEF ListenerIInv, ListenerInv, Alone
    <2>3. CASE SpawnPoll(p) \/ RequestPage(p) \/ PageDone(p)
      BY <2>1, <2>3, StepSpawnPoll, StepRequestPage, StepPageDone, Zenon
    <2>4. CASE fetch_next_events_page(p)
      BY <1>4, <2>1, <2>2, <2>4, StepFetchPage DEF HasHandler
    <2>5. CASE SkipRoot(p)
      BY <2>1, <2>2, <2>5, StepSkipRoot, Zenon DEF SkipRoot, Consumed, NextEvent
    <2>6. CASE handle_nullifier_spent(p)
      BY <2>1, <2>2, <2>6, StepNullifierSpent, Zenon DEF handle_nullifier_spent, NextEvent
    <2> QED
      BY <2>3, <2>4, <2>5, <2>6, Zenon DEF PollMoves
  <1> QED
    BY <1>1, <1>2, <1>3, <1>4, RootsFrame

\* Every step keeps the roots' invariant.
LEMMA RootsNext ==
    ASSUME ChainInv, ListenerIInv, RootsInv, [Next]_vars
    PROVE  RootsInv'
  <1>1. CASE Elsewhere
    BY <1>1, ElsewhereAway, ChainNext, AwayRoots DEF ListenerIInv, ListenerType
  <1>2. CASE execute
    BY <1>2, RootsExecute
  <1>3. ASSUME NEW p \in Polls, PollMoves(p) \/ FetchNodes(p) \/ handle_root_changed(p)
        PROVE  RootsInv'
    BY <1>3, PollMovesRoots, RootsFetchNodes, RootsRootChanged
  <1>4. ASSUME NEW p \in Polls, PollFails(p) PROVE RootsInv'
    <2>1. history'.failed
      BY <1>4, StepPollFails
    <2> QED
      BY <1>4 DEF RootsInv, PollFails, chain
  <1> QED
    BY <1>1, <1>2, <1>3, <1>4, NextCases DEF PollMoves

\* The versions of the tree since the relayer was started.
Versions == InitialLeaves..leaves

\* path is that of a version with n leaves at most, and misses no leaf of the
\* blocks up to b.
Of(ev, n, path, b) == \E m \in InitialLeaves..n : path = Path(m) /\ Covers(ev, m, b)

\* The path that the wallet has, or that the startup thread is about to attach.
HasPath == init.pc = "attach" \/ merkle_proof # NoPath
CurrentPath == IF init.pc = "attach" THEN init.path ELSE merkle_proof

\* The path known is that of a version: the one scanned, until the listener has
\* started, and then one that covers the blocks up to the last consistent one.
PathOK ==
    /\ init.pc \in {"scan", "attach"} => merkle_proof = NoPath
    /\ init.pc \in {"attach", "prove"} => init.seen \in Versions /\ init.path = Path(init.seen)
    /\ HasPath /\ start_block = NoBlock => init.seen \in Versions
         /\ CurrentPath = Path(init.seen)
    /\ HasPath /\ start_block # NoBlock =>
         Of(events, leaves, CurrentPath, merkle_last_consistent_block)
    /\ HasPath => \A p \in Polls : polls[p].pc = "apply" =>
         Of(events, leaves, update_wallet_merkle_path(CurrentPath, polls[p].nodes),
         NextEvent(p).block)

PathInv == Undisturbed /\ SiblingsWritten => PathOK

\* A path goes on being that of a version covering a block that has been
\* mined.
LEMMA OfKept ==
    ASSUME ChainInv, Grown, NEW path, NEW b \in Nat, b <= block, Of(events, leaves, path, b)
    PROVE  Of(events', leaves', path, b)
  <1>1. PICK m \in InitialLeaves..leaves : path = Path(m) /\ Covers(events, m, b)
    BY SMTT(30) DEF Of
  <1>2. m \in InitialLeaves..leaves'
    BY ChainFacts DEF Grown
  <1>3. Covers(events', m, b)
    BY <1>1, CoversKept, SMTT(30)
  <1> QED
    BY <1>1, <1>2, <1>3 DEF Of

\* The current path is that of a version covering every block.
LEMMA OfCurrent ==
    ASSUME ChainInv, NEW b
    PROVE  Of(events, leaves, Path(leaves), b) /\ leaves \in Versions
  BY ChainFacts, CoversAll DEF Of, Versions

\* A version stays one, and has the wallet's leaf.
LEMMA VersionsGrow ==
    ASSUME ChainInv, Grown
    PROVE  Versions \subseteq Versions' /\ \A m \in Versions : m \in Nat /\ LeafIndex < m
  BY ChainFacts, ChainParameters DEF Versions, Grown

\* The startup thread and the wallet know the path they knew before.
SamePath ==
    /\ init'.seen = init.seen /\ init'.path = init.path
    /\ init'.pc \in {"scan", "attach"} => init.pc = init'.pc /\ merkle_proof' = merkle_proof
    /\ init'.pc \in {"attach", "prove"} => init.pc \in {"attach", "prove"}
    /\ HasPath' => HasPath /\ CurrentPath' = CurrentPath

\* The quiet steps keep the path that is known.
LEMMA KeptSame ==
    ASSUME PathKept
    PROVE  SamePath
  BY Zenon DEF PathKept, SamePath, HasPath, CurrentPath

\* The path invariant is kept when neither the paths nor the nodes read
\* change.
LEMMA PathFrame ==
    ASSUME ChainInv, Grown, ListenerIInv, RootsInv, PathInv, SameApply, SamePath,
           UNCHANGED <<start_block, merkle_last_consistent_block>>, Undisturbed' => Undisturbed
    PROVE  PathInv'
  <1> SUFFICES ASSUME Undisturbed', SiblingsWritten PROVE PathOK'
    BY DEF PathInv
  <1>1. PathOK
    BY DEF PathInv
  <1>2. Versions \subseteq Versions'
    BY VersionsGrow, Zenon
  <1>3. ASSUME HasPath', start_block # NoBlock
        PROVE  Of(events', leaves', CurrentPath', merkle_last_consistent_block)
    <2>1. PICK b \in Nat : b = merkle_last_consistent_block
      BY DEF ListenerIInv, ListenerType
    <2>2. PICK path : path = CurrentPath
      OBVIOUS
    <2>3. Of(events, leaves, path, b) /\ b <= block
      BY <1>1, <1>3, <2>1, <2>2, Zenon DEF PathOK, SamePath, RootsInv
    <2>4. Of(events', leaves', path, b)
      BY <2>3, OfKept, SMTT(30)
    <2> QED
      BY <1>3, <2>1, <2>2, <2>4 DEF SamePath
  <1>4. ASSUME HasPath', NEW p \in Polls, polls'[p].pc = "apply"
        PROVE  Of(events', leaves', update_wallet_merkle_path(CurrentPath', polls'[p].nodes),
                  NextEvent(p)'.block)
    <2>0. /\ polls[p].pc = "apply" /\ polls[p].page # {} /\ polls'[p].nodes = polls[p].nodes
          /\ NextEvent(p)' = NextEvent(p)
      BY <1>4, ApplyKept
    <2>1. PICK b \in Nat : b = NextEvent(p).block /\ b <= block
      BY <2>0, ApplyIs
    <2>2. PICK path : path = update_wallet_merkle_path(CurrentPath, polls[p].nodes)
      BY Zenon
    <2>3. Of(events, leaves, path, b)
      BY <1>1, <1>4, <2>0, <2>1, <2>2 DEF PathOK, SamePath
    <2>4. Of(events', leaves', path, b)
      BY <2>1, <2>3, OfKept, Zenon
    <2> QED
      BY <1>4, <2>0, <2>1, <2>2, <2>4, SMTT(30) DEF SamePath
  <1>5. init'.pc \in {"scan", "attach"} => merkle_proof' = NoPath
    BY <1>1, SMTT(30) DEF PathOK, SamePath
  <1>6. init'.pc \in {"attach", "prove"} => init'.seen \in Versions'
        /\ init'.path = Path(init'.seen)
    BY <1>1, <1>2, SMTT(30) DEF PathOK, SamePath
  <1>7. HasPath' /\ start_block = NoBlock
          => init'.seen \in Versions' /\ CurrentPath' = Path(init'.seen)
    BY <1>1, <1>2 DEF PathOK, SamePath
  <1>8. Path(init'.seen) = Path(init.seen)'
    BY Zenon
  <1> QED
    BY <1>3, <1>4, <1>5, <1>6, <1>7 DEF PathOK

\* When the listener starts, the path is the current one unless there is a
\* gap.
LEMMA PathExecute ==
    ASSUME ChainInv, ListenerIInv, PathInv, execute
    PROVE  PathInv'
  <1> SUFFICES ASSUME Undisturbed', SiblingsWritten PROVE PathOK'
    BY DEF PathInv
  <1>1. Undisturbed' => Undisturbed /\ (init.pc = "scan" \/ init.seen = leaves)
    BY Zenon DEF execute, Undisturbed, ListenerIInv, ListenerType, HistoryType
  <1>2. PathOK
    BY <1>1 DEF PathInv
  <1>3. start_block = NoBlock /\ start_block' # NoBlock
        /\ UNCHANGED <<init, merkle_proof, events, leaves>>
        /\ \A p \in Polls : polls'[p].pc # "apply"
    BY StepExecute, ChainFacts, ChainParameters, Zenon DEF execute, chain, wallet
  <1>4. HasPath' => HasPath /\ init.seen = leaves /\ CurrentPath' = CurrentPath
                    /\ CurrentPath = Path(init.seen)
    BY <1>1, <1>2, <1>3, Zenon DEF PathOK, HasPath, CurrentPath
  <1>5. HasPath' => Of(events', leaves', CurrentPath', merkle_last_consistent_block')
    <2>1. PICK b : b = merkle_last_consistent_block'
      OBVIOUS
    <2>2. Of(events, leaves, Path(leaves), b)
      BY OfCurrent, Zenon
    <2> QED
      BY <1>3, <1>4, <2>1, <2>2
  <1> QED
    BY <1>2, <1>3, <1>5 DEF PathOK, Versions

\* The nodes read for a root bring the path up to date: the roots of the
\* blocks before it are all done with, so the path lacks no leaf of theirs.
LEMMA PathFetchNodes ==
    ASSUME ChainInv, ListenerIInv, RootsInv, PathInv, NEW p \in Polls, FetchNodes(p)
    PROVE  PathInv'
  <1> SUFFICES ASSUME Undisturbed', SiblingsWritten PROVE PathOK'
    BY DEF PathInv
  <1>1. /\ UNCHANGED <<events, leaves, start_block, merkle_last_consistent_block, init,
             merkle_proof, history>>
        /\ polls[p].page # {} /\ polls[p].pc = "handle"
    BY Zenon DEF FetchNodes, chain, wallet
  <1>2. PathOK /\ ~history.failed /\ ~history.overlapped
    BY <1>1, SMTT(30) DEF PathInv, Undisturbed
  <1>3. /\ polls'[p].nodes = NodeChanges(NextEvent(p).block)
        /\ \A r \in Polls : r # p => polls'[r] = polls[r]
        /\ NextEvent(p)' = NextEvent(p)
    BY StepFetchNodes, RootsFetchNodes
  <1>4. Active \subseteq {p} /\ ~history.raced /\ start_block # NoBlock
    BY <1>1, <1>2, OnlyActive, ActiveStarted, SMTT(30) DEF ListenerIInv
  <1>5. \A r \in Polls : polls'[r].pc = "apply" => r = p
    BY <1>3, <1>4, SMTT(30) DEF Active
  <1>6. PICK k0 \in DOMAIN events : k0 = Min(polls[p].page) /\ NextEvent(p) = events[k0]
             /\ k0 > First
    BY <1>1, ApplyIs, SMTT(30)
  <1>7. PICK b \in Nat : b = NextEvent(p).block
    BY <1>1, ApplyIs
  <1>8. PICK lb \in Nat : lb = merkle_last_consistent_block
    BY DEF ListenerIInv, ListenerType
  <1>9. ASSUME NEW k \in DOMAIN events, events[k].key = "root", events[k].block < b
        PROVE  events[k].block <= lb
    <2>0. /\ start_block \in Nat /\ First \in Nat /\ Len(events) \in Nat
               /\ DOMAIN events = 1..Len(events)
          /\ k <= First <=> events[k].block < start_block
          /\ events[k].block \in Nat /\ events[k0].block \in Nat
          /\ k0 <= k => events[k0].block <= events[k].block
      BY <1>4, FirstIs, ChainFacts DEF ListenerIInv
    <2>1. start_block <= lb
      BY <1>4, <1>8 DEF ListenerIInv, ListenerInv
    <2>2. CASE k <= First
      BY <2>0, <2>1, <2>2, SMTT(30)
    <2>3. CASE ~(k <= First)
      <3>1. k < k0
        BY <1>6, <1>7, <1>9, <2>0
      <3>2. PagesOK /\ pagination_token \in Nat
        BY <1>2, <1>4, SMTT(30) DEF ListenerIInv, PagesInv, ListenerType
      <3>3. k0 \in polls[p].page /\ \A i \in polls[p].page : k0 <= i
        BY <1>1, <1>6, FrontIs, SMTT(30) DEF ListenerIInv
      <3>4. k0 <= First + pagination_token
        BY <3>2, <3>3, Zenon DEF PagesOK
      <3>5. k \in (First + 1)..(First + pagination_token)
        BY <2>0, <2>3, <3>1, <3>2, <3>4
      <3>6. \A r \in Polls : k \notin polls[r].page
        <4>1. k \notin polls[p].page
          BY <2>0, <3>1, <3>3, SMTT(30)
        <4>2. \A r \in Polls : r # p => polls[r].page = {}
          BY <1>4 DEF Active, ListenerIInv, ListenerInv, PollOK
        <4> QED
          BY <4>1, <4>2
      <3>7. k \in Handled
        BY <3>5, <3>6 DEF Handled
      <3> QED
        BY <1>2, <1>4, <1>8, <1>9, <3>7, SMTT(30) DEF RootsInv, RootsOK
    <2> QED
      BY <2>2, <2>3, SMTT(30)
  <1>10. ASSUME HasPath
         PROVE  Of(events, leaves, update_wallet_merkle_path(CurrentPath, NodeChanges(b)), b)
    <2>1. PICK m \in InitialLeaves..leaves : CurrentPath = Path(m) /\ Covers(events, m, lb)
      BY <1>2, <1>4, <1>8, <1>10, Zenon DEF PathOK, Of
    <2>2. m \in Nat /\ m <= leaves
      BY ChainFacts
    <2>3. Covers(events, m, b - 1)
      BY <1>9, <2>1, CoversMore, Zenon
    <2>4. update_wallet_merkle_path(Path(m), NodeChanges(b)) = Path(leaves)
      BY <2>2, <2>3, UpdateIs
    <2> QED
      BY <2>1, <2>4, OfCurrent, Zenon
  <1>11. HasPath' = HasPath /\ CurrentPath' = CurrentPath /\ Versions' = Versions
    BY <1>1, Zenon DEF HasPath, CurrentPath, Versions
  <1>12. ASSUME HasPath', NEW r \in Polls, polls'[r].pc = "apply"
         PROVE  Of(events', leaves', update_wallet_merkle_path(CurrentPath', polls'[r].nodes),
                   NextEvent(r)'.block)
    BY <1>1, <1>3, <1>5, <1>7, <1>10, <1>11, <1>12
  <1> QED
    BY <1>1, <1>2, <1>11, <1>12 DEF PathOK

\* Applying them gives a path that covers the root's block.
LEMMA PathRootChanged ==
    ASSUME ChainInv, ListenerIInv, RootsInv, PathInv, NEW p \in Polls, handle_root_changed(p)
    PROVE  /\ PathInv'
           /\ Undisturbed /\ SiblingsWritten /\ merkle_proof # NoPath =>
                \E m \in Versions : merkle_proof' = Path(m)
  <1>1. /\ UNCHANGED <<events, leaves, start_block, init>> /\ polls[p].pc = "apply"
        /\ merkle_last_consistent_block' = NextEvent(p).block
    BY DEF handle_root_changed, chain
  <1>2. ASSUME Undisturbed, SiblingsWritten, merkle_proof # NoPath
        PROVE  /\ Of(events, leaves, merkle_proof', NextEvent(p).block)
               /\ init.pc \notin {"scan", "attach"} /\ start_block # NoBlock
               /\ init.pc = "prove" => init.seen \in Versions /\ init.path = Path(init.seen)
    <2>1. PathOK
      BY <1>2 DEF PathInv
    <2>2. init.pc \notin {"scan", "attach"} /\ HasPath /\ CurrentPath = merkle_proof
      BY <1>2, <2>1, Zenon DEF PathOK, HasPath, CurrentPath
    <2>3. merkle_proof' = update_wallet_merkle_path(merkle_proof, polls[p].nodes)
      BY <1>2, Zenon DEF handle_root_changed
    <2>4. start_block # NoBlock
      BY <1>1, ActiveStarted DEF ListenerIInv
    <2> QED
      BY <1>1, <2>1, <2>2, <2>3, <2>4, Zenon DEF PathOK
  <1>3. ASSUME Undisturbed', SiblingsWritten PROVE PathOK'
    <2>1. Undisturbed /\ \A r \in Polls : polls'[r].pc # "apply"
      <3>1. Undisturbed
        BY <1>3, SMTT(30) DEF handle_root_changed, Undisturbed, ListenerIInv, ListenerType, HistoryType
      <3> QED
        BY <3>1, RootsRootChanged DEF Undisturbed
    <2>2. CASE merkle_proof = NoPath
      <3>1. init.pc = "scan" /\ merkle_proof' = NoPath
        BY <1>3, <2>2, Zenon DEF handle_root_changed, Undisturbed, wallet, ListenerIInv,
           ListenerType, HistoryType
      <3>2. ~HasPath'
        BY <1>1, <3>1, Zenon DEF HasPath
      <3> QED
        BY <1>1, <3>1, <3>2 DEF PathOK
    <2>3. CASE merkle_proof # NoPath
      <3>1. /\ Of(events, leaves, merkle_proof', NextEvent(p).block)
            /\ init.pc \notin {"scan", "attach"} /\ start_block # NoBlock
            /\ init.pc = "prove" => init.seen \in Versions /\ init.path = Path(init.seen)
        BY <1>2, <1>3, <2>1, <2>3, SMTT(30)
      <3>2. CurrentPath' = merkle_proof'
        BY <1>1, <3>1 DEF CurrentPath
      <3> QED
        BY <1>1, <2>1, <3>1, <3>2, Zenon DEF PathOK, Versions
    <2> QED
      BY <2>2, <2>3
  <1>4. SiblingsWritten' <=> SiblingsWritten
    BY Zenon DEF SiblingsWritten
  <1> QED
    BY <1>2, <1>3 DEF PathInv, Of, Versions

\* The startup thread's scan gives the current path.
LEMMA PathScan ==
    ASSUME ChainInv, ListenerIInv, InitType, PathInv, ScanTree
    PROVE  PathInv'
  <1> SUFFICES ASSUME Undisturbed', SiblingsWritten PROVE PathOK'
    BY DEF PathInv
  <1>1. Undisturbed /\ \A p \in Polls : polls[p].pc # "apply"
    BY Zenon DEF ScanTree, Undisturbed, ListenerIInv, ListenerType, HistoryType
  <1>2. /\ UNCHANGED <<events, leaves, start_block, merkle_last_consistent_block, polls,
             merkle_proof>>
        /\ init.pc = "scan" /\ init'.pc = "attach" /\ init'.seen = leaves
        /\ init'.path = build_merkle_authentication_path
    BY SMTT(30) DEF ScanTree, chain, listener, wallet
  <1>3. merkle_proof = NoPath
    BY <1>1, <1>2 DEF PathInv, PathOK
  <1>4. init'.path = Path(leaves) /\ CurrentPath' = Path(leaves)
    BY <1>2, ScanIs DEF CurrentPath
  <1>5. PICK lb : lb = merkle_last_consistent_block
    OBVIOUS
  <1>6. Of(events, leaves, Path(leaves), lb) /\ leaves \in Versions
    BY OfCurrent
  <1> QED
    BY <1>1, <1>2, <1>3, <1>4, <1>5, <1>6 DEF PathOK, Versions

\* Every step keeps the path invariant.
LEMMA PathNext ==
    ASSUME ChainInv, ListenerIInv, InitType, RootsInv, PathInv, [Next]_vars
    PROVE  PathInv'
  <1>1. Grown /\ Worse /\ (Undisturbed' => Undisturbed)
    BY ChainNext, WorseNext DEF ListenerIInv, ListenerType, Worse, Undisturbed
  <1>2. CASE Quiet
    <2>1. Away /\ PathKept
      BY <1>2, QuietAway, QuietKept DEF ListenerIInv, ListenerType
    <2>2. SameApply
      BY <1>1, <2>1, AwayRoots
    <2> QED
      BY <1>1, <2>1, <2>2, KeptSame, PathFrame DEF Away, listener
  <1>3. CASE add_wallet_merkle_proof
    <2>1. init.pc = "attach" /\ init' = [init EXCEPT !.pc = "prove"]
          /\ merkle_proof' = init.path
          /\ UNCHANGED <<polls, start_block, merkle_last_consistent_block>>
      BY <1>3 DEF add_wallet_merkle_proof, listener
    <2>2. SamePath
      BY <2>1 DEF SamePath, HasPath, CurrentPath
    <2>3. SameApply
      BY <2>1 DEF SameApply
    <2> QED
      BY <1>1, <2>1, <2>2, <2>3, PathFrame
  <1>4. CASE ScanTree
    BY <1>4, PathScan
  <1>5. CASE execute
    BY <1>5, PathExecute
  <1>6. ASSUME NEW p \in Polls, PollMoves(p) PROVE PathInv'
    <2>1. UNCHANGED <<init, merkle_proof, start_block, merkle_last_consistent_block>>
      BY <1>6, Zenon DEF PollMoves, SpawnPoll, RequestPage, fetch_next_events_page, PageDone,
      SkipRoot, handle_nullifier_spent, wallet
    <2>2. SamePath
      BY <2>1 DEF SamePath, HasPath, CurrentPath
    <2>3. SameApply
      BY <1>6, PollMovesRoots
    <2> QED
      BY <1>1, <2>1, <2>2, <2>3, PathFrame
  <1>7. ASSUME NEW p \in Polls, FetchNodes(p) \/ handle_root_changed(p) PROVE PathInv'
    BY <1>7, PathFetchNodes, PathRootChanged
  <1>8. ASSUME NEW p \in Polls, PollFails(p) PROVE PathInv'
    BY <1>8, StepPollFails DEF PathInv, Undisturbed
  <1> QED
    BY <1>2, <1>3, <1>4, <1>5, <1>6, <1>7, <1>8, NextCases DEF Elsewhere, PollMoves

\* A caught-up listener's path is that of the contract's tree.
LEMMA PathTracks ==
    ASSUME ChainInv, ListenerIInv, RootsInv, InitType, PathInv, SiblingsWritten
    PROVE  PathTracksChain
  <1> SUFFICES ASSUME Undisturbed, CaughtUp, merkle_proof # NoPath
               PROVE  compute_root(merkle_proof) = Root(leaves)
    BY DEF PathTracksChain
  <1>1. PathOK /\ RootsOK /\ start_block # NoBlock
    BY Zenon DEF PathInv, RootsInv, Undisturbed, CaughtUp
  <1>2. HasPath /\ CurrentPath = merkle_proof
    BY <1>1 DEF PathOK, HasPath, CurrentPath
  <1>3. PICK lb \in Nat : lb = merkle_last_consistent_block
    BY Zenon DEF ListenerIInv, ListenerType
  <1>4. PICK m \in InitialLeaves..leaves : merkle_proof = Path(m) /\ Covers(events, m, lb)
    BY <1>1, <1>2, <1>3 DEF PathOK, Of
  <1>5. m \in Nat /\ m <= leaves /\ LeafIndex < m
    BY ChainParameters, SMTT(30)
  <1>6. ASSUME NEW k \in DOMAIN events, events[k].key = "root" PROVE events[k].block <= lb
    <2>0. /\ start_block \in Nat /\ First \in Nat /\ DOMAIN events = 1..Len(events)
               /\ Len(events) \in Nat
          /\ k <= First <=> events[k].block < start_block
          /\ events[k].block \in Nat
      BY <1>1, FirstIs, ChainFacts DEF ListenerIInv
    <2>1. start_block <= lb
      BY <1>1, <1>3 DEF ListenerIInv, ListenerInv
    <2>2. CASE k <= First
      BY <2>0, <2>1, <2>2, SMTT(30)
    <2>3. CASE ~(k <= First)
      <3>1. k \in Handled
        BY <2>0, <2>3, AllHandled
      <3> QED
        BY <1>1, <1>3, <1>6, <3>1 DEF RootsOK
    <2> QED
      BY <2>2, <2>3, SMTT(30)
  <1>7. m = leaves
    BY <1>4, <1>5, <1>6, CoversEvery
  <1> QED
    BY <1>4, <1>5, <1>7, PathOpens

-----------------------------------------------------------------------------
(* The proofs                                                               *)

\* s is a sequence, of its own elements.
IsSequence(s) == s \in Seq(Range(s))

\* A task holds a path and the orders it waits for.
TaskTyped(r) ==
    r \in [st : {"spawned", "await", "done"}, path : {r.path}, orders : SUBSET Orders]

ProofType ==
    /\ IsSequence(tasks) /\ IsSequence(job_queue)
    /\ \A k \in DOMAIN tasks : TaskTyped(tasks[k])
    /\ DOMAIN validity_proof = Orders

\* The paths and roots of the versions with at most n leaves.
RealPath(n, path) == \E m \in InitialLeaves..n : path = Path(m)
RealRoot(n, root) == \E m \in InitialLeaves..n : root = Root(m)

\* The tasks, jobs and stored proofs are all for such paths and roots.
TasksOK(n, t) == \A k \in DOMAIN t : t[k].st = "spawned" => RealPath(n, t[k].path)
JobsOK(n, jobs) == \A j \in jobs : RealRoot(n, j.root)
StoredOK(n, v) == \A o \in Orders : v[o] = NoProof \/ RealRoot(n, v[o])

ProofOK ==
    TasksOK(leaves, tasks) /\ JobsOK(leaves, Range(job_queue)) /\ JobsOK(leaves, answers)
    /\ StoredOK(leaves, validity_proof)

ProofInv == Undisturbed /\ SiblingsWritten => ProofOK

proofs == <<tasks, job_queue, answers, validity_proof>>

\* A root or a path of a version stays one.
LEMMA RealKept ==
    ASSUME ChainInv, Grown
    PROVE  /\ \A path : RealPath(leaves, path) => RealPath(leaves', path)
           /\ \A root : RealRoot(leaves, root) => RealRoot(leaves', root)
  BY VersionsGrow DEF Versions, RealPath, RealRoot

\* A job made for the path of a version proves the root of that version.
LEMMA JobIsReal ==
    ASSUME ChainInv, NEW path, RealPath(leaves, path), NEW k, NEW o
    PROVE  RealRoot(leaves, Job(k, o, path).root)
  <1>1. PICK m \in InitialLeaves..leaves : path = Path(m)
    BY DEF RealPath
  <1>2. m \in Nat /\ LeafIndex < m
    BY ChainParameters
  <1> QED
    BY <1>1, <1>2, PathOpens DEF RealRoot, Job

\* A sequence is one over the elements it has.
LEMMA SequenceOf ==
    ASSUME NEW X, NEW s \in Seq(X)
    PROVE  IsSequence(s)
  BY DEF IsSequence, Range

\* What is enqueued after what.
LEMMA Enqueued ==
    ASSUME NEW s, NEW t, IsSequence(s), IsSequence(t)
    PROVE  IsSequence(s \o t) /\ Range(s \o t) \subseteq Range(s) \cup Range(t)
  <1> DEFINE X == Range(s) \cup Range(t)
  <1>1. s \in Seq(X) /\ t \in Seq(X)
    BY DEF IsSequence
  <1> HIDE DEF X
  <1>2. s \o t \in Seq(X)
    BY <1>1
  <1>3. Range(s \o t) \subseteq X
    BY <1>2 DEF Range
  <1> QED
    BY <1>2, <1>3, SequenceOf, Zenon DEF X

\* The proofs' invariant is kept when nothing of theirs changes.
LEMMA ProofFrame ==
    ASSUME ChainInv, Grown, ProofType, ProofInv, UNCHANGED proofs, Undisturbed' => Undisturbed
    PROVE  ProofType' /\ ProofInv'
  <1>1. ProofType'
    BY Zenon DEF ProofType, proofs
  <1>2. ProofOK => ProofOK'
    BY RealKept DEF ProofOK, TasksOK, JobsOK, StoredOK, proofs
  <1>3. SiblingsWritten' <=> SiblingsWritten
    BY DEF SiblingsWritten
  <1> QED
    BY <1>1, <1>2 DEF ProofInv

\* The listener and the contract stay as they are; a proof action that keeps
\* each of the four parts keeps the invariant.
LEMMA ProofParts ==
    ASSUME UNCHANGED <<leaves, history>>, ProofInv,
           Undisturbed /\ SiblingsWritten /\ ProofOK =>
              /\ TasksOK(leaves, tasks') /\ JobsOK(leaves, Range(job_queue'))
                   /\ JobsOK(leaves, answers')
              /\ StoredOK(leaves, validity_proof')
    PROVE  ProofInv'
  <1>1. (Undisturbed' <=> Undisturbed) /\ (SiblingsWritten' <=> SiblingsWritten)
    BY DEF Undisturbed
  <1> QED
    BY <1>1 DEF ProofInv, ProofOK

\* A task that no longer waits to send its jobs.
LEMMA TaskMoves ==
    ASSUME ProofType, NEW k \in DOMAIN tasks, NEW r, tasks' = [tasks EXCEPT ![k] = r],
           r \in [st : {"await", "done"}, path : {r.path}, orders : SUBSET Orders]
    PROVE  /\ IsSequence(tasks')
           /\ \A i \in DOMAIN tasks' : TaskTyped(tasks'[i])
           /\ \A n : TasksOK(n, tasks) => TasksOK(n, tasks')
  <1>1. tasks \in Seq(Range(tasks) \cup {r})
    BY DEF ProofType, IsSequence
  <1>2. tasks' \in Seq(Range(tasks) \cup {r})
    BY <1>1
  <1>3. DOMAIN tasks' = DOMAIN tasks
        /\ \A i \in DOMAIN tasks : tasks'[i] = IF i = k THEN r ELSE tasks[i]
    BY <1>1
  <1>4. r.st # "spawned" /\ TaskTyped(r)
    BY DEF TaskTyped
  <1>5. ASSUME NEW i \in DOMAIN tasks'
        PROVE  TaskTyped(tasks'[i])
    <2>1. CASE i = k
      BY <1>4, <2>1
    <2>2. CASE i # k
      BY <2>2 DEF ProofType
    <2> QED
      BY <2>1, <2>2
  <1>6. \A n : TasksOK(n, tasks) => TasksOK(n, tasks')
    BY DEF TasksOK
  <1>7. IsSequence(tasks')
    BY <1>2, SequenceOf, Zenon
  <1> QED
    BY <1>5, <1>6, <1>7, Zenon

\* A task that has ended, or has sent its jobs, is well formed.
LEMMA DoneTask ==
    /\ Done \in [st : {"await", "done"}, path : {Done.path}, orders : SUBSET Orders]
    /\ \A S \in SUBSET Orders :
         LET r == [Done EXCEPT !.st = "await", !.orders = S]
         IN r \in [st : {"await", "done"}, path : {r.path}, orders : SUBSET Orders]
  BY Zenon DEF Done

\* Jobs for one path join the queue.
LEMMA JobsEnqueued ==
    ASSUME ChainInv, IsSequence(job_queue), NEW n \in Nat, NEW k, NEW os, NEW path,
           DOMAIN os = 1..n,
           job_queue' = job_queue \o [j \in DOMAIN os |-> Job(k, os[j], path)]
    PROVE  /\ IsSequence(job_queue')
           /\ JobsOK(leaves, Range(job_queue)) /\ RealPath(leaves, path)
                => JobsOK(leaves, Range(job_queue'))
  <1> DEFINE t == [j \in DOMAIN os |-> Job(k, os[j], path)]
             X == {Job(k, os[j], path) : j \in DOMAIN os}
  <1>1. t \in [1..n -> X]
    OBVIOUS
  <1>2. t \in Seq(X)
    <2> HIDE DEF t, X
    <2> QED
      BY <1>1
  <1>3. IsSequence(t)
    BY <1>2, SequenceOf, Zenon
  <1>4. \A x \in Range(t) : \E j \in DOMAIN os : x = Job(k, os[j], path)
    BY DEF Range
  <1>5. RealPath(leaves, path) => JobsOK(leaves, Range(t))
    BY <1>4, JobIsReal DEF JobsOK
  <1> HIDE DEF t
  <1>6. IsSequence(job_queue \o t)
        /\ Range(job_queue \o t) \subseteq Range(job_queue) \cup Range(t)
    BY <1>3, Enqueued
  <1>7. job_queue' = job_queue \o t
    BY DEF t
  <1> QED
    BY <1>5, <1>6, <1>7, Zenon DEF JobsOK

\* A task sends its jobs, for the path of its clone of the wallet.
LEMMA StepTaskJobs ==
    ASSUME ChainInv, ProofType, ProofInv, NEW k \in DOMAIN tasks,
           update_wallet_commitment_proofs(k)
    PROVE  ProofType' /\ ProofInv'
  <1>1. /\ UNCHANGED <<leaves, history, answers, validity_proof>> /\ tasks[k].st = "spawned"
        /\ IsSequence(job_queue)
    BY DEF update_wallet_commitment_proofs, chain, book, ProofType
  <1>2. TasksOK(leaves, tasks) => RealPath(leaves, tasks[k].path)
    BY <1>1 DEF TasksOK
  <1>3. /\ IsSequence(tasks')
        /\ \A i \in DOMAIN tasks' : TaskTyped(tasks'[i])
        /\ \A n : TasksOK(n, tasks) => TasksOK(n, tasks')
    <2>1. Orders \in SUBSET Orders
      OBVIOUS
    <2>2. tasks' = [tasks EXCEPT ![k] = Done]
          \/ tasks' = [tasks EXCEPT ![k] = [Done EXCEPT !.st = "await", !.orders = Orders]]
      BY DEF update_wallet_commitment_proofs
    <2>3. CASE tasks' = [tasks EXCEPT ![k] = Done]
      BY <2>3, DoneTask, TaskMoves, Zenon
    <2>4. CASE tasks' = [tasks EXCEPT ![k] = [Done EXCEPT !.st = "await", !.orders = Orders]]
      <3>1. PICK r : r = [Done EXCEPT !.st = "await", !.orders = Orders]
        OBVIOUS
      <3>2. r \in [st : {"await", "done"}, path : {r.path}, orders : SUBSET Orders]
        BY <3>1, DoneTask, Zenon
      <3> QED
        BY <2>4, <3>1, <3>2, TaskMoves, Zenon
    <2> QED
      BY <2>2, <2>3, <2>4
  <1>4. /\ IsSequence(job_queue')
        /\ JobsOK(leaves, Range(job_queue)) /\ RealPath(leaves, tasks[k].path)
             => JobsOK(leaves, Range(job_queue'))
    <2>0. PICK path : path = tasks[k].path
      BY Zenon
    <2>1. CASE UNCHANGED prover
      BY <1>1, <2>1 DEF prover
    <2>2. ASSUME NEW os \in Arrangements(Orders, Cardinality(Orders)),
                 Enqueue([j \in DOMAIN os |-> Job(k, os[j], tasks[k].path)])
          PROVE  /\ IsSequence(job_queue')
                 /\ JobsOK(leaves, Range(job_queue)) /\ RealPath(leaves, tasks[k].path)
                      => JobsOK(leaves, Range(job_queue'))
      <3>1. PICK n \in Nat : n = Cardinality(Orders)
        BY ChainParameters, FS_CardinalityType
      <3>2. DOMAIN os = 1..n
        BY <3>1 DEF Arrangements
      <3>3. job_queue' = job_queue \o [j \in DOMAIN os |-> Job(k, os[j], path)]
        BY <2>0, <2>2 DEF Enqueue
      <3> QED
        BY <1>1, <2>0, <3>2, <3>3, JobsEnqueued, Zenon
    <2>3. ASSUME NEW n \in 0..Cardinality(witness), NEW os \in Arrangements(witness, n),
                 Enqueue([j \in DOMAIN os |-> Job(Nobody, os[j], tasks[k].path)])
          PROVE  /\ IsSequence(job_queue')
                 /\ JobsOK(leaves, Range(job_queue)) /\ RealPath(leaves, tasks[k].path)
                      => JobsOK(leaves, Range(job_queue'))
      <3>1. n \in Nat
        BY <2>3
      <3>2. DOMAIN os = 1..n
        BY DEF Arrangements
      <3>3. PICK who : who = Nobody
        OBVIOUS
      <3>4. job_queue' = job_queue \o [j \in DOMAIN os |-> Job(who, os[j], path)]
        BY <2>0, <2>3, <3>3 DEF Enqueue
      <3> QED
        BY <1>1, <2>0, <3>1, <3>2, <3>4, JobsEnqueued, Zenon
    <2> QED
      BY <2>1, <2>2, <2>3, Zenon DEF update_wallet_commitment_proofs
  <1>5. ProofType'
    BY <1>1, <1>3, <1>4, Zenon DEF ProofType
  <1>6. ProofInv'
    BY <1>1, <1>2, <1>3, <1>4, ProofParts, Zenon DEF ProofOK
  <1> QED
    BY <1>5, <1>6

\* A task gives up.
LEMMA StepTaskFails ==
    ASSUME ProofType, ProofInv, NEW k \in DOMAIN tasks, TaskFails(k)
    PROVE  ProofType' /\ ProofInv'
  <1>1. /\ UNCHANGED <<leaves, history, answers, validity_proof, job_queue>>
        /\ tasks' = [tasks EXCEPT ![k] = Done]
    BY DEF TaskFails, chain, book, prover
  <1>2. /\ IsSequence(tasks')
        /\ \A i \in DOMAIN tasks' : TaskTyped(tasks'[i])
        /\ \A n : TasksOK(n, tasks) => TasksOK(n, tasks')
    BY <1>1, DoneTask, TaskMoves, Zenon
  <1>3. ProofType'
    BY <1>1, <1>2 DEF ProofType
  <1>4. ProofInv'
    BY <1>1, <1>2, ProofParts, Zenon DEF ProofOK
  <1> QED
    BY <1>3, <1>4

\* An answer is stored.
LEMMA StoredIsReal ==
    ASSUME ProofType, NEW o \in Orders, NEW a \in answers, Stored(o, a.root),
           answers' = answers \ {a}
    PROVE  /\ DOMAIN validity_proof' = Orders
           /\ JobsOK(leaves, answers) => JobsOK(leaves, answers')
           /\ JobsOK(leaves, answers) /\ StoredOK(leaves, validity_proof)
                => StoredOK(leaves, validity_proof')
  <1>1. DOMAIN validity_proof' = Orders
        /\ \A i \in Orders : validity_proof'[i] = IF i = o THEN a.root ELSE validity_proof[i]
    BY DEF ProofType, Stored
  <1>2. JobsOK(leaves, answers) => JobsOK(leaves, answers')
    BY DEF JobsOK
  <1>3. JobsOK(leaves, answers) => RealRoot(leaves, a.root)
    BY DEF JobsOK
  <1> QED
    BY <1>1, <1>2, <1>3 DEF StoredOK

\* A task stores a proof.
LEMMA StepOrderProof ==
    ASSUME ProofType, ProofInv, NEW k \in DOMAIN tasks, NEW o \in Orders,
           update_order_proof(k, o)
    PROVE  ProofType' /\ ProofInv'
  <1>1. PICK a \in answers : Stored(o, a.root) /\ answers' = answers \ {a}
    BY Zenon DEF update_order_proof
  <1>2. PICK r : r = [tasks[k] EXCEPT !.orders = @ \ {o},
                                      !.st = IF tasks[k].orders = {o} THEN "done" ELSE "await"]
    BY Zenon
  <1>3. UNCHANGED <<leaves, history, job_queue>> /\ tasks' = [tasks EXCEPT ![k] = r]
    BY <1>2, Zenon DEF update_order_proof, chain, prover
  <1>4. r \in [st : {"await", "done"}, path : {r.path}, orders : SUBSET Orders]
    BY <1>2, Zenon DEF ProofType, TaskTyped
  <1>5. /\ IsSequence(tasks')
        /\ \A i \in DOMAIN tasks' : TaskTyped(tasks'[i])
        /\ \A n : TasksOK(n, tasks) => TasksOK(n, tasks')
    BY <1>3, <1>4, TaskMoves, Zenon
  <1>6. /\ DOMAIN validity_proof' = Orders
        /\ JobsOK(leaves, answers) => JobsOK(leaves, answers')
        /\ JobsOK(leaves, answers) /\ StoredOK(leaves, validity_proof)
             => StoredOK(leaves, validity_proof')
    BY <1>1, StoredIsReal
  <1>7. ProofType'
    BY <1>3, <1>5, <1>6 DEF ProofType
  <1>8. ProofInv'
    BY <1>3, <1>5, <1>6, ProofParts, Zenon DEF ProofOK
  <1> QED
    BY <1>7, <1>8

\* A stale wallet's new path, that of a version, is given to a task.
LEMMA StepRootTasks ==
    ASSUME ChainInv, ListenerIInv, RootsInv, PathInv, ProofType, ProofInv, NEW p \in Polls,
           handle_root_changed(p)
    PROVE  ProofType' /\ ProofInv'
  <1>1. UNCHANGED <<leaves, job_queue, answers, validity_proof>> /\ (Undisturbed'
        => Undisturbed)
    BY DEF handle_root_changed, chain, book, prover, Undisturbed, ListenerIInv,
    ListenerType, HistoryType
  <1>2. CASE tasks' = tasks
    <2>1. ChainInv' /\ Grown
      BY ChainKept DEF handle_root_changed
    <2> QED
      BY <1>1, <1>2, <2>1, ProofFrame DEF proofs
  <1>3. CASE tasks' # tasks
    <2>1. PICK r : r = [Done EXCEPT !.st = "spawned", !.path = merkle_proof']
      OBVIOUS
    <2>2. merkle_proof # NoPath /\ tasks' = Append(tasks, r)
      BY <1>3, <2>1 DEF handle_root_changed
    <2>3. /\ TaskTyped(r)
          /\ r.path = merkle_proof'
      BY <2>1, Zenon DEF Done, TaskTyped
    <2>4. tasks \in Seq(Range(tasks) \cup {r}) /\ Len(tasks) \in Nat
      BY DEF ProofType, IsSequence
    <2>5. /\ tasks' \in Seq(Range(tasks) \cup {r})
          /\ \A i \in DOMAIN tasks' :
               (i \in DOMAIN tasks /\ tasks'[i] = tasks[i]) \/ tasks'[i] = r
      BY <2>2, <2>4
    <2>6. IsSequence(tasks')
      BY <2>5, SequenceOf, SMTT(30)
    <2>7. ASSUME NEW i \in DOMAIN tasks'
          PROVE  TaskTyped(tasks'[i])
      BY <2>3, <2>5 DEF ProofType
    <2>8. ProofType'
      BY <1>1, <2>6, <2>7 DEF ProofType
    <2>9. Undisturbed /\ SiblingsWritten => RealPath(leaves, r.path)
      BY <2>2, <2>3, PathRootChanged DEF RealPath, Versions
    <2>10. TasksOK(leaves, tasks) /\ RealPath(leaves, r.path) => TasksOK(leaves, tasks')
      BY <2>5 DEF TasksOK
    <2>11. SiblingsWritten' <=> SiblingsWritten
      BY DEF SiblingsWritten
    <2>12. ProofInv'
      BY <1>1, <2>9, <2>10 DEF ProofInv, ProofOK
    <2> QED
      BY <2>8, <2>12
  <1> QED
    BY <1>2, <1>3

\* The startup thread sends a job for the path it has scanned.
LEMMA StepSendJob ==
    ASSUME ChainInv, PathInv, ProofType, ProofInv, NEW o \in Orders, SendOrderJob(o)
    PROVE  ProofType' /\ ProofInv'
  <1>1. UNCHANGED <<leaves, history, tasks, answers, validity_proof>> /\ init.pc = "prove"
    BY DEF SendOrderJob, chain, book, waiters
  <1>2. CASE UNCHANGED prover
    <2>1. ProofType'
      BY <1>1, <1>2 DEF ProofType, prover
    <2> QED
      BY <1>1, <1>2, <2>1, ProofParts DEF ProofOK, prover
  <1>3. CASE Enqueue(<<Job(0, o, init.path)>>)
    <2>1. Undisturbed /\ SiblingsWritten => RealPath(leaves, init.path)
      BY <1>1 DEF PathInv, PathOK, RealPath, Versions
    <2>2. PICK path : path = init.path
      OBVIOUS
    <2>3. PICK j : j = Job(0, o, path)
      OBVIOUS
    <2>4. IsSequence(<<j>>) /\ Range(<<j>>) = {j} /\ IsSequence(job_queue)
      BY DEF IsSequence, Range, ProofType
    <2>5. IsSequence(job_queue \o <<j>>)
          /\ Range(job_queue \o <<j>>) \subseteq Range(job_queue) \cup {j}
      BY <2>4, Enqueued
    <2>6. job_queue' = job_queue \o <<j>>
      BY <1>3, <2>2, <2>3 DEF Enqueue
    <2>7. RealPath(leaves, path) => RealRoot(leaves, j.root)
      BY <2>3, JobIsReal
    <2>8. RealPath(leaves, path) /\ JobsOK(leaves, Range(job_queue)) => JobsOK(leaves,
          Range(job_queue'))
      BY <2>5, <2>6, <2>7 DEF JobsOK
    <2>9. ProofType'
      BY <1>1, <2>5, <2>6 DEF ProofType
    <2>10. ProofInv'
      BY <1>1, <2>1, <2>2, <2>8, ProofParts DEF ProofOK
    <2> QED
      BY <2>9, <2>10, Zenon
  <1> QED
    BY <1>2, <1>3 DEF SendOrderJob

\* The startup thread stores a proof.
LEMMA StepAddProof ==
    ASSUME ProofType, ProofInv, NEW o \in Orders, add_order_validity_proof(o)
    PROVE  ProofType' /\ ProofInv'
  <1>1. PICK a \in answers : Stored(o, a.root) /\ answers' = answers \ {a}
    BY DEF add_order_validity_proof
  <1>2. UNCHANGED <<leaves, history, job_queue, tasks>>
    BY DEF add_order_validity_proof, chain, prover
  <1>3. /\ DOMAIN validity_proof' = Orders
        /\ JobsOK(leaves, answers) => JobsOK(leaves, answers')
        /\ JobsOK(leaves, answers) /\ StoredOK(leaves, validity_proof)
             => StoredOK(leaves, validity_proof')
    BY <1>1, StoredIsReal
  <1>4. ProofType'
    BY <1>2, <1>3 DEF ProofType
  <1>5. ProofInv'
    BY <1>2, <1>3, ProofParts DEF ProofOK
  <1> QED
    BY <1>4, <1>5

\* The manager stops, dropping the jobs it has not taken, or goes on.
LEMMA StepManager ==
    ASSUME ProofType, ProofInv, execution_loop
    PROVE  ProofType' /\ ProofInv'
  <1>1. UNCHANGED <<leaves, history, tasks, answers, validity_proof>>
        /\ (job_queue' = <<>> \/ job_queue' = job_queue)
    BY DEF execution_loop, chain, book, waiters
  <1>2. IsSequence(<<>>) /\ Range(<<>>) = {}
    BY DEF IsSequence, Range
  <1>3. ProofType'
    BY <1>1, <1>2 DEF ProofType
  <1>4. JobsOK(leaves, Range(job_queue)) => JobsOK(leaves, Range(job_queue'))
    BY <1>1, <1>2 DEF JobsOK
  <1>5. ProofInv'
    BY <1>1, <1>4, ProofParts DEF ProofOK
  <1> QED
    BY <1>3, <1>5

\* The manager proves the job at the head of the queue.
LEMMA StepProve ==
    ASSUME HistoryType, ProofType, ProofInv, handle_proof_job
    PROVE  ProofType' /\ ProofInv'
  <1>1. /\ UNCHANGED <<leaves, tasks, validity_proof>> /\ job_queue # <<>>
             /\ job_queue' = Tail(job_queue)
        /\ answers' \subseteq answers \cup {Head(job_queue)}
        /\ (Undisturbed' => Undisturbed)
    BY DEF handle_proof_job, chain, book, Undisturbed
  <1>2. job_queue \in Seq(Range(job_queue))
    BY DEF ProofType, IsSequence
  <1>3. Tail(job_queue) \in Seq(Range(job_queue)) /\ Head(job_queue) \in Range(job_queue)
    BY <1>1, <1>2
  <1>4. IsSequence(job_queue') /\ Range(job_queue') \subseteq Range(job_queue)
    <2>1. IsSequence(job_queue')
      BY <1>1, <1>3, SequenceOf, Zenon
    <2>2. \A i \in DOMAIN Tail(job_queue) : Tail(job_queue)[i] \in Range(job_queue)
      BY <1>3
    <2> QED
      BY <1>1, <2>1 DEF Range
  <1>5. ProofType'
    BY <1>1, <1>4, SMTT(30) DEF ProofType
  <1>6. JobsOK(leaves, Range(job_queue)) /\ JobsOK(leaves, answers)
          => JobsOK(leaves, Range(job_queue')) /\ JobsOK(leaves, answers')
    BY <1>1, <1>3, <1>4 DEF JobsOK
  <1>7. SiblingsWritten' <=> SiblingsWritten
    BY DEF SiblingsWritten
  <1>8. ProofInv'
    BY <1>1, <1>6 DEF ProofInv, ProofOK
  <1> QED
    BY <1>5, <1>8

\* Every step keeps the proofs' invariant.
LEMMA ProofNext ==
    ASSUME ChainInv, ListenerIInv, InitType, RootsInv, PathInv, ProofType, ProofInv, [Next]_vars
    PROVE  ProofType' /\ ProofInv'
  <1>1. Grown /\ Worse /\ (Undisturbed' => Undisturbed) /\ HistoryType
    BY ChainNext, WorseNext DEF ListenerIInv, ListenerType, Worse, Undisturbed
  <1>2. CASE UNCHANGED proofs
    BY <1>1, <1>2, ProofFrame
  <1>3. CASE TaskStep
    BY <1>3, StepTaskJobs, StepTaskFails, StepOrderProof DEF TaskStep
  <1>4. CASE \E o \in Orders : SendOrderJob(o) \/ add_order_validity_proof(o)
    BY <1>4, StepSendJob, StepAddProof
  <1>5. CASE execution_loop \/ handle_proof_job
    BY <1>1, <1>5, StepManager, StepProve, SMTT(30)
  <1>6. CASE \E txs \in Blocks : MineBlock(txs)
    BY <1>2, <1>6 DEF MineBlock, proofs, book, prover, waiters
  <1>7. CASE ScanFails \/ attach_validity_proof_witness \/ InitPanics \/ ScanTree
             \/ add_wallet_merkle_proof
    BY <1>2, <1>7 DEF ScanFails, attach_validity_proof_witness, InitPanics, ScanTree,
    add_wallet_merkle_proof, proofs, book, prover, waiters
  <1>8. CASE Cancel \/ UNCHANGED vars \/ execute
    BY <1>2, <1>8 DEF Cancel, execute, vars, proofs, book, prover, waiters
  <1>9. ASSUME NEW p \in Polls, PollMoves(p) \/ FetchNodes(p) \/ PollFails(p)
        PROVE  ProofType' /\ ProofInv'
    BY <1>2, <1>9, Zenon DEF PollMoves, SpawnPoll, RequestPage, fetch_next_events_page,
    PageDone, SkipRoot, handle_nullifier_spent, FetchNodes, PollFails, proofs, book,
    prover, waiters
  <1>10. ASSUME NEW p \in Polls, handle_root_changed(p) PROVE ProofType' /\ ProofInv'
    BY <1>10, StepRootTasks
  <1> QED
    BY <1>3, <1>4, <1>5, <1>6, <1>7, <1>8, <1>9, <1>10, NextCases DEF Elsewhere, Quiet,
    PollMoves

-----------------------------------------------------------------------------
(* The proof manager                                                        *)

\* A cancelled manager has taken no job since, unless it has been back at the
\* head of its loop.
LateInv ==
    /\ cancelled \in BOOLEAN /\ history.late <= 1
    /\ ~cancelled \/ manager = "recv" => history.late = 0

\* Every step keeps it: a manager back at the head of its loop sees the
\* cancellation and stops.
LEMMA LateNext ==
    ASSUME HistoryType, LateInv, [Next]_vars
    PROVE  LateInv'
  <1>1. ASSUME UNCHANGED <<manager, cancelled>>, history'.late = history.late PROVE LateInv'
    BY <1>1 DEF LateInv
  <1>2. CASE TaskStep
    BY <1>1, <1>2, Zenon DEF TaskStep, update_wallet_commitment_proofs, TaskFails,
    update_order_proof, Enqueue, prover
  <1>3. CASE \E o \in Orders : SendOrderJob(o) \/ add_order_validity_proof(o)
    BY <1>1, <1>3, Zenon DEF SendOrderJob, add_order_validity_proof, Enqueue, prover
  <1>4. CASE \E txs \in Blocks : MineBlock(txs)
    BY <1>1, <1>4 DEF MineBlock, prover
  <1>5. CASE ScanFails \/ attach_validity_proof_witness \/ InitPanics \/ ScanTree
             \/ add_wallet_merkle_proof
    BY <1>1, <1>5 DEF ScanFails, attach_validity_proof_witness, InitPanics, ScanTree,
    add_wallet_merkle_proof, prover, HistoryType
  <1>6. CASE UNCHANGED vars \/ execute
    BY <1>1, <1>6 DEF execute, vars, prover, HistoryType
  <1>7. ASSUME NEW p \in Polls, SpawnPoll(p) \/ fetch_next_events_page(p) \/ PollFails(p)
               \/ handle_root_changed(p)
        PROVE  LateInv'
    BY <1>1, <1>7, Zenon DEF SpawnPoll, fetch_next_events_page, PollFails, handle_root_changed,
    prover, HistoryType
  <1>8. ASSUME NEW p \in Polls, \/ RequestPage(p) \/ PageDone(p) \/ SkipRoot(p)
                                \/ handle_nullifier_spent(p) \/ FetchNodes(p)
        PROVE  LateInv'
    BY <1>1, <1>8 DEF RequestPage, PageDone, SkipRoot, handle_nullifier_spent,
    FetchNodes, prover
  <1>9. CASE Cancel
    BY <1>9 DEF Cancel, LateInv
  <1>10. CASE execution_loop
    BY <1>10 DEF execution_loop, LateInv
  <1>11. CASE handle_proof_job
    <2>1. /\ manager = "recv" /\ manager' = "check" /\ cancelled' = cancelled
          /\ history'.late = IF cancelled THEN history.late + 1 ELSE history.late
      BY <1>11 DEF handle_proof_job
    <2> QED
      BY <2>1 DEF LateInv
  <1> QED
    BY <1>2, <1>3, <1>4, <1>5, <1>6, <1>7, <1>8, <1>9, <1>10, <1>11, NextCases
    DEF Elsewhere, Quiet

-----------------------------------------------------------------------------
(* The theorems                                                             *)

\* The inductive invariant: the chain, the listener's pages, the startup
\* thread, the roots done with, the wallet's path, the proofs and the manager.
IInv ==
    /\ ChainInv /\ ListenerIInv /\ InitType /\ RootsInv /\ PathInv
    /\ ProofType /\ ProofInv /\ LateInv

\* The invariant holds at the start.
LEMMA InitIInv ==
    ASSUME Init
    PROVE  IInv
  <1>1. ChainInv /\ ListenerIInv
    BY InitChain, InitListener
  <1>2. InitType
    BY Zenon DEF Init, InitType
  <1>3. \A p \in Polls : polls[p].pc = "idle"
    BY Zenon DEF Init, Idle
  <1>4. RootsInv
    <2>1. merkle_last_consistent_block <= block /\ start_block = NoBlock
      BY SMTT(30) DEF Init
    <2> QED
      BY <1>3, <2>1, SMTT(30) DEF RootsInv, RootsOK
  <1>5. PathInv
    BY DEF Init, PathInv, PathOK, HasPath
  <1>6. ProofType /\ ProofInv
    <2>1. IsSequence(<<>>) /\ Range(<<>>) = {}
      BY SMTT(30) DEF IsSequence, Range
    <2>2. ProofType
      BY <2>1, SMTT(30) DEF Init, ProofType
    <2>3. /\ tasks = <<>> /\ job_queue = <<>> /\ answers = {}
          /\ \A o \in Orders : validity_proof[o] = NoProof
      BY DEF Init
    <2>4. TasksOK(leaves, tasks) /\ StoredOK(leaves, validity_proof)
      BY <2>3 DEF TasksOK, StoredOK
    <2>5. JobsOK(leaves, Range(job_queue)) /\ JobsOK(leaves, answers)
      BY <2>1, <2>3 DEF JobsOK
    <2> QED
      BY <2>2, <2>4, <2>5 DEF ProofInv, ProofOK
  <1>7. LateInv
    <2>1. cancelled = FALSE /\ history.late = 0
      BY DEF Init
    <2>2. cancelled \in BOOLEAN
      BY <2>1, Zenon
    <2> QED
      BY <2>1, <2>2, SMTT(30) DEF LateInv
  <1> QED
    BY <1>1, <1>2, <1>4, <1>5, <1>6, <1>7 DEF IInv

\* Every reachable state satisfies the inductive invariant.
THEOREM Inductive == Spec => []IInv
  <1>1. Init => IInv
    BY InitIInv, SMTT(30)
  <1>2. IInv /\ [Next]_vars => IInv'
    BY ChainNext, ListenerNext, InitTypeNext, RootsNext, PathNext, ProofNext, LateNext
    DEF IInv, ListenerIInv, ListenerType
  <1> QED
    BY <1>1, <1>2, PTL DEF Spec

\* SpentHandledOnce holds for every page size, sequence of blocks and number
\* of polls: unless a query failed or polls raced for the token,
\* handle_nullifier_spent shoots down each nullifier spent since the start
\* block at most once, and none is missing once the listener has caught up.
THEOREM SpentNullifiersShotDownOnce == Spec => []SpentHandledOnce
  <1>1. IInv => SpentHandledOnce
    BY SpentHandled DEF IInv
  <1> QED
    BY <1>1, Inductive, PTL

\* OneJobAfterCancel: once cancelled, the proof manager takes at most the one
\* job its execution loop was blocked on.
THEOREM OneLateJob == Spec => []OneJobAfterCancel
  <1>1. IInv => OneJobAfterCancel
    BY DEF IInv, LateInv, OneJobAfterCancel
  <1> QED
    BY <1>1, Inductive, PTL

\* PathTracksChain, for a tree of any depth and any blocks: where every
\* sibling of the wallet's leaf had been written when the relayer started, and
\* nothing disturbed the listener, the path that handle_root_changed maintains
\* opens the contract's current root whenever the listener has caught up.
THEOREM PathFollowsChain ==
    ASSUME SiblingsWritten
    PROVE  Spec => []PathTracksChain
  <1>1. IInv => PathTracksChain
    BY PathTracks DEF IInv
  <1> QED
    BY <1>1, Inductive, PTL

\* ProofsOfRealRoots under the same hypothesis: every proof stored, answered
\* or queued, of the startup thread and of update_wallet_commitment_proofs, is
\* for a root the contract has had.
THEOREM OnlyRealRootsProved ==
    ASSUME SiblingsWritten
    PROVE  Spec => []ProofsOfRealRoots
  <1>1. IInv => ProofsOfRealRoots
    <2> SUFFICES ASSUME IInv, Undisturbed,
                        NEW root \in ({validity_proof[o] : o \in Orders} \ {NoProof})
                                     \cup {j.root : j \in Range(job_queue) \cup answers}
                 PROVE  \E n \in InitialLeaves..leaves : root = Root(n)
      BY DEF ProofsOfRealRoots
    <2>1. ProofOK
      BY Zenon DEF IInv, ProofInv
    <2>2. RealRoot(leaves, root)
      BY <2>1 DEF ProofOK, JobsOK, StoredOK
    <2> QED
      BY <2>2, Zenon DEF RealRoot
  <1> QED
    BY <1>1, Inductive, PTL
=============================================================================
