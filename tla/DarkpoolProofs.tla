--------------------------- MODULE DarkpoolProofs --------------------------
(***************************************************************************)
(* The darkpool implements the ledger, and so stays solvent.               *)
(***************************************************************************)
EXTENDS CircuitProofs

-----------------------------------------------------------------------------
(* The inductive invariant *)

\* Gas is not paid in a mint the order trades; an empty order trades none
GasFree(o, order) ==
    \/ order.quote_mint = 0 /\ order.base_mint = 0
    \/ Fees[o][1].gas_addr \notin {order.quote_mint, order.base_mint}

WalletType(o) ==
    [balances : [1..MAX_BALANCES -> [mint : Scalar, amount : Scalar]],
     orders : [1..MAX_ORDERS -> OrderType],
     fees : {Fees[o]}, keys : {KeysOf(o)}, randomness : Scalar]
WalletOK(o, w) ==
    /\ w \in WalletType(o) /\ MintsUnique(w.balances)
    /\ \A i \in 1..MAX_ORDERS : GasFree(o, w.orders[i])

\* A wallet a proof was made of is the owner's current one, or is spent or
\* encumbered
Current(o, w, ws, spent) == w = ws[o] \/ MatchNullifier(w) \in spent

\* What the relayer keeps of a VALID COMMITMENTS proof
WitnessOK(o, a) ==
    /\ WalletOK(o, a.wallet) /\ a.order \in OrderType /\ a.fee = Fees[o][1]
    /\ \E i \in 1..MAX_BALANCES : a.balance = a.wallet.balances[i]
    /\ \E i \in 1..MAX_BALANCES : /\ a.wallet.balances[i].mint = a.fee.gas_addr
                                  /\ a.wallet.balances[i].amount >= a.fee.gas_token_amount
    /\ a.fee.gas_addr # a.balance.mint

\* One side of a match: the contract will refuse the bundle, or the party's
\* current wallet is the one encumbered and covers what the match takes
PartyOK(o, key, fee, s, used, ws, spent) ==
    /\ o \in DOMAIN ws /\ key = KeysOf(o).pk_settle /\ fee = Fees[o][1]
    /\ \/ used \cap spent # {}
       \/ MatchNullifier(ws[o]) \in used /\ Covers(ws[o], fee, s)

ResultFields == {"party0", "party1", "match_", "submitted", "party0_fee", "party1_fee",
                 "party0_randomness_hash", "party1_randomness_hash", "pk_settle0", "pk_settle1",
                 "nullifiers"}
ResultOK(res, ws, spent) ==
    /\ DOMAIN res = ResultFields /\ res.party0 # res.party1 /\ MatchOK(res.match_)
    /\ PartyOK(res.party0, res.pk_settle0, res.party0_fee,
               Sold(res.match_, res.match_.direction), res.nullifiers, ws, spent)
    /\ PartyOK(res.party1, res.pk_settle1, res.party1_fee,
               Sold(res.match_, opposite(res.match_.direction)), res.nullifiers, ws, spent)

\* The wallet a match note is for is encumbered, and what the note takes is in it
BackedBy(o, n, ws, spent) ==
    /\ n.key = KeysOf(o).pk_settle
    /\ MatchNullifier(ws[o]) \in spent
    /\ \A m \in Mints : Holding(ws[o], m) + NoteValue(n.note, m) >= 0

WalletsOK(ws) == /\ DOMAIN ws \subseteq Owners
                 /\ \A o \in DOMAIN ws : WalletOK(o, ws[o])
NotesOK(ns, ws, spent) ==
    /\ IsFiniteSet(ns)
    /\ \A n \in ns : /\ NoteOK(n.note)
                     /\ n.note.type_ = Match => \E o \in DOMAIN ws : BackedBy(o, n, ws, spent)
    /\ \A n1, n2 \in ns :
          n1.note.type_ = Match /\ n2.note.type_ = Match /\ n1.key = n2.key => n1 = n2
ProofsOK(ps, ws, spent) ==
    /\ DOMAIN ps \subseteq DOMAIN ws
    /\ \A o \in DOMAIN ps : WitnessOK(o, ps[o]) /\ Current(o, ps[o].wallet, ws, spent)
ResultsOK(rs, ws, spent) == \A res \in rs : ResultOK(res, ws, spent)

Inv == /\ updates \in [Owners -> Nat] /\ vault \in [Mints -> Int]
       /\ WalletsOK(wallets)
       /\ NotesOK(notes, wallets, nullifiers)
       /\ ProofsOK(proofs, wallets, nullifiers)
       /\ ResultsOK(result, wallets, nullifiers)

-----------------------------------------------------------------------------
(* Claims *)

\* One more element adds at most its value, if it is new or not negative.
LEMMA SumInsert ==
    ASSUME NEW S, IsFiniteSet(S), NEW x, NEW f, \A y \in S \cup {x} : f[y] \in Int,
           x \notin S \/ f[x] >= 0
    PROVE  /\ SumFunctionOnSet(f, S \cup {x}) <= SumFunctionOnSet(f, S) + f[x]
           /\ SumFunctionOnSet(f, S) \in Int /\ SumFunctionOnSet(f, S \cup {x}) \in Int
           /\ IsFiniteSet(S \cup {x})
  <1>1. IsFiniteSet(S \cup {x})
    BY FS_AddElement, Zenon
  <1>2. f[x] \in Int
    OBVIOUS
  <1>3. CASE x \notin S
    <2>1. SumFunctionOnSet(f, S \cup {x}) = f[x] + SumFunctionOnSet(f, S)
          /\ SumFunctionOnSet(f, S) \in Int
      BY <1>3, SumAdd, Zenon
    <2> QED
      BY <1>1, <1>2, <2>1
  <1>4. CASE x \in S
    <2>1. S \cup {x} = S
      BY <1>4
    <2>2. \A y \in S : f[y] = f[y] /\ f[y] \in Int
      OBVIOUS
    <2>3. SumFunctionOnSet(f, S) \in Int
      BY <2>2, SumSame, Zenon
    <2> QED
      BY <1>1, <1>2, <1>4, <2>1, <2>3
  <1> QED
    BY <1>3, <1>4

\* Values g that may be negative only in M, each matched there with its own
\* nonnegative value of f that makes up for it.
Offset(f, g, M, own, D, N) ==
    /\ \A d \in D : f[d] \in Nat
    /\ \A n \in N : g[n] \in Int /\ (n \notin M => g[n] >= 0)
    /\ \A n \in N : n \in M => own[n] \in D /\ f[own[n]] + g[n] >= 0
    /\ \A n1, n2 \in N : n1 \in M /\ n2 \in M /\ own[n1] = own[n2] => n1 = n2

\* When each term below zero is offset by its owner's, the sum is not negative.
LEMMA Offsets ==
    ASSUME NEW D, NEW N, IsFiniteSet(D), IsFiniteSet(N), NEW f, NEW g, NEW M, NEW own,
           Offset(f, g, M, own, D, N), NEW R \in SUBSET D, \A n \in N : n \in M => own[n] \in R
    PROVE  SumFunctionOnSet(f, R) + SumFunctionOnSet(g, N) >= 0
  <1> DEFINE F(r) == SumFunctionOnSet(f, r)
             G(t) == SumFunctionOnSet(g, t)
             Owned(t, r) == \A n \in t : n \in M => own[n] \in r
             Good == {t \in SUBSET N : \A r \in SUBSET D : Owned(t, r) => F(r) + G(t) >= 0}
  <1>1. ASSUME NEW r \in SUBSET D PROVE F(r) \in Nat /\ IsFiniteSet(r)
    <2>1. IsFiniteSet(r) /\ \A d \in r : f[d] \in Nat
      BY FS_Subset, Zenon DEF Offset
    <2> QED
      BY <2>1, SumNat, Zenon
  <1>2. {} \in Good
    <2>1. G({}) = 0
      BY SumEmpty
    <2> HIDE DEF F, G
    <2> QED
      BY <1>1, <2>1
  <1>3. ASSUME NEW t \in SUBSET N, NEW x \in t, t \ {x} \in Good PROVE t \in Good
    <2> SUFFICES ASSUME NEW r \in SUBSET D, Owned(t, r) PROVE F(r) + G(t) >= 0
      BY Zenon
    <2>1. IsFiniteSet(t) /\ \A n \in t : g[n] \in Int
      BY FS_Subset, Zenon DEF Offset
    <2>2. G(t) = g[x] + G(t \ {x}) /\ G(t \ {x}) \in Int
      BY <2>1, SumRemove, Zenon
    <2>3. g[x] \in Int /\ F(r) \in Nat
      BY <1>1, <2>1, Zenon
    <2>4. CASE x \notin M
      <3>1. Owned(t \ {x}, r)
        BY Zenon
      <3>2. F(r) + G(t \ {x}) >= 0
        BY <1>3, <3>1, Zenon
      <3>3. g[x] >= 0
        BY <2>4, Zenon DEF Offset
      <3> HIDE DEF F, G
      <3> QED
        BY <2>2, <2>3, <3>2, <3>3
    <2>5. CASE x \in M
      <3> DEFINE d == own[x]
      <3>1. d \in r /\ f[d] + g[x] >= 0
        BY <2>5, Zenon DEF Offset
      <3>2. \A n \in r : f[n] \in Int
        BY DEF Offset
      <3>3. F(r) = f[d] + F(r \ {d}) /\ f[d] \in Int
        BY <1>1, <3>1, <3>2, SumRemove, Zenon
      <3>4. r \ {d} \in SUBSET D
        OBVIOUS
      <3>5. Owned(t \ {x}, r \ {d})
        BY <2>5, Zenon DEF Offset
      <3>6. F(r \ {d}) + G(t \ {x}) >= 0 /\ F(r \ {d}) \in Nat
        BY <1>1, <1>3, <3>4, <3>5, Zenon
      <3> HIDE DEF F, G, d
      <3> QED
        BY <2>2, <2>3, <3>1, <3>3, <3>6
    <2> QED
      BY <2>4, <2>5
  <1>4. N \in Good
    <2> HIDE DEF Good
    <2>1. \A t \in SUBSET N : t \in Good
      BY <1>2, <1>3, SubsetInduction, Zenon
    <2> QED
      BY <2>1, Zenon
  <1> QED
    BY <1>4, Zenon

\* What the wallets hold and the notes are worth.
Holdings(ws, m) == SumFunctionOnSet([o \in DOMAIN ws |-> Holding(ws[o], m)], DOMAIN ws)
Worth(ns, m) == SumFunctionOnSet([n \in ns |-> NoteValue(n.note, m)], ns)
Total(ws, ns, m) == Holdings(ws, m) + Worth(ns, m)

\* ClaimsOn is the total of the wallets and notes, in the state and in the next
\* one.
LEMMA ClaimsAre ==
    ASSUME NEW CONSTANT m
    PROVE  ClaimsOn(m) = Total(wallets, notes, m) /\ ClaimsOn(m)' = Total(wallets', notes', m)
  <1>1. /\ DOMAIN [o \in DOMAIN wallets |-> Holding(wallets[o], m)] = DOMAIN wallets
        /\ DOMAIN [n \in notes |-> NoteValue(n.note, m)] = notes
        /\ DOMAIN [o \in DOMAIN wallets' |-> Holding(wallets'[o], m)] = DOMAIN wallets'
        /\ DOMAIN [n \in notes' |-> NoteValue(n.note, m)] = notes'
    BY Zenon
  <1>2. ClaimsOn(m) = Total(wallets, notes, m)
    BY <1>1, Zenon DEF ClaimsOn, Total, Holdings, Worth, SumFunction
  <1>3. ClaimsOn(m)' = Total(wallets', notes', m)
    BY <1>1, Zenon DEF ClaimsOn, Total, Holdings, Worth, SumFunction
  <1> QED
    BY <1>2, <1>3

\* The parts of a wallet that is in order.
LEMMA WalletParts ==
    ASSUME NEW o, NEW w, w \in WalletType(o)
    PROVE  /\ BalancesOK(w.balances) /\ w.orders \in [1..MAX_ORDERS -> OrderType]
           /\ w.fees = Fees[o] /\ w.keys = KeysOf(o) /\ w.randomness \in Scalar
           /\ w.keys.pk_settle = KeysOf(o).pk_settle
  BY DEF WalletType, BalancesOK

\* A settle key has one owner.
LEMMA KeyOwner ==
    ASSUME NEW o1 \in Owners, NEW o2 \in Owners, KeysOf(o1).pk_settle = KeysOf(o2).pk_settle
    PROVE  o1 = o2
  <1>1. /\ KeysOf(o1).pk_settle = compute_poseidon_hash(Secrets[o1].settle)
        /\ KeysOf(o2).pk_settle = compute_poseidon_hash(Secrets[o2].settle)
    BY DEF KeysOf
  <1> QED
    BY <1>1, KeysDistinct, Zenon

MatchFor(o, ns) == \E n \in ns : n.note.type_ = Match /\ n.key = KeysOf(o).pk_settle

\* What the match notes take is in the wallets they are for: claims are natural
\* numbers, and without a match note for an owner they are at least what the
\* owner's wallet holds.
LEMMA TotalNat ==
    ASSUME NEW ws, NEW ns, NEW spent, WalletsOK(ws), NotesOK(ns, ws, spent), NEW m \in Mints
    PROVE  /\ Total(ws, ns, m) \in Nat
           /\ \A o \in DOMAIN ws : ~MatchFor(o, ns) => Holding(ws[o], m) <= Total(ws, ns, m)
  <1> DEFINE D == DOMAIN ws
             f == [o \in D |-> Holding(ws[o], m)]
             g == [n \in ns |-> NoteValue(n.note, m)]
             M == {n \in ns : n.note.type_ = Match}
             own == [n \in ns |-> CHOOSE o \in D : BackedBy(o, n, ws, spent)]
  <1>1. IsFiniteSet(D) /\ IsFiniteSet(ns) /\ D \subseteq Owners
    BY OwnersFinite, FS_Subset, Zenon DEF WalletsOK, NotesOK
  <1>2. \A o \in D : f[o] = Holding(ws[o], m) /\ f[o] \in Nat
    <2> TAKE o \in D
    <2>1. BalancesOK(ws[o].balances)
      BY WalletParts, Zenon DEF WalletsOK, WalletOK
    <2>2. Holding(ws[o], m) \in Nat
      BY <2>1, HoldingIs, Zenon
    <2> QED
      BY <2>2, Zenon
  <1>3. \A n \in ns : g[n] \in Int /\ (n \notin M => g[n] >= 0)
    BY NoteValueInt, Zenon DEF NotesOK
  <1>4. \A n \in M : own[n] \in D /\ BackedBy(own[n], n, ws, spent)
    BY Zenon DEF NotesOK
  <1>5. \A n \in M : f[own[n]] + g[n] >= 0
    BY <1>4, Zenon DEF BackedBy
  <1>6. ASSUME NEW n1 \in M, NEW n2 \in M, own[n1] = own[n2] PROVE n1 = n2
    <2>1. n1.key = KeysOf(own[n1]).pk_settle /\ n2.key = KeysOf(own[n2]).pk_settle
      BY <1>4, Zenon DEF BackedBy
    <2>2. n1.key = n2.key
      BY <1>6, <2>1, Zenon
    <2> QED
      BY <2>2, Zenon DEF NotesOK
  <1> HIDE DEF own, f, g
  <1>7. Offset(f, g, M, own, D, ns)
    BY <1>2, <1>3, <1>4, <1>5, <1>6, Zenon DEF Offset
  <1>8. SumFunctionOnSet(f, D) \in Nat /\ SumFunctionOnSet(g, ns) \in Int
    <2>1. SumFunctionOnSet(f, D) \in Nat
      BY <1>1, <1>2, SumNat, Zenon
    <2>2. \A n \in ns : g[n] = g[n] /\ g[n] \in Int
      BY <1>3, Zenon
    <2>3. SumFunctionOnSet(g, ns) \in Int
      BY <1>1, <2>2, SumSame, Zenon
    <2> QED
      BY <2>1, <2>3
  <1>9. Total(ws, ns, m) = SumFunctionOnSet(f, D) + SumFunctionOnSet(g, ns)
    BY Zenon DEF Total, Holdings, Worth, f, g
  <1>10. Total(ws, ns, m) \in Nat
    <2>1. D \in SUBSET D /\ \A n \in ns : n \in M => own[n] \in D
      BY <1>4, Zenon
    <2>2. SumFunctionOnSet(f, D) + SumFunctionOnSet(g, ns) >= 0
      BY <1>1, <1>7, <2>1, Offsets, Zenon
    <2> QED
      BY <1>8, <1>9, <2>2
  <1>11. ASSUME NEW o \in D, ~MatchFor(o, ns) PROVE Holding(ws[o], m) <= Total(ws, ns, m)
    <2> DEFINE R == D \ {o}
    <2>1. R \in SUBSET D
      OBVIOUS
    <2>2. \A n \in ns : n \in M => own[n] \in R
      BY <1>4, <1>11, Zenon DEF BackedBy, MatchFor
    <2>3. SumFunctionOnSet(f, R) + SumFunctionOnSet(g, ns) >= 0
      <3> HIDE DEF R
      <3> QED
        BY <1>1, <1>7, <2>1, <2>2, Offsets, Zenon
    <2>4. \A d \in D : f[d] \in Int
      BY <1>2
    <2>5. SumFunctionOnSet(f, D) = f[o] + SumFunctionOnSet(f, R) /\ SumFunctionOnSet(f, R) \in Int
      BY <1>1, <2>4, SumRemove, Zenon
    <2>6. f[o] = Holding(ws[o], m) /\ f[o] \in Nat
      BY <1>2, Zenon
    <2> HIDE DEF R, M, D
    <2> QED
      BY <1>8, <1>9, <2>3, <2>5, <2>6
  <1> QED
    BY <1>10, <1>11, Zenon

Adds(after, before, gain) == before \in Int /\ gain \in Int /\ after = before + gain

\* What the wallets hold is a sum of integers.
LEMMA HoldingsInt ==
    ASSUME NEW ws, WalletsOK(ws), NEW m
    PROVE  /\ IsFiniteSet(DOMAIN ws) /\ Holdings(ws, m) \in Int
           /\ \A x \in DOMAIN ws : Holding(ws[x], m) \in Int
  <1> DEFINE D == DOMAIN ws
             f == [x \in D |-> Holding(ws[x], m)]
  <1>1. IsFiniteSet(D)
    BY OwnersFinite, FS_Subset, Zenon DEF WalletsOK
  <1>2. ASSUME NEW x \in D PROVE f[x] = Holding(ws[x], m) /\ f[x] \in Int
    <2>1. BalancesOK(ws[x].balances)
      BY WalletParts, Zenon DEF WalletsOK, WalletOK
    <2>2. Holding(ws[x], m) \in Nat
      BY <2>1, HoldingIs, Zenon
    <2> QED
      BY <2>2
  <1>4. Holdings(ws, m) = SumFunctionOnSet(f, D)
    BY Zenon DEF Holdings
  <1>5. Holdings(ws, m) \in Int
    <2>1. \A x \in D : f[x] = f[x] /\ f[x] \in Int
      BY <1>2, Zenon
    <2> HIDE DEF f, D
    <2> QED
      BY <1>1, <1>4, <2>1, SumSame, Zenon
  <1> QED
    BY <1>1, <1>2, <1>5, Zenon

\* How that changes when a wallet is replaced or created.
LEMMA HoldingsReplaced ==
    ASSUME NEW ws, WalletsOK(ws), NEW o \in DOMAIN ws, NEW w, BalancesOK(w.balances), NEW m
    PROVE  Adds(Holdings([ws EXCEPT ![o] = w], m), Holdings(ws, m),
                Holding(w, m) - Holding(ws[o], m))
  <1> DEFINE D == DOMAIN ws
             f == [x \in D |-> Holding(ws[x], m)]
             vs == [ws EXCEPT ![o] = w]
             g == [x \in D |-> Holding(vs[x], m)]
  <1>0. /\ IsFiniteSet(D) /\ Holdings(ws, m) = SumFunctionOnSet(f, D)
        /\ \A x \in D : f[x] = Holding(ws[x], m) /\ f[x] \in Int
    BY HoldingsInt, Zenon DEF Holdings
  <1>a. Holding(w, m) \in Int
    BY HoldingIs
  <1>1. DOMAIN vs = D /\ vs[o] = w /\ \A x \in D : x # o => vs[x] = ws[x]
    BY Zenon
  <1>2. \A x \in D : f[x] \in Int /\ g[x] \in Int /\ (x # o => f[x] = g[x])
    <2> TAKE x \in D
    <2>1. CASE x = o
      <3>1. g[x] = Holding(w, m)
        BY <1>1, <2>1, Zenon
      <3> QED
        BY <1>0, <1>a, <2>1, <3>1, Zenon
    <2>2. CASE x # o
      <3>1. g[x] = f[x]
        BY <1>1, <2>2, Zenon
      <3> QED
        BY <1>0, <3>1, Zenon
    <2> QED
      BY <2>1, <2>2
  <1>3. Holdings(vs, m) = SumFunctionOnSet(g, D)
    BY <1>1, Zenon DEF Holdings
  <1>4. g[o] = Holding(w, m) /\ f[o] = Holding(ws[o], m)
    BY <1>1, Zenon
  <1> HIDE DEF f, g, D, vs
  <1>5. /\ SumFunctionOnSet(g, D) - SumFunctionOnSet(f, D) = g[o] - f[o]
        /\ SumFunctionOnSet(f, D) \in Int /\ SumFunctionOnSet(g, D) \in Int
    BY <1>0, <1>2, SumChange, Zenon DEF D
  <1>6. g[o] \in Int /\ f[o] \in Int
    BY <1>2, Zenon DEF D
  <1>7. Adds(Holdings(vs, m), Holdings(ws, m), Holding(w, m) - Holding(ws[o], m))
    BY <1>0, <1>3, <1>4, <1>5, <1>6 DEF Adds
  <1> QED
    BY <1>7, Zenon DEF vs

\* A new wallet adds what it holds.
LEMMA HoldingsCreated ==
    ASSUME NEW ws, WalletsOK(ws), NEW o, o \notin DOMAIN ws, NEW w, BalancesOK(w.balances), NEW m
    PROVE  Adds(Holdings(Put(ws, o, w), m), Holdings(ws, m), Holding(w, m))
  <1> DEFINE D == DOMAIN ws
             f == [x \in D |-> Holding(ws[x], m)]
             vs == Put(ws, o, w)
             E == D \cup {o}
             g == [x \in E |-> Holding(vs[x], m)]
  <1>0. /\ IsFiniteSet(D) /\ Holdings(ws, m) = SumFunctionOnSet(f, D)
        /\ \A x \in D : f[x] = Holding(ws[x], m) /\ f[x] \in Int
    BY HoldingsInt, Zenon DEF Holdings
  <1>a. Holding(w, m) \in Int
    BY HoldingIs
  <1>1. DOMAIN vs = E /\ vs[o] = w /\ \A x \in D : vs[x] = ws[x]
    BY Zenon DEF Put
  <1>2. \A x \in D : f[x] = g[x] /\ f[x] \in Int
    BY <1>0, <1>1, Zenon
  <1>3. g[o] = Holding(w, m)
    BY <1>1, Zenon
  <1>4. \A x \in E : g[x] \in Int
    <2> HIDE DEF f, g
    <2> QED
      BY <1>2, <1>3, <1>a
  <1>5. Holdings(vs, m) = SumFunctionOnSet(g, E)
    BY <1>1, Zenon DEF Holdings
  <1> HIDE DEF f, g, D, vs
  <1>6. SumFunctionOnSet(g, E) = g[o] + SumFunctionOnSet(g, D)
    BY <1>0, <1>4, SumAdd, Zenon DEF D
  <1>7. SumFunctionOnSet(f, D) = SumFunctionOnSet(g, D) /\ SumFunctionOnSet(f, D) \in Int
    BY <1>0, <1>2, SumSame, Zenon
  <1>8. Adds(Holdings(vs, m), Holdings(ws, m), Holding(w, m))
    BY <1>0, <1>3, <1>5, <1>6, <1>7, <1>a DEF Adds
  <1> QED
    BY <1>8, Zenon DEF vs

\* How the notes' worth changes when a note is added or redeemed.
LEMMA WorthInsert ==
    ASSUME NEW ns, IsFiniteSet(ns), NEW x, NEW m,
           \A n \in ns \cup {x} : NoteValue(n.note, m) \in Int,
           x \notin ns \/ NoteValue(x.note, m) >= 0
    PROVE  /\ Worth(ns \cup {x}, m) <= Worth(ns, m) + NoteValue(x.note, m)
           /\ Worth(ns, m) \in Int /\ Worth(ns \cup {x}, m) \in Int /\ IsFiniteSet(ns \cup {x})
  <1> DEFINE N == ns \cup {x}
             f == [n \in ns |-> NoteValue(n.note, m)]
             g == [n \in N |-> NoteValue(n.note, m)]
  <1>1. (\A n \in N : g[n] \in Int) /\ g[x] = NoteValue(x.note, m)
    BY Zenon
  <1>2. \A n \in ns : g[n] = f[n] /\ g[n] \in Int
    BY Zenon
  <1>3. Worth(ns, m) = SumFunctionOnSet(f, ns) /\ Worth(N, m) = SumFunctionOnSet(g, N)
    BY Zenon DEF Worth
  <1>4. x \notin ns \/ g[x] >= 0
    BY <1>1, Zenon
  <1> HIDE DEF f, g
  <1>5. /\ SumFunctionOnSet(g, ns \cup {x}) <= SumFunctionOnSet(g, ns) + g[x]
        /\ SumFunctionOnSet(g, ns) \in Int /\ SumFunctionOnSet(g, ns \cup {x}) \in Int
        /\ IsFiniteSet(ns \cup {x})
    BY <1>1, <1>4, SumInsert, Zenon
  <1>6. SumFunctionOnSet(g, ns) = SumFunctionOnSet(f, ns)
    BY <1>2, SumSame, Zenon
  <1> QED
    BY <1>1, <1>3, <1>5, <1>6, Zenon

\* Taking a note away takes its value away.
LEMMA WorthRemove ==
    ASSUME NEW ns, IsFiniteSet(ns), NEW x \in ns, NEW m, \A n \in ns : NoteValue(n.note, m) \in Int
    PROVE  Worth(ns, m) = NoteValue(x.note, m) + Worth(ns \ {x}, m) /\ Worth(ns \ {x}, m) \in Int
  <1> DEFINE N == ns \ {x}
             f == [n \in N |-> NoteValue(n.note, m)]
             g == [n \in ns |-> NoteValue(n.note, m)]
  <1>1. (\A n \in ns : g[n] \in Int) /\ g[x] = NoteValue(x.note, m)
    BY Zenon
  <1>2. \A n \in N : f[n] = g[n] /\ f[n] \in Int
    BY Zenon
  <1>3. Worth(N, m) = SumFunctionOnSet(f, N) /\ Worth(ns, m) = SumFunctionOnSet(g, ns)
    BY Zenon DEF Worth
  <1>4. IsFiniteSet(N)
    BY FS_RemoveElement, Zenon
  <1> HIDE DEF f, g
  <1>5. SumFunctionOnSet(g, ns) = g[x] + SumFunctionOnSet(g, ns \ {x})
        /\ SumFunctionOnSet(g, ns \ {x}) \in Int
    BY <1>1, SumRemove, Zenon
  <1>6. SumFunctionOnSet(f, N) = SumFunctionOnSet(g, N)
    BY <1>2, <1>4, SumSame, Zenon
  <1> QED
    BY <1>1, <1>3, <1>5, <1>6, Zenon

\* The notes have an integer worth in every mint.
LEMMA WorthInt ==
    ASSUME NEW ns, NEW ws, NEW spent, NotesOK(ns, ws, spent), NEW m
    PROVE  Worth(ns, m) \in Int /\ IsFiniteSet(ns) /\ \A n \in ns : NoteValue(n.note, m) \in Int
  <1> DEFINE f == [n \in ns |-> NoteValue(n.note, m)]
  <1>1. IsFiniteSet(ns) /\ \A n \in ns : f[n] = f[n] /\ f[n] \in Int
    BY NoteValueInt, Zenon DEF NotesOK
  <1>2. Worth(ns, m) = SumFunctionOnSet(f, ns)
    BY Zenon DEF Worth
  <1>3. \A n \in ns : NoteValue(n.note, m) \in Int
    BY NoteValueInt, Zenon DEF NotesOK
  <1> HIDE DEF f
  <1> QED
    BY <1>1, <1>2, <1>3, SumSame, Zenon

-----------------------------------------------------------------------------
(* Steps that change wallets *)

Good(ws, ns, ps, rs, spent) ==
    WalletsOK(ws) /\ NotesOK(ns, ws, spent) /\ ProofsOK(ps, ws, spent) /\ ResultsOK(rs, ws, spent)

\* A party's side of a match survives a change of wallets that spends the old one.
LEMMA PartyKept ==
    ASSUME NEW o, NEW key, NEW fee, NEW s, NEW used, NEW ws, NEW spent, NEW vs, NEW more,
           PartyOK(o, key, fee, s, used, ws, spent), spent \subseteq more, o \in DOMAIN vs,
           vs[o] = ws[o] \/ MatchNullifier(ws[o]) \in more
    PROVE  PartyOK(o, key, fee, s, used, vs, more)
  <1>1. CASE used \cap spent # {}
    <2>1. used \cap more # {}
      BY <1>1
    <2> QED
      BY <2>1, Zenon DEF PartyOK
  <1>2. CASE MatchNullifier(ws[o]) \in used /\ Covers(ws[o], fee, s)
    <2>1. CASE vs[o] = ws[o]
      BY <1>2, <2>1, Zenon DEF PartyOK
    <2>2. CASE MatchNullifier(ws[o]) \in more
      <3>1. used \cap more # {}
        BY <1>2, <2>2, Zenon
      <3> QED
        BY <3>1, Zenon DEF PartyOK
    <2> QED
      BY <2>1, <2>2
  <1> QED
    BY <1>1, <1>2, Zenon DEF PartyOK

\* Replacing a wallet keeps the invariant, if the old one is spent, no match note
\* for it is left and the new one is in order.
LEMMA ReplaceKeeps ==
    ASSUME NEW ws, NEW ns, NEW ps, NEW rs, NEW spent, Good(ws, ns, ps, rs, spent),
           NEW o \in DOMAIN ws, NEW w, WalletOK(o, w),
           NEW left \in SUBSET ns, ~MatchFor(o, left),
           NEW more, spent \subseteq more, MatchNullifier(ws[o]) \in more
    PROVE  Good([ws EXCEPT ![o] = w], left, ps, rs, more)
  <1> DEFINE vs == [ws EXCEPT ![o] = w]
  <1>1. DOMAIN vs = DOMAIN ws /\ vs[o] = w /\ \A x \in DOMAIN ws : x # o => vs[x] = ws[x]
    BY Zenon
  <1> HIDE DEF vs
  <1>2. WalletsOK(vs)
    BY <1>1, Zenon DEF WalletsOK, Good
  <1>3. NotesOK(left, vs, more)
    <2>1. IsFiniteSet(left)
      BY FS_Subset, Zenon DEF NotesOK, Good
    <2>2. ASSUME NEW n \in left, n.note.type_ = Match
          PROVE  \E x \in DOMAIN vs : BackedBy(x, n, vs, more)
      <3>1. PICK x \in DOMAIN ws : BackedBy(x, n, ws, spent)
        BY <2>2, Zenon DEF NotesOK, Good
      <3>2. x # o
        BY <2>2, <3>1, Zenon DEF BackedBy, MatchFor
      <3>3. vs[x] = ws[x]
        BY <1>1, <3>2, Zenon
      <3>4. MatchNullifier(vs[x]) \in more
        BY <3>1, <3>3, Zenon DEF BackedBy
      <3>5. BackedBy(x, n, vs, more)
        BY <3>1, <3>3, <3>4, Zenon DEF BackedBy
      <3> QED
        BY <1>1, <3>5, Zenon
    <2>3. \A n \in left : NoteOK(n.note)
      BY Zenon DEF NotesOK, Good
    <2>4. \A n1, n2 \in left :
            n1.note.type_ = Match /\ n2.note.type_ = Match /\ n1.key = n2.key => n1 = n2
      BY Zenon DEF NotesOK, Good
    <2> QED
      BY <2>1, <2>2, <2>3, <2>4, Zenon DEF NotesOK
  <1>4. ProofsOK(ps, vs, more)
    <2>1. ASSUME NEW x \in DOMAIN ps PROVE Current(x, ps[x].wallet, vs, more)
      <3>1. Current(x, ps[x].wallet, ws, spent) /\ x \in DOMAIN ws
        BY Zenon DEF ProofsOK, Good
      <3>2. CASE x = o
        BY <3>1, <3>2, Zenon DEF Current
      <3>3. CASE x # o
        BY <1>1, <3>1, <3>3, Zenon DEF Current
      <3> QED
        BY <3>2, <3>3
    <2> QED
      BY <1>1, <2>1, Zenon DEF ProofsOK, Good
  <1>5. ResultsOK(rs, vs, more)
    <2> SUFFICES ASSUME NEW res \in rs PROVE ResultOK(res, vs, more)
      BY Zenon DEF ResultsOK
    <2>1. ResultOK(res, ws, spent)
      BY Zenon DEF ResultsOK, Good
    <2>2. ASSUME NEW p \in DOMAIN ws
          PROVE  p \in DOMAIN vs /\ (vs[p] = ws[p] \/ MatchNullifier(ws[p]) \in more)
      BY <1>1, Zenon
    <2>3. PartyOK(res.party0, res.pk_settle0, res.party0_fee,
                  Sold(res.match_, res.match_.direction), res.nullifiers, vs, more)
      <3>1. PartyOK(res.party0, res.pk_settle0, res.party0_fee,
                    Sold(res.match_, res.match_.direction), res.nullifiers, ws, spent)
        BY <2>1, Zenon DEF ResultOK
      <3>2. res.party0 \in DOMAIN ws
        BY <3>1, Zenon DEF PartyOK
      <3> QED
        BY <2>2, <3>1, <3>2, PartyKept, Zenon
    <2>4. PartyOK(res.party1, res.pk_settle1, res.party1_fee,
                  Sold(res.match_, opposite(res.match_.direction)), res.nullifiers, vs, more)
      <3>1. PartyOK(res.party1, res.pk_settle1, res.party1_fee,
                    Sold(res.match_, opposite(res.match_.direction)), res.nullifiers, ws, spent)
        BY <2>1, Zenon DEF ResultOK
      <3>2. res.party1 \in DOMAIN ws
        BY <3>1, Zenon DEF PartyOK
      <3> QED
        BY <2>2, <3>1, <3>2, PartyKept, Zenon
    <2> QED
      BY <2>1, <2>3, <2>4, Zenon DEF ResultOK
  <1> QED
    BY <1>2, <1>3, <1>4, <1>5, Zenon DEF Good, vs

\* So does a new wallet.
LEMMA CreateKeeps ==
    ASSUME NEW ws, NEW ns, NEW ps, NEW rs, NEW spent, Good(ws, ns, ps, rs, spent),
           NEW o \in Owners, o \notin DOMAIN ws, NEW w, WalletOK(o, w)
    PROVE  Good(Put(ws, o, w), ns, ps, rs, spent)
  <1> DEFINE vs == Put(ws, o, w)
  <1>1. DOMAIN vs = DOMAIN ws \cup {o} /\ vs[o] = w /\ \A x \in DOMAIN ws : vs[x] = ws[x]
    BY Zenon DEF Put
  <1> HIDE DEF vs
  <1>2. WalletsOK(vs)
    <2>1. DOMAIN vs \subseteq Owners
      BY <1>1, Zenon DEF WalletsOK, Good
    <2>2. ASSUME NEW x \in DOMAIN vs PROVE WalletOK(x, vs[x])
      <3>1. CASE x = o
        BY <1>1, <3>1, Zenon
      <3>2. CASE x # o
        <4>1. x \in DOMAIN ws /\ vs[x] = ws[x]
          BY <1>1, <3>2, Zenon
        <4> QED
          BY <4>1, Zenon DEF WalletsOK, Good
      <3> QED
        BY <3>1, <3>2
    <2> QED
      BY <2>1, <2>2, Zenon DEF WalletsOK
  <1>3. NotesOK(ns, vs, spent)
    <2>1. ASSUME NEW n \in ns, n.note.type_ = Match
          PROVE  \E x \in DOMAIN vs : BackedBy(x, n, vs, spent)
      <3>1. PICK x \in DOMAIN ws : BackedBy(x, n, ws, spent)
        BY <2>1, Zenon DEF NotesOK, Good
      <3>2. vs[x] = ws[x] /\ x \in DOMAIN vs
        BY <1>1, Zenon
      <3> QED
        BY <3>1, <3>2, Zenon DEF BackedBy
    <2> QED
      BY <2>1, Zenon DEF NotesOK, Good
  <1>4. ProofsOK(ps, vs, spent)
    <2>1. ASSUME NEW x \in DOMAIN ps
          PROVE  Current(x, ps[x].wallet, vs, spent) /\ x \in DOMAIN vs /\ WitnessOK(x, ps[x])
      <3>1. Current(x, ps[x].wallet, ws, spent) /\ x \in DOMAIN ws /\ WitnessOK(x, ps[x])
        BY Zenon DEF ProofsOK, Good
      <3>2. vs[x] = ws[x] /\ x \in DOMAIN vs
        BY <1>1, <3>1, Zenon
      <3> QED
        BY <3>1, <3>2, Zenon DEF Current
    <2> QED
      BY <2>1, Zenon DEF ProofsOK
  <1>5. ResultsOK(rs, vs, spent)
    <2> SUFFICES ASSUME NEW res \in rs PROVE ResultOK(res, vs, spent)
      BY Zenon DEF ResultsOK
    <2>1. ResultOK(res, ws, spent) /\ spent \subseteq spent
      BY Zenon DEF ResultsOK, Good
    <2>2. ASSUME NEW p \in DOMAIN ws PROVE p \in DOMAIN vs /\ vs[p] = ws[p]
      BY <1>1, Zenon
    <2>3. PartyOK(res.party0, res.pk_settle0, res.party0_fee,
                  Sold(res.match_, res.match_.direction), res.nullifiers, vs, spent)
      <3>1. PartyOK(res.party0, res.pk_settle0, res.party0_fee,
                    Sold(res.match_, res.match_.direction), res.nullifiers, ws, spent)
        BY <2>1, Zenon DEF ResultOK
      <3>2. res.party0 \in DOMAIN ws
        BY <3>1, Zenon DEF PartyOK
      <3> QED
        BY <2>1, <2>2, <3>1, <3>2, PartyKept, Zenon
    <2>4. PartyOK(res.party1, res.pk_settle1, res.party1_fee,
                  Sold(res.match_, opposite(res.match_.direction)), res.nullifiers, vs, spent)
      <3>1. PartyOK(res.party1, res.pk_settle1, res.party1_fee,
                    Sold(res.match_, opposite(res.match_.direction)), res.nullifiers, ws, spent)
        BY <2>1, Zenon DEF ResultOK
      <3>2. res.party1 \in DOMAIN ws
        BY <3>1, Zenon DEF PartyOK
      <3> QED
        BY <2>1, <2>2, <3>1, <3>2, PartyKept, Zenon
    <2> QED
      BY <2>1, <2>3, <2>4, Zenon DEF ResultOK
  <1> QED
    BY <1>2, <1>3, <1>4, <1>5, Zenon DEF Good, vs

\* The parts of the invariant, as predicates of values.
LEMMA InvIs ==
    ASSUME Inv
    PROVE  /\ updates \in [Owners -> Nat] /\ vault \in [Mints -> Int]
           /\ Good(wallets, notes, proofs, result, nullifiers)
  BY Zenon DEF Inv, Good

\* The parts of the invariant in the next state.
LEMMA InvNext ==
    ASSUME updates' \in [Owners -> Nat], vault' \in [Mints -> Int],
           Good(wallets', notes', proofs', result', nullifiers')
    PROVE  Inv'
  BY Zenon DEF Inv, Good

\* Claims are natural numbers, before and after a step.
LEMMA ClaimsNat ==
    ASSUME Inv, Inv', NEW CONSTANT m \in Mints
    PROVE  /\ Claims[m] = Total(wallets, notes, m) /\ Claims[m] \in Nat
           /\ Claims'[m] = Total(wallets', notes', m) /\ Claims'[m] \in Nat
           /\ Claims' \in [Mints -> Nat]
  <1>1. ASSUME NEW CONSTANT c \in Mints
        PROVE  /\ Claims[c] = Total(wallets, notes, c) /\ Claims[c] \in Nat
               /\ Claims'[c] = Total(wallets', notes', c) /\ Claims'[c] \in Nat
    <2>1. ClaimsOn(c) = Total(wallets, notes, c) /\ ClaimsOn(c)' = Total(wallets', notes', c)
      BY ClaimsAre, Zenon
    <2>2. Claims[c] = ClaimsOn(c) /\ Claims'[c] = ClaimsOn(c)'
      BY Zenon DEF Claims
    <2>3. Total(wallets, notes, c) \in Nat
      BY TotalNat, Zenon DEF Inv
    <2>4. Total(wallets', notes', c) \in Nat
      BY TotalNat, Zenon DEF Inv
    <2> QED
      BY <2>1, <2>2, <2>3, <2>4, Zenon
  <1>2. Claims' = [c \in Mints |-> Claims'[c]]
    BY Zenon DEF Claims
  <1>3. Claims' \in [Mints -> Nat]
    BY <1>1, <1>2, Zenon
  <1> QED
    BY <1>1, <1>3, Zenon

\* A step that leaves the vault and raises no total is a move of the ledger.
LEMMA MoveStep ==
    ASSUME Inv, Inv', vault' = vault,
           \A m \in Mints : Total(wallets', notes', m) <= Total(wallets, notes, m)
    PROVE  [L!Next]_(L!vars)
  <1>1. CASE Mints = {}
    <2>1. Claims' = Claims
      BY <1>1, Zenon DEF Claims
    <2> QED
      BY <2>1 DEF L!vars
  <1>2. CASE Mints # {}
    <2>1. Claims' \in [Mints -> Nat]
      BY <1>2, ClaimsNat, Zenon
    <2>2. \A m \in Mints : Claims'[m] <= Claims[m]
      BY ClaimsNat, Zenon
    <2> QED
      BY <2>1, <2>2, Zenon DEF L!Next, L!Move
  <1> QED
    BY <1>1, <1>2

\* A new wallet is empty.
LEMMA EmptyWallet ==
    ASSUME NEW o \in Owners, NEW w,
           w = [balances |-> [i \in 1..MAX_BALANCES |-> ZeroBalance],
                orders |-> [i \in 1..MAX_ORDERS |-> ZeroOrder],
                fees |-> Fees[o], keys |-> KeysOf(o), randomness |-> InitialRandomness[o]]
    PROVE  WalletOK(o, w) /\ \A m : Holding(w, m) = 0
  <1>1. w.balances = [i \in 1..MAX_BALANCES |-> ZeroBalance]
        /\ w.orders = [i \in 1..MAX_ORDERS |-> ZeroOrder]
    OBVIOUS
  <1>2. ZeroBalance \in [mint : Scalar, amount : Scalar] /\ ZeroOrder \in OrderType
    BY Bits DEF ZeroBalance, ZeroOrder, OrderType
  <1>3. w \in WalletType(o)
    <2>1. InitialRandomness[o] \in Scalar
      BY InputsTyped, Zenon
    <2>2. [i \in 1..MAX_BALANCES |-> ZeroBalance]
              \in [1..MAX_BALANCES -> [mint : Scalar, amount : Scalar]]
      BY <1>2, Zenon
    <2>3. [i \in 1..MAX_ORDERS |-> ZeroOrder] \in [1..MAX_ORDERS -> OrderType]
      BY <1>2, Zenon
    <2> QED
      BY <2>1, <2>2, <2>3, Zenon DEF WalletType
  <1>4. MintsUnique(w.balances)
    BY <1>1 DEF MintsUnique, ZeroBalance
  <1>5. \A i \in 1..MAX_ORDERS : GasFree(o, w.orders[i])
    BY <1>1 DEF GasFree, ZeroOrder
  <1>6. ASSUME NEW m PROVE Holding(w, m) = 0
    <2>1. BalancesOK(w.balances)
      BY <1>3, WalletParts, Zenon
    <2>2. Holding(w, m) = SumFunctionOnSet(Held(w.balances, m), 1..MAX_BALANCES)
          /\ IsFiniteSet(1..MAX_BALANCES)
      BY <2>1, HoldingIs, BalanceLen, Zenon
    <2>3. \A i \in 1..MAX_BALANCES : Held(w.balances, m)[i] = 0
      BY <1>1 DEF Held, ZeroBalance
    <2> QED
      BY <2>2, <2>3, SumZero, Zenon
  <1> QED
    BY <1>3, <1>4, <1>5, <1>6, Zenon DEF WalletOK

\* Creating a wallet keeps the invariant and is a step of the ledger.
LEMMA CreateStep ==
    ASSUME Inv, NEW CONSTANT o \in Owners, prove_valid_wallet_create(o)
    PROVE  Inv' /\ [L!Next]_(L!vars)
  <1> DEFINE w == [balances |-> [i \in 1..MAX_BALANCES |-> ZeroBalance],
                   orders |-> [i \in 1..MAX_ORDERS |-> ZeroOrder],
                   fees |-> Fees[o], keys |-> KeysOf(o), randomness |-> InitialRandomness[o]]
  <1>1. /\ o \notin DOMAIN wallets /\ UNCHANGED <<nullifiers, notes, vault, proofs, result, updates>>
        /\ wallets' = Put(wallets, o, w) \/ wallets' = wallets
    BY Zenon DEF prove_valid_wallet_create
  <1>2. WalletOK(o, w) /\ \A m : Holding(w, m) = 0
    BY EmptyWallet, Zenon
  <1> HIDE DEF w
  <1>3. Good(wallets, notes, proofs, result, nullifiers)
    BY InvIs, Zenon
  <1>4. Good(wallets', notes', proofs', result', nullifiers')
    <2>1. Good(Put(wallets, o, w), notes, proofs, result, nullifiers)
      BY <1>1, <1>2, <1>3, CreateKeeps, Zenon
    <2> QED
      BY <1>1, <1>3, <2>1, Zenon
  <1>5. Inv'
    BY <1>1, <1>4, InvIs, InvNext, Zenon
  <1>6. ASSUME NEW CONSTANT m \in Mints
        PROVE  Total(wallets', notes', m) <= Total(wallets, notes, m)
    <2>1. Total(wallets, notes, m) \in Nat
      BY TotalNat, Zenon DEF Inv
    <2>2. CASE wallets' = wallets
      BY <1>1, <2>1, <2>2
    <2>3. CASE wallets' = Put(wallets, o, w)
      <3>1. WalletsOK(wallets) /\ BalancesOK(w.balances)
        BY <1>2, <1>3, WalletParts, Zenon DEF WalletOK, Good
      <3>a. o \notin DOMAIN wallets
        BY <1>1
      <3>2. Adds(Holdings(Put(wallets, o, w), m), Holdings(wallets, m), Holding(w, m))
        BY <3>1, <3>a, HoldingsCreated, Zenon
      <3>3. Holdings(wallets', m) = Holdings(wallets, m)
        BY <1>2, <2>3, <3>2 DEF Adds
      <3>4. Total(wallets', notes', m) = Total(wallets, notes, m)
        BY <1>1, <3>3, Zenon DEF Total
      <3> QED
        BY <2>1, <3>4
    <2> QED
      BY <1>1, <2>2, <2>3
  <1>7. vault' = vault
    BY <1>1
  <1> QED
    BY <1>5, <1>6, <1>7, MoveStep, Zenon

\* The slots of a wallet hold scalars, with a new mint as well.
LEMMA MintsType ==
    ASSUME NEW w, BalancesOK(w.balances)
    PROVE  MintsOf(w) \in [1..MAX_BALANCES -> Scalar]
  <1>1. \A i \in 1..MAX_BALANCES : w.balances[i].mint \in Scalar
    BY BalanceScalars, Zenon
  <1> QED
    BY <1>1, Zenon DEF MintsOf

\* WithMint returns a list of mints.
LEMMA WithMintType ==
    ASSUME NEW mints \in [1..MAX_BALANCES -> Scalar], NEW mint \in Scalar
    PROVE  WithMint(mints, mint) \in [1..MAX_BALANCES -> Scalar]
  <1>1. ASSUME NEW i PROVE [mints EXCEPT ![i] = mint] \in [1..MAX_BALANCES -> Scalar]
    BY Zenon
  <1> QED
    BY <1>1, Zenon DEF WithMint

OrdersOK(o, orders) == /\ orders \in [1..MAX_ORDERS -> OrderType]
                       /\ \A i \in 1..MAX_ORDERS : GasFree(o, orders[i])

\* Placing an order keeps the orders of a wallet in order.
LEMMA OrdersPlaced ==
    ASSUME NEW o \in Owners, NEW w, OrdersOK(o, w.orders), NEW order \in NewOrders[o],
           NEW timestamp \in Nat, NEW orders \in WithOrder(w, order, timestamp)
    PROVE  OrdersOK(o, orders)
  <1> DEFINE dated == [order EXCEPT !.timestamp = timestamp]
  <1>1. order \in OrderType /\ Fees[o][1].gas_addr \notin {order.quote_mint, order.base_mint}
    BY InputsTyped, GasNotTraded, Zenon DEF OrderType
  <1>2. dated \in OrderType /\ dated.quote_mint = order.quote_mint
        /\ dated.base_mint = order.base_mint
    BY <1>1 DEF OrderType
  <1>3. GasFree(o, dated)
    BY <1>1, <1>2, Zenon DEF GasFree
  <1>4. PICK i \in OrderSlots(w, order) :
          orders = [w.orders EXCEPT ![i] =
                      IF orders_equal_except_timestamp(order, @) = 1 THEN @ ELSE dated]
    BY Zenon DEF WithOrder
  <1> HIDE DEF dated
  <1>5. ASSUME NEW j \in 1..MAX_ORDERS
        PROVE  orders[j] \in OrderType /\ GasFree(o, orders[j])
    <2>1. orders[j] = w.orders[j] \/ orders[j] = dated
      BY <1>4 DEF OrdersOK
    <2>2. w.orders[j] \in OrderType /\ GasFree(o, w.orders[j])
      BY Zenon DEF OrdersOK
    <2> QED
      BY <1>2, <1>3, <2>1, <2>2, Zenon
  <1>6. orders = [j \in 1..MAX_ORDERS |-> orders[j]]
    BY <1>4, Zenon DEF OrdersOK
  <1> QED
    BY <1>5, <1>6, Zenon DEF OrdersOK

\* The wallet of an update is in order if the circuit accepts its transfers.
LEMMA UpdatedOK ==
    ASSUME NEW o \in Owners, NEW old, WalletOK(o, old), NEW t \in Transfers[o],
           NEW mints \in [1..MAX_BALANCES -> Scalar], NEW orders, OrdersOK(o, orders),
           NEW new, new = Updated(old, t, mints, orders),
           validate_transfers(new, old, t.internal, t.external)
    PROVE  WalletOK(o, new) /\ TransferOK(t.internal) /\ TransferOK(t.external)
  <1> DEFINE balances == [i \in 1..MAX_BALANCES |->
                            [mint |-> mints[i],
                             amount |-> expected_amount(mints[i], old, t.internal, t.external)]]
  <1>1. TransferOK(t.internal) /\ TransferOK(t.external)
    BY InputsTyped, Zenon DEF TransferOK
  <1>2. /\ t.internal.volume \in Nat /\ t.external.volume \in Nat
        /\ t.internal.mint \in Scalar /\ t.external.mint \in Scalar
        /\ t.external.direction \in {0, 1}
    BY <1>1, Widths DEF TransferOK
  <1>3. BalancesOK(old.balances) /\ old.randomness \in Scalar /\ old \in WalletType(o)
    BY WalletParts, Zenon DEF WalletOK
  <1>4. BalancesOK(balances)
    <2>1. ASSUME NEW i \in 1..MAX_BALANCES
          PROVE  [mint |-> mints[i],
                  amount |-> expected_amount(mints[i], old, t.internal, t.external)]
                   \in [mint : Scalar, amount : Scalar]
      <3>1. mints[i] \in Scalar
        OBVIOUS
      <3>2. expected_amount(mints[i], old, t.internal, t.external) \in Scalar
        BY <1>2, <1>3, <3>1, ExpectedAmount, Zenon
      <3> QED
        BY <3>1, <3>2
    <2> QED
      BY <2>1, Zenon DEF BalancesOK
  <1>5. FAdd(old.randomness, 2) \in Scalar
    <2>1. old.randomness \in Int /\ 2 \in Int
      BY <1>3, ScalarNat
    <2> QED
      BY <2>1, FieldOps, Zenon
  <1>6. new = [old EXCEPT !.balances = balances, !.orders = orders,
                          !.randomness = FAdd(old.randomness, 2)]
    <2> HIDE DEF balances
    <2> QED
      BY <1>3 DEF Updated, balances, WalletType
  <1> HIDE DEF balances
  <1>7. new \in WalletType(o) /\ new.balances = balances /\ new.orders = orders
    BY <1>3, <1>4, <1>5, <1>6, Zenon DEF WalletType, BalancesOK, OrdersOK
  <1>8. MintsUnique(new.balances)
    BY <1>4, <1>7, UpdateUnique, Zenon DEF validate_transfers
  <1> QED
    BY <1>1, <1>7, <1>8, Zenon DEF WalletOK, OrdersOK

\* A withdrawn amount is in the wallet.
LEMMA TransferredNat ==
    ASSUME NEW old, BalancesOK(old.balances), NEW int, NEW ext, TransferOK(int), TransferOK(ext),
           int.volume + (IF ext.direction = 1 THEN ext.volume ELSE 0)
              <= Holding(old, IF ext.direction = 1 THEN ext.mint ELSE int.mint),
           NEW c
    PROVE  Transferred(old, c, ext) \in Nat
  <1>1. Holding(old, c) \in Nat
    BY HoldingIs, Zenon
  <1>2. int.volume \in Nat /\ ext.volume \in Nat /\ ext.direction \in {0, 1}
    BY Widths DEF TransferOK
  <1>3. CASE ext.direction = 1
    <2>1. int.volume + ext.volume <= Holding(old, ext.mint)
      BY <1>3
    <2>2. CASE ext.mint = c
      <3>1. Transferred(old, c, ext) = Holding(old, c) - ext.volume
        BY <1>1, <1>2, <1>3, <2>2 DEF Transferred, Signed, Buy
      <3>2. int.volume + ext.volume <= Holding(old, c)
        BY <2>1, <2>2, Zenon
      <3> QED
        BY <1>1, <1>2, <3>1, <3>2
    <2>3. CASE ext.mint # c
      BY <1>1, <2>3 DEF Transferred
    <2> QED
      BY <2>2, <2>3
  <1>4. CASE ext.direction = 0
    BY <1>1, <1>2, <1>4 DEF Transferred, Signed, Buy
  <1> QED
    BY <1>2, <1>3, <1>4

\* The ledger's step for an accepted update: a deposit, a withdrawal, or a move
\* when the transfer is of nothing or of a mint that is not the ledger's.
LEMMA TransferStep ==
    ASSUME Inv, Inv', NEW CONSTANT ext, TransferOK(ext),
           vault' = [m \in Mints |-> IF m # ext.mint THEN vault[m]
                                     ELSE IF ext.direction = 0 THEN vault[m] + ext.volume
                                     ELSE vault[m] - ext.volume],
           \A m \in Mints : Total(wallets', notes', m) <= Total(wallets, notes, m)
                 + (IF ext.mint = m THEN Signed(ext.volume, ext.direction) ELSE 0),
           ext.mint \in Mints /\ ext.direction = 1
              => ext.volume <= Total(wallets, notes, ext.mint)
    PROVE  [L!Next]_(L!vars)
  <1> DEFINE v == ext.volume
             c == ext.mint
  <1>1. v \in Nat /\ v <= 2^AmountBits /\ ext.direction \in {0, 1} /\ vault \in [Mints -> Int]
    BY Widths DEF TransferOK, Inv
  <1>2. ASSUME NEW CONSTANT m \in Mints
        PROVE  /\ Claims[m] = Total(wallets, notes, m) /\ Claims[m] \in Nat
               /\ Claims'[m] = Total(wallets', notes', m) /\ Claims'[m] \in Nat
               /\ Claims' \in [Mints -> Nat]
    BY ClaimsNat, Zenon
  <1>3. CASE c \notin Mints \/ v = 0
    <2>1. ASSUME NEW CONSTANT m \in Mints
          PROVE  (IF ext.mint = m THEN Signed(ext.volume, ext.direction) ELSE 0) = 0
      BY <1>3 DEF Signed
    <2>2. \A m \in Mints : Total(wallets', notes', m) <= Total(wallets, notes, m)
      <3> TAKE m \in Mints
      <3>1. Total(wallets', notes', m) <= Total(wallets, notes, m) + 0
        BY <2>1, Zenon
      <3>2. Total(wallets, notes, m) \in Nat
        BY <1>2, Zenon
      <3> QED
        BY <3>1, <3>2
    <2>3. vault' = vault
      BY <1>1, <1>3
    <2> QED
      BY <2>2, <2>3, MoveStep, Zenon
  <1>4. CASE c \in Mints /\ v # 0
    <2>1. v \in 1..(2^AmountBits)
      BY <1>1, <1>4, Widths
    <2>2. Claims' \in [Mints -> Nat]
      BY <1>2, <1>4, Zenon
    <2>3. CASE ext.direction = 0
      <3>1. vault' = [vault EXCEPT ![c] = @ + v]
        BY <1>1, <2>3, Zenon
      <3>2. ASSUME NEW CONSTANT m \in Mints
            PROVE  Claims'[m] <= Claims[m] + (IF m = c THEN v ELSE 0)
        <4>1. (IF ext.mint = m THEN Signed(ext.volume, ext.direction) ELSE 0)
                = IF m = c THEN v ELSE 0
          BY <2>3 DEF Signed, Buy
        <4> HIDE DEF c, v
        <4> QED
          BY <1>2, <4>1, Zenon
      <3>3. L!ClaimsGrowBy(c, v)
        BY <2>2, <3>2, Zenon DEF L!ClaimsGrowBy
      <3>4. L!Deposit(c, v)
        BY <3>1, <3>3, Zenon DEF L!Deposit
      <3> QED
        BY <1>4, <2>1, <3>4, Zenon DEF L!Next
    <2>4. CASE ext.direction = 1
      <3>1. vault' = [vault EXCEPT ![c] = @ - v]
        <4>1. ext.direction # 0
          BY <2>4
        <4>2. vault' = [m \in Mints |-> IF m # c THEN vault[m] ELSE vault[m] - v]
          BY <4>1, Zenon
        <4> HIDE DEF c, v
        <4> QED
          BY <1>1, <4>2, Zenon
      <3>2. ASSUME NEW CONSTANT m \in Mints
            PROVE  Claims'[m] <= Claims[m] + (IF m = c THEN -v ELSE 0)
        <4>1. (IF ext.mint = m THEN Signed(ext.volume, ext.direction) ELSE 0)
                = IF m = c THEN -v ELSE 0
          BY <2>4 DEF Signed, Buy
        <4> HIDE DEF c, v
        <4> QED
          BY <1>2, <4>1, Zenon
      <3>3. L!ClaimsGrowBy(c, -v)
        BY <2>2, <3>2, Zenon DEF L!ClaimsGrowBy
      <3>4. v <= Claims[c]
        BY <1>2, <1>4, <2>4, Zenon
      <3>5. L!Withdraw(c, v)
        BY <3>1, <3>3, <3>4, Zenon DEF L!Withdraw
      <3> QED
        BY <1>4, <2>1, <3>5, Zenon DEF L!Next
    <2> QED
      BY <1>1, <2>3, <2>4
  <1> QED
    BY <1>3, <1>4

\* An owner whose wallet is not encumbered has no match note.
LEMMA NoMatchNote ==
    ASSUME NEW ws, NEW ns, NEW ps, NEW rs, NEW spent, Good(ws, ns, ps, rs, spent),
           NEW o \in DOMAIN ws, MatchNullifier(ws[o]) \notin spent
    PROVE  ~MatchFor(o, ns)
  <1> SUFFICES ASSUME NEW n \in ns, n.note.type_ = Match, n.key = KeysOf(o).pk_settle
               PROVE  FALSE
    BY Zenon DEF MatchFor
  <1>1. PICK x \in DOMAIN ws : BackedBy(x, n, ws, spent)
    BY Zenon DEF Good, NotesOK
  <1>2. x \in Owners /\ o \in Owners /\ KeysOf(x).pk_settle = KeysOf(o).pk_settle
    BY <1>1, Zenon DEF Good, WalletsOK, BackedBy
  <1>3. x = o
    BY <1>2, KeyOwner, Zenon
  <1> QED
    BY <1>1, <1>3, Zenon DEF BackedBy

\* Updating a wallet keeps the invariant and is a step of the ledger.
LEMMA UpdateStep ==
    ASSUME Inv, NEW o \in DOMAIN wallets, NEW t \in Transfers[o], NEW orders,
           OrdersOK(o, orders), UpdateWallet(o, t, orders)
    PROVE  Inv' /\ [L!Next]_(L!vars)
  <1> DEFINE old == wallets[o]
             ext == t.external
             int == t.internal
             mints == IF ext.direction = 0 THEN WithMint(MintsOf(old), ext.mint) ELSE MintsOf(old)
             new == Updated(old, t, mints, orders)
  <1>1. /\ MatchNullifier(old) \notin nullifiers
        /\ int.volume + (IF ext.direction = 1 THEN ext.volume ELSE 0)
              <= Holding(old, IF ext.direction = 1 THEN ext.mint ELSE int.mint)
        /\ notes' = notes /\ proofs' = proofs /\ result' = result
    BY Zenon DEF UpdateWallet
  <1>2. \/ /\ UpdateVerifies(old, new, t, updates[o] + 1)
           /\ wallets' = [wallets EXCEPT ![o] = new]
           /\ nullifiers' = nullifiers \cup {SpendNullifier(old), MatchNullifier(old)}
           /\ vault' = [m \in Mints |-> IF m # ext.mint THEN vault[m]
                                        ELSE IF ext.direction = 0 THEN vault[m] + ext.volume
                                        ELSE vault[m] - ext.volume]
           /\ updates' = [updates EXCEPT ![o] = @ + 1]
        \/ UNCHANGED <<wallets, nullifiers, vault, updates>>
    BY Zenon DEF UpdateWallet
  <1>3. Good(wallets, notes, proofs, result, nullifiers)
    BY InvIs, Zenon
  <1>4. o \in Owners /\ WalletOK(o, old) /\ WalletsOK(wallets)
    BY <1>3, Zenon DEF Good, WalletsOK
  <1>5. BalancesOK(old.balances)
    BY <1>4, WalletParts, Zenon DEF WalletOK
  <1>6. mints \in [1..MAX_BALANCES -> Scalar]
    <2>1. ext.mint \in Scalar
      BY <1>4, InputsTyped, Zenon
    <2>2. MintsOf(old) \in [1..MAX_BALANCES -> Scalar]
      BY <1>5, MintsType, Zenon
    <2>3. WithMint(MintsOf(old), ext.mint) \in [1..MAX_BALANCES -> Scalar]
      BY <2>1, <2>2, WithMintType, Zenon
    <2> QED
      BY <2>2, <2>3, Zenon
  <1>7. CASE UNCHANGED <<wallets, nullifiers, vault, updates>>
    <2>1. Inv'
      BY <1>1, <1>7, Zenon DEF Inv
    <2>2. \A m \in Mints : Total(wallets', notes', m) <= Total(wallets, notes, m)
      <3> TAKE m \in Mints
      <3>1. Total(wallets, notes, m) \in Nat
        BY TotalNat, Zenon DEF Inv
      <3>2. Total(wallets', notes', m) = Total(wallets, notes, m)
        BY <1>1, <1>7, Zenon
      <3> QED
        BY <3>1, <3>2
    <2>3. vault' = vault
      BY <1>7
    <2> QED
      BY <2>1, <2>2, <2>3, MoveStep, Zenon
  <1>8. CASE /\ UpdateVerifies(old, new, t, updates[o] + 1)
             /\ wallets' = [wallets EXCEPT ![o] = new]
             /\ nullifiers' = nullifiers \cup {SpendNullifier(old), MatchNullifier(old)}
             /\ vault' = [m \in Mints |-> IF m # ext.mint THEN vault[m]
                                          ELSE IF ext.direction = 0 THEN vault[m] + ext.volume
                                          ELSE vault[m] - ext.volume]
             /\ updates' = [updates EXCEPT ![o] = @ + 1]
    <2> HIDE DEF mints
    <2>1. validate_transfers(new, old, int, ext)
      <3> HIDE DEF new, old
      <3> QED
        BY <1>8 DEF UpdateVerifies, ValidWalletUpdate
    <2>2. WalletOK(o, new) /\ TransferOK(int) /\ TransferOK(ext)
      BY <1>4, <1>6, <2>1, UpdatedOK, Zenon
    <2>3. BalancesOK(new.balances)
      <3> HIDE DEF new
      <3> QED
        BY <2>2, WalletParts, Zenon DEF WalletOK
    <2>4. ~MatchFor(o, notes)
      BY <1>1, <1>3, NoMatchNote, Zenon
    <2> HIDE DEF new
    <2>5. Good(wallets', notes', proofs', result', nullifiers')
      <3>1. /\ nullifiers \subseteq nullifiers' /\ MatchNullifier(wallets[o]) \in nullifiers'
            /\ notes \in SUBSET notes
        BY <1>8, Zenon
      <3>2. Good([wallets EXCEPT ![o] = new], notes, proofs, result, nullifiers')
        BY <1>3, <2>2, <2>4, <3>1, ReplaceKeeps, Zenon
      <3> QED
        BY <1>1, <1>8, <3>2, Zenon
    <2>6. updates' \in [Owners -> Nat] /\ vault' \in [Mints -> Int]
      <3>1. updates \in [Owners -> Nat] /\ vault \in [Mints -> Int]
        BY InvIs, Zenon
      <3>2. ext.volume \in Nat
        BY <2>2, Widths DEF TransferOK
      <3>3. updates[o] + 1 \in Nat
        BY <1>4, <3>1
      <3>4. updates' \in [Owners -> Nat]
        BY <1>8, <3>1, <3>3, Zenon
      <3>5. ASSUME NEW m \in Mints PROVE vault'[m] \in Int
        <4>1. vault[m] \in Int /\ vault[m] + ext.volume \in Int /\ vault[m] - ext.volume \in Int
          BY <3>1, <3>2
        <4> QED
          BY <1>8, <4>1, Zenon
      <3> QED
        BY <1>8, <3>4, <3>5, Zenon
    <2>7. Inv'
      BY <2>5, <2>6, InvNext, Zenon
    <2>8. ASSUME NEW CONSTANT m \in Mints
          PROVE  /\ Total(wallets', notes', m) <= Total(wallets, notes, m)
                      + (IF ext.mint = m THEN Signed(ext.volume, ext.direction) ELSE 0)
                 /\ Holding(old, m) <= Total(wallets, notes, m)
      <3> DEFINE x == IF ext.mint = m THEN Signed(ext.volume, ext.direction) ELSE 0
      <3>1. m \in Scalar /\ m # 0
        BY MintsNonzero
      <3>2. Transferred(old, m, ext) \in Nat
        BY <1>1, <1>5, <2>2, TransferredNat, Zenon
      <3>3. Transferred(old, m, ext) >= 0
        BY <3>2
      <3>4. Holding(new, m) <= Transferred(old, m, ext)
        BY <1>5, <2>1, <2>2, <2>3, <3>1, <3>3, UpdateHolding, Zenon
      <3>5. Transferred(old, m, ext) = Holding(old, m) + x
        BY Zenon DEF Transferred
      <3>6. Adds(Holdings([wallets EXCEPT ![o] = new], m), Holdings(wallets, m),
                 Holding(new, m) - Holding(old, m))
        BY <1>4, <2>3, HoldingsReplaced, Zenon
      <3>7. /\ Total(wallets, notes, m) = Holdings(wallets, m) + Worth(notes, m)
            /\ Total(wallets', notes', m) = Holdings([wallets EXCEPT ![o] = new], m)
                                              + Worth(notes, m)
        BY <1>1, <1>8, Zenon DEF Total
      <3>8. Holding(new, m) \in Nat /\ Holding(old, m) \in Nat
        BY <1>5, <2>3, HoldingIs, Zenon
      <3>9. Worth(notes, m) \in Int
        BY <1>3, WorthInt, Zenon DEF Good
      <3>10. x \in Int
        <4>1. ext.volume \in Nat
          BY <2>2, Widths DEF TransferOK
        <4> QED
          BY <4>1 DEF Signed
      <3>11. Holding(old, m) <= Total(wallets, notes, m)
        BY <1>3, <2>4, TotalNat, Zenon DEF Good
      <3>12. Total(wallets', notes', m) <= Total(wallets, notes, m) + x
        <4> HIDE DEF x, old
        <4> QED
          BY <3>4, <3>5, <3>6, <3>7, <3>8, <3>9, <3>10 DEF Adds
      <3> QED
        BY <3>11, <3>12
    <2>9. ext.mint \in Mints /\ ext.direction = 1 => ext.volume <= Total(wallets, notes, ext.mint)
      <3> SUFFICES ASSUME ext.mint \in Mints, ext.direction = 1
                   PROVE  ext.volume <= Total(wallets, notes, ext.mint)
        OBVIOUS
      <3>1. int.volume + ext.volume <= Holding(old, ext.mint)
        BY <1>1
      <3>2. Holding(old, ext.mint) <= Total(wallets, notes, ext.mint)
        BY <2>8, Zenon
      <3>3. Holding(old, ext.mint) \in Nat /\ Total(wallets, notes, ext.mint) \in Nat
        BY <1>3, <1>5, HoldingIs, TotalNat, Zenon DEF Good
      <3>4. int.volume \in Nat /\ ext.volume \in Nat
        BY <2>2, Widths DEF TransferOK
      <3> QED
        BY <3>1, <3>2, <3>3, <3>4
    <2>10. [L!Next]_(L!vars)
      BY <1>8, <2>2, <2>7, <2>8, <2>9, TransferStep, Zenon
    <2> QED
      BY <2>7, <2>10, SMTT(30)
  <1> QED
    BY <1>2, <1>7, <1>8, Zenon

\* WithGain returns a list of mints.
LEMMA WithGainType ==
    ASSUME NEW mints \in [1..MAX_BALANCES -> Scalar], NEW mint \in Scalar, NEW d, NEW v
    PROVE  WithGain(mints, mint, d, v) \in [1..MAX_BALANCES -> Scalar]
  BY WithMintType, Zenon DEF WithGain

\* What is left of an order is a scalar.
LEMMA ResultScalar ==
    ASSUME NEW order \in OrderType, NEW x, NoteOK(x)
    PROVE  expected_result(order, x) \in Scalar
  <1> DEFINE e == EqVec(<<x.mint1, x.mint2>>, <<order.base_mint, order.quote_mint>>).val
             c == CondSelect(x.volume1, 0, x.type_)
  <1>1. e \in Int
    BY DEF EqVec, EqZero
  <1>2. x.volume1 \in Int /\ 0 \in Int /\ x.type_ \in {0, 1}
    BY DEF NoteOK, Match, InternalTransfer
  <1>3. c = IF x.type_ = 1 THEN x.volume1 % P ELSE 0 % P
    BY <1>2, Select, Zenon
  <1>4. x.volume1 % P \in Scalar /\ 0 % P \in Scalar
    BY <1>2, CongMod, Zenon
  <1>5. c \in Int
    <2>1. x.volume1 % P \in Int /\ 0 % P \in Int
      BY <1>4, ScalarNat, Zenon
    <2> QED
      BY <1>3, <2>1, Zenon
  <1>6. expected_result(order, x) = FSub(order.amount, FMul(e, c))
    BY Zenon DEF expected_result
  <1>7. order.amount \in Scalar
    BY DEF OrderType
  <1> HIDE DEF e, c
  <1>8. FMul(e, c) \in Scalar
    BY <1>1, <1>5, FieldOps, Zenon
  <1>9. FMul(e, c) \in Int /\ order.amount \in Int
    BY <1>7, <1>8, ScalarNat, Zenon
  <1>10. FSub(order.amount, FMul(e, c)) \in Scalar
    BY <1>9, FieldOps, Zenon
  <1> QED
    BY <1>6, <1>10, Zenon

\* The wallet of a settlement is in order if the circuit accepts its balances.
LEMMA SettledOK ==
    ASSUME NEW o \in Owners, NEW w, WalletOK(o, w), NEW x, NoteOK(x),
           NEW post, post = Settled(w, x), validate_new_balances(post, w, x)
    PROVE  WalletOK(o, post)
  <1> DEFINE m1 == WithGain(MintsOf(w), x.mint1, x.direction1, x.volume1)
             m2 == WithGain(m1, x.mint2, x.direction2, x.volume2)
             mints == WithGain(m2, x.fee_mint, x.fee_direction, x.fee_volume)
             balances == [i \in 1..MAX_BALANCES |->
                            [mint |-> mints[i], amount |-> expected_bal(mints[i], w, x)]]
             orders == [i \in 1..MAX_ORDERS |->
                          [w.orders[i] EXCEPT !.amount = expected_result(w.orders[i], x)]]
  <1>1. /\ BalancesOK(w.balances) /\ w.randomness \in Scalar /\ w \in WalletType(o)
        /\ w.orders \in [1..MAX_ORDERS -> OrderType]
    BY WalletParts, Zenon DEF WalletOK
  <1>2. mints \in [1..MAX_BALANCES -> Scalar]
    <2>1. x.mint1 \in Scalar /\ x.mint2 \in Scalar /\ x.fee_mint \in Scalar
      BY Zenon DEF NoteOK
    <2>2. MintsOf(w) \in [1..MAX_BALANCES -> Scalar]
      BY <1>1, MintsType, Zenon
    <2>3. m1 \in [1..MAX_BALANCES -> Scalar]
      BY <2>1, <2>2, WithGainType, Zenon
    <2> HIDE DEF m1
    <2>4. m2 \in [1..MAX_BALANCES -> Scalar]
      BY <2>1, <2>3, WithGainType, Zenon
    <2> HIDE DEF m2
    <2> QED
      BY <2>1, <2>4, WithGainType, Zenon
  <1>3. post = [w EXCEPT !.balances = balances, !.orders = orders,
                         !.randomness = FAdd(w.randomness, 2)]
    <2> HIDE DEF mints
    <2>1. post = [w EXCEPT !.balances = balances,
                           !.orders = [i \in 1..MAX_ORDERS |->
                              [@[i] EXCEPT !.amount = expected_result(w.orders[i], x)]],
                           !.randomness = FAdd(@, 2)]
      BY Zenon DEF Settled, mints
    <2> HIDE DEF balances
    <2> QED
      BY <1>1, <2>1 DEF WalletType
  <1> HIDE DEF mints
  <1>4. BalancesOK(balances)
    <2>1. ASSUME NEW i \in 1..MAX_BALANCES
          PROVE  [mint |-> mints[i], amount |-> expected_bal(mints[i], w, x)]
                   \in [mint : Scalar, amount : Scalar]
      <3>1. mints[i] \in Scalar
        BY <1>2, Zenon
      <3>2. expected_bal(mints[i], w, x) \in Scalar
        BY <1>1, <3>1, ExpectedBalance, Zenon
      <3> QED
        BY <3>1, <3>2
    <2> QED
      BY <2>1, Zenon DEF BalancesOK
  <1>5. ASSUME NEW i \in 1..MAX_ORDERS
        PROVE  /\ orders[i] \in OrderType /\ orders[i].quote_mint = w.orders[i].quote_mint
               /\ orders[i].base_mint = w.orders[i].base_mint
    <2>1. w.orders[i] \in OrderType
      BY <1>1, Zenon
    <2>2. expected_result(w.orders[i], x) \in Scalar
      BY <2>1, ResultScalar, Zenon
    <2>3. orders[i] = [w.orders[i] EXCEPT !.amount = expected_result(w.orders[i], x)]
      BY Zenon
    <2> HIDE DEF orders
    <2> QED
      BY <2>1, <2>2, <2>3 DEF OrderType
  <1>6. orders \in [1..MAX_ORDERS -> OrderType]
    <2>1. orders = [i \in 1..MAX_ORDERS |-> orders[i]]
      BY Zenon
    <2> HIDE DEF orders
    <2> QED
      BY <1>5, <2>1, Zenon
  <1>7. FAdd(w.randomness, 2) \in Scalar
    <2>1. w.randomness \in Int /\ 2 \in Int
      BY <1>1, ScalarNat
    <2> QED
      BY <2>1, FieldOps, Zenon
  <1> HIDE DEF balances, orders
  <1>8. post \in WalletType(o) /\ post.balances = balances /\ post.orders = orders
    BY <1>1, <1>3, <1>4, <1>6, <1>7, Zenon DEF WalletType, BalancesOK
  <1>9. MintsUnique(post.balances)
    BY <1>4, <1>8, SettleUnique, Zenon DEF validate_new_balances
  <1>10. \A i \in 1..MAX_ORDERS : GasFree(o, post.orders[i])
    <2> TAKE i \in 1..MAX_ORDERS
    <2>1. GasFree(o, w.orders[i])
      BY Zenon DEF WalletOK
    <2> QED
      BY <1>5, <1>8, <2>1, Zenon DEF GasFree
  <1> QED
    BY <1>8, <1>9, <1>10, Zenon DEF WalletOK

\* Settling a note keeps the invariant and is a step of the ledger.
LEMMA SettleStep ==
    ASSUME Inv, NEW o \in DOMAIN wallets, NEW n \in notes, SettleNote(o, n)
    PROVE  Inv' /\ [L!Next]_(L!vars)
  <1> DEFINE w == wallets[o]
             post == Settled(w, n.note)
  <1>1. /\ n.key = w.keys.pk_settle
        /\ (n.note.type_ = Match) <=> (MatchNullifier(w) \in nullifiers)
        /\ vault' = vault /\ proofs' = proofs /\ result' = result /\ updates' = updates
    BY Zenon DEF SettleNote, Settleable
  <1>2. \/ /\ SettleVerifies(o, n, post)
           /\ wallets' = [wallets EXCEPT ![o] = post]
           /\ nullifiers' = nullifiers \cup {SpendNullifier(w), MatchNullifier(w),
                                             RedeemNullifier(n)}
           /\ notes' = notes \ {n}
        \/ UNCHANGED <<wallets, nullifiers, notes>>
    BY Zenon DEF SettleNote
  <1>3. Good(wallets, notes, proofs, result, nullifiers)
    BY InvIs, Zenon
  <1>4. o \in Owners /\ WalletOK(o, w) /\ WalletsOK(wallets) /\ NoteOK(n.note)
    BY <1>3, Zenon DEF Good, WalletsOK, NotesOK
  <1>5. BalancesOK(w.balances) /\ w.keys.pk_settle = KeysOf(o).pk_settle
    BY <1>4, WalletParts, Zenon DEF WalletOK
  <1>6. CASE UNCHANGED <<wallets, nullifiers, notes>>
    <2>1. Inv'
      BY <1>1, <1>6, Zenon DEF Inv
    <2>2. \A m \in Mints : Total(wallets', notes', m) <= Total(wallets, notes, m)
      <3> TAKE m \in Mints
      <3>1. Total(wallets, notes, m) \in Nat
        BY TotalNat, Zenon DEF Inv
      <3> QED
        BY <1>6, <3>1
    <2> QED
      BY <1>1, <2>1, <2>2, MoveStep, Zenon
  <1>7. CASE /\ SettleVerifies(o, n, post)
             /\ wallets' = [wallets EXCEPT ![o] = post]
             /\ nullifiers' = nullifiers \cup {SpendNullifier(w), MatchNullifier(w),
                                               RedeemNullifier(n)}
             /\ notes' = notes \ {n}
    <2>1. validate_new_balances(post, w, n.note)
      <3> HIDE DEF post
      <3> QED
        BY <1>7 DEF SettleVerifies, ValidSettle
    <2>2. WalletOK(o, post)
      BY <1>4, <2>1, SettledOK, Zenon
    <2> HIDE DEF post
    <2>3. BalancesOK(post.balances)
      BY <2>2, WalletParts, Zenon DEF WalletOK
    <2>4. n.note.type_ = Match => \A m \in Mints : Holding(w, m) + NoteValue(n.note, m) >= 0
      <3> SUFFICES ASSUME n.note.type_ = Match
                   PROVE  \A m \in Mints : Holding(w, m) + NoteValue(n.note, m) >= 0
        OBVIOUS
      <3>1. PICK x \in DOMAIN wallets : BackedBy(x, n, wallets, nullifiers)
        BY <1>3, Zenon DEF Good, NotesOK
      <3>2. x \in Owners /\ KeysOf(x).pk_settle = KeysOf(o).pk_settle
        BY <1>1, <1>4, <1>5, <3>1, Zenon DEF BackedBy, WalletsOK
      <3>3. x = o
        BY <1>4, <3>2, KeyOwner, Zenon
      <3> QED
        BY <3>1, <3>3, Zenon DEF BackedBy
    <2>5. ~MatchFor(o, notes \ {n})
      <3>1. CASE n.note.type_ = Match
        <4>1. ASSUME NEW k \in notes \ {n}, k.note.type_ = Match, k.key = KeysOf(o).pk_settle
              PROVE  FALSE
          <5>1. k.key = n.key
            BY <1>1, <1>5, <4>1, Zenon
          <5> QED
            BY <1>3, <3>1, <4>1, <5>1, Zenon DEF Good, NotesOK
        <4> QED
          BY <4>1, Zenon DEF MatchFor
      <3>2. CASE n.note.type_ # Match
        <4>1. MatchNullifier(wallets[o]) \notin nullifiers
          BY <1>1, <3>2, Zenon
        <4>2. ~MatchFor(o, notes)
          BY <1>3, <4>1, NoMatchNote, Zenon
        <4> QED
          BY <4>2, Zenon DEF MatchFor
      <3> QED
        BY <3>1, <3>2
    <2>6. Inv'
      <3>1. /\ nullifiers \subseteq nullifiers' /\ MatchNullifier(wallets[o]) \in nullifiers'
            /\ notes \ {n} \in SUBSET notes
        BY <1>7, Zenon
      <3>2. Good([wallets EXCEPT ![o] = post], notes \ {n}, proofs, result, nullifiers')
        BY <1>3, <2>2, <2>5, <3>1, ReplaceKeeps, Zenon
      <3>3. Good(wallets', notes', proofs', result', nullifiers')
        BY <1>1, <1>7, <3>2, Zenon
      <3> QED
        BY <1>1, <3>3, InvIs, InvNext, Zenon
    <2>7. ASSUME NEW CONSTANT m \in Mints
          PROVE  Total(wallets', notes', m) <= Total(wallets, notes, m)
      <3>1. m \in Scalar /\ m # 0
        BY MintsNonzero
      <3>2. Worth(notes, m) \in Int /\ IsFiniteSet(notes)
            /\ \A k \in notes : NoteValue(k.note, m) \in Int
        BY <1>3, WorthInt, Zenon DEF Good
      <3>3. Holding(post, m) \in Nat /\ Holding(w, m) \in Nat
        BY <1>5, <2>3, HoldingIs, Zenon
      <3>4. NoteValue(n.note, m) \in Int /\ (n.note.type_ # Match => NoteValue(n.note, m) >= 0)
        BY <1>4, NoteValueInt, Zenon
      <3>5. Holding(w, m) + NoteValue(n.note, m) >= 0
        <4>1. CASE n.note.type_ = Match
          BY <2>4, <4>1, Zenon
        <4>2. CASE n.note.type_ # Match
          <5>1. NoteValue(n.note, m) >= 0
            BY <3>4, <4>2, Zenon
          <5> QED
            BY <3>3, <3>4, <5>1
        <4> QED
          BY <4>1, <4>2
      <3>6. Holding(post, m) <= Holding(w, m) + NoteValue(n.note, m)
        BY <1>4, <1>5, <2>1, <2>3, <3>1, <3>5, SettleHolding, Zenon
      <3>7. Adds(Holdings([wallets EXCEPT ![o] = post], m), Holdings(wallets, m),
                 Holding(post, m) - Holding(w, m))
        BY <1>4, <2>3, HoldingsReplaced, Zenon
      <3>8. /\ Worth(notes, m) = NoteValue(n.note, m) + Worth(notes \ {n}, m)
            /\ Worth(notes \ {n}, m) \in Int
        BY <3>2, WorthRemove, Zenon
      <3>9. /\ Total(wallets, notes, m) = Holdings(wallets, m) + Worth(notes, m)
            /\ Total(wallets', notes', m) = Holdings([wallets EXCEPT ![o] = post], m)
                                              + Worth(notes \ {n}, m)
        BY <1>7, Zenon DEF Total
      <3> HIDE DEF w
      <3> QED
        BY <3>3, <3>4, <3>6, <3>7, <3>8, <3>9 DEF Adds
    <2> QED
      BY <1>1, <2>6, <2>7, MoveStep, Zenon
  <1> QED
    BY <1>2, <1>6, <1>7, Zenon

-----------------------------------------------------------------------------
(* Steps that keep the wallets *)

\* A step that leaves wallets, notes and vault alone is a stutter of the ledger.
LEMMA StutterStep ==
    ASSUME wallets' = wallets, notes' = notes, vault' = vault
    PROVE  [L!Next]_(L!vars)
  <1>1. Claims' = Claims
    BY Zenon DEF Claims, ClaimsOn
  <1> QED
    BY <1>1 DEF L!vars

FoundFor(o, w, order, found) ==
    /\ found.order = order /\ order \in OrderType /\ found.fee = Fees[o][1]
    /\ \E i \in 1..MAX_BALANCES : found.balance = w.balances[i]
    /\ \E i \in 1..MAX_BALANCES : /\ w.balances[i].mint = found.fee.gas_addr
                                  /\ w.balances[i].amount >= found.fee.gas_token_amount
    /\ found.fee.gas_addr # found.balance.mint

\* What the relayer finds for an order of a wallet: a balance for what the order
\* sells, which is not the mint gas is paid in, and one for the gas.
LEMMA FoundOK ==
    ASSUME NEW o, NEW w, WalletOK(o, w), NEW order \in Range(w.orders),
           NEW found \in get_order_balance_and_fee(w, order)
    PROVE  FoundFor(o, w, order, found)
  <1> DEFINE sold == IF order.side = Buy THEN order.quote_mint ELSE order.base_mint
  <1>1. /\ BalancesOK(w.balances) /\ w.orders \in [1..MAX_ORDERS -> OrderType]
        /\ w.fees = Fees[o]
    BY WalletParts, Zenon DEF WalletOK
  <1>2. DOMAIN w.orders = 1..MAX_ORDERS /\ DOMAIN w.balances = 1..MAX_BALANCES
    BY <1>1, Zenon DEF BalancesOK
  <1>3. PICK j \in 1..MAX_ORDERS : order = w.orders[j]
    BY <1>2, Zenon DEF Range
  <1>4. order \in OrderType /\ GasFree(o, order)
    BY <1>1, <1>3, Zenon DEF WalletOK
  <1>5. PICK b \in Range(w.balances), g \in Range(w.balances) :
          /\ b.mint = sold /\ sold # 0
          /\ g.mint = w.fees[1].gas_addr /\ g.amount >= w.fees[1].gas_token_amount
          /\ found = [order |-> order, balance |-> b, fee |-> w.fees[1], fee_balance |-> g]
    <2> DEFINE held(mint) == {c \in Range(w.balances) : c.mint = mint /\ mint # 0}
               needed == IF order.side = Buy THEN (order.amount * order.price) \div 2^Precision
                         ELSE order.amount
               B == {c \in held(sold) : c.amount >= needed}
               G == {c \in held(w.fees[1].gas_addr) : c.amount >= w.fees[1].gas_token_amount}
    <2>1. found \in {[order |-> order, balance |-> b, fee |-> w.fees[1], fee_balance |-> g] :
                       b \in B, g \in G}
      BY DEF get_order_balance_and_fee
    <2>2. \E b \in B, g \in G :
             found = [order |-> order, balance |-> b, fee |-> w.fees[1], fee_balance |-> g]
      <3> HIDE DEF B, G
      <3> QED
        BY <2>1
    <2> QED
      BY <2>2, Zenon
  <1>6. found.order = order /\ found.fee = Fees[o][1] /\ found.balance = b
    BY <1>1, <1>5, Zenon
  <1>7. \E i \in 1..MAX_BALANCES : found.balance = w.balances[i]
    BY <1>2, <1>6, Zenon DEF Range
  <1>8. \E i \in 1..MAX_BALANCES : w.balances[i].mint = found.fee.gas_addr
                                   /\ w.balances[i].amount >= found.fee.gas_token_amount
    <2>1. PICK i \in 1..MAX_BALANCES : g = w.balances[i]
      BY <1>2, Zenon DEF Range
    <2> QED
      BY <1>1, <1>5, <1>6, <2>1, Zenon
  <1>9. Fees[o][1].gas_addr # sold
    BY <1>4, <1>5 DEF GasFree
  <1> QED
    BY <1>4, <1>5, <1>6, <1>7, <1>8, <1>9, Zenon DEF FoundFor

\* Proving a wallet's order keeps the invariant.
LEMMA InitializeStep ==
    ASSUME Inv, NEW o \in DOMAIN wallets, initialize_wallets(o)
    PROVE  Inv' /\ [L!Next]_(L!vars)
  <1> DEFINE w == wallets[o]
  <1>0. PICK order \in Range(wallets[o].orders) \ {ZeroOrder} :
          \E found \in get_order_balance_and_fee(wallets[o], order) :
            /\ proofs' = Put(proofs, o,
                             [wallet |-> w, order |-> found.order, balance |-> found.balance,
                              fee |-> found.fee, fee_balance |-> found.fee_balance,
                              randomness_hash |-> compute_poseidon_hash(w.randomness),
                              sk_match |-> Secrets[o].match])
            /\ UNCHANGED <<wallets, root, nullifiers, notes, vault, result, updates>>
    BY Zenon DEF initialize_wallets
  <1>1. PICK found \in get_order_balance_and_fee(wallets[o], order) :
          /\ proofs' = Put(proofs, o,
                           [wallet |-> w, order |-> found.order, balance |-> found.balance,
                            fee |-> found.fee, fee_balance |-> found.fee_balance,
                            randomness_hash |-> compute_poseidon_hash(w.randomness),
                            sk_match |-> Secrets[o].match])
          /\ UNCHANGED <<wallets, root, nullifiers, notes, vault, result, updates>>
    BY <1>0, Zenon
  <1> DEFINE a == [wallet |-> w, order |-> found.order, balance |-> found.balance,
                   fee |-> found.fee, fee_balance |-> found.fee_balance,
                   randomness_hash |-> compute_poseidon_hash(w.randomness),
                   sk_match |-> Secrets[o].match]
  <1>2. Good(wallets, notes, proofs, result, nullifiers)
    BY InvIs, Zenon
  <1>3. WalletOK(o, w)
    BY <1>2, Zenon DEF Good, WalletsOK
  <1>4. FoundFor(o, w, order, found)
    <2>1. order \in Range(wallets[o].orders)
      BY <1>0, Zenon
    <2> QED
      BY <1>1, <1>3, <2>1, FoundOK, Zenon
  <1>5. WitnessOK(o, a) /\ a.wallet = wallets[o]
    <2>1. /\ a.wallet = w /\ a.order = found.order /\ a.balance = found.balance
          /\ a.fee = found.fee
      BY Zenon
    <2> HIDE DEF a
    <2> QED
      BY <1>3, <1>4, <2>1, Zenon DEF WitnessOK, FoundFor
  <1> HIDE DEF a
  <1>6. DOMAIN proofs' = DOMAIN proofs \cup {o} /\ proofs'[o] = a
        /\ \A x \in DOMAIN proofs : x # o => proofs'[x] = proofs[x]
    BY <1>1, Zenon DEF Put, a
  <1>7. ProofsOK(proofs', wallets, nullifiers)
    <2>1. DOMAIN proofs' \subseteq DOMAIN wallets
      BY <1>2, <1>6, Zenon DEF Good, ProofsOK
    <2>2. ASSUME NEW x \in DOMAIN proofs'
          PROVE  WitnessOK(x, proofs'[x]) /\ Current(x, proofs'[x].wallet, wallets, nullifiers)
      <3>1. CASE x = o
        BY <1>5, <1>6, <3>1, Zenon DEF Current
      <3>2. CASE x # o
        BY <1>2, <1>6, <3>2, Zenon DEF Good, ProofsOK
      <3> QED
        BY <3>1, <3>2, Zenon
    <2> QED
      BY <2>1, <2>2, Zenon DEF ProofsOK
  <1>8. wallets' = wallets /\ notes' = notes /\ vault' = vault /\ nullifiers' = nullifiers
        /\ result' = result /\ updates' = updates
    BY <1>1, Zenon
  <1>9. Good(wallets', notes', proofs', result', nullifiers')
    BY <1>2, <1>7, <1>8, Zenon DEF Good
  <1>10. Inv'
    BY <1>8, <1>9, InvIs, InvNext, Zenon
  <1> QED
    BY <1>8, <1>10, StutterStep, Zenon

\* A party whose balance is in the mint sold and passes the range check is in
\* order, whichever wallet the witness is of.
LEMMA PartyMatched ==
    ASSUME NEW ws, NEW spent, WalletsOK(ws), NEW o \in DOMAIN ws, NEW a, WitnessOK(o, a),
           Current(o, a.wallet, ws, spent), NEW s, a.balance.mint = s.mint,
           constrain_greater_than_eq(a.balance.amount, s.amount, AmountBits),
           NEW used, MatchNullifier(a.wallet) \in used
    PROVE  PartyOK(o, ws[o].keys.pk_settle, a.fee, s, used, ws, spent)
  <1>1. ws[o].keys.pk_settle = KeysOf(o).pk_settle
    BY WalletParts, Zenon DEF WalletsOK, WalletOK
  <1>2. a.fee = Fees[o][1]
    BY Zenon DEF WitnessOK
  <1>3. CASE a.wallet = ws[o]
    <2>1. PICK i \in 1..MAX_BALANCES : a.balance = ws[o].balances[i]
      BY <1>3, Zenon DEF WitnessOK
    <2>2. a.fee.gas_addr # s.mint
      BY Zenon DEF WitnessOK
    <2>3. \E j \in 1..MAX_BALANCES : /\ ws[o].balances[j].mint = a.fee.gas_addr
                                     /\ ws[o].balances[j].amount >= a.fee.gas_token_amount
      BY <1>3, Zenon DEF WitnessOK
    <2>4. \E j \in 1..MAX_BALANCES :
            /\ ws[o].balances[j].mint = s.mint
            /\ constrain_greater_than_eq(ws[o].balances[j].amount, s.amount, AmountBits)
      BY <2>1, Zenon
    <2>5. Covers(ws[o], a.fee, s)
      BY <2>2, <2>3, <2>4, Zenon DEF Covers
    <2> QED
      BY <1>1, <1>2, <1>3, <2>5, Zenon DEF PartyOK
  <1>4. CASE MatchNullifier(a.wallet) \in spent
    <2>1. used \cap spent # {}
      BY <1>4, Zenon
    <2> QED
      BY <1>1, <1>2, <2>1, Zenon DEF PartyOK
  <1> QED
    BY <1>3, <1>4, Zenon DEF Current

\* Executing a match keeps the invariant.
LEMMA ExecuteStep ==
    ASSUME Inv, NEW o1 \in DOMAIN proofs, NEW o2 \in DOMAIN proofs, o1 # o2,
           execute_match_impl(o1, o2, proofs[o1], proofs[o2])
    PROVE  Inv' /\ [L!Next]_(L!vars)
  <1> DEFINE a == proofs[o1]
             b == proofs[o2]
             m == compute_match(a.order, b.order)
             s1 == Sold(m, m.direction)
             s2 == Sold(m, opposite(m.direction))
             used == {MatchNullifier(a.wallet), MatchNullifier(b.wallet)}
             res == build_handshake_result(o1, o2, a, b, m)
  <1>1. /\ Satisfied(matching_engine_check_single_prover(a.order, b.order, a.balance, b.balance, m))
        /\ result' = {res}
        /\ UNCHANGED <<wallets, root, nullifiers, notes, vault, proofs, verdict, updates>>
    BY Zenon DEF execute_match_impl, MatchOf, VerifierTrace
  <1>2. Good(wallets, notes, proofs, result, nullifiers)
    BY InvIs, Zenon
  <1>3. /\ WalletsOK(wallets) /\ o1 \in DOMAIN wallets /\ o2 \in DOMAIN wallets
        /\ WitnessOK(o1, a) /\ Current(o1, a.wallet, wallets, nullifiers)
        /\ WitnessOK(o2, b) /\ Current(o2, b.wallet, wallets, nullifiers)
    BY <1>2, Zenon DEF Good, ProofsOK
  <1>4. a.order \in OrderType /\ b.order \in OrderType
    BY <1>3, Zenon DEF WitnessOK
  <1>5. m.base_amount \in Scalar /\ m.quote_amount \in Scalar
    BY <1>4, MatchScalars, Zenon
  <1> HIDE DEF a, b, m
  <1>6. /\ m.quote_mint = a.order.quote_mint /\ m.base_mint = a.order.base_mint
        /\ m.direction = a.order.side
        /\ a.balance.mint = s1.mint /\ b.balance.mint = s2.mint
        /\ constrain_greater_than_eq(a.balance.amount, s1.amount, AmountBits)
        /\ constrain_greater_than_eq(b.balance.amount, s2.amount, AmountBits)
    <2>1. Satisfied(matching_engine_check_single_prover(a.order, b.order, a.balance, b.balance,
                                                        m))
      BY <1>1, Zenon
    <2>2. Sells(a.order, a.balance, b.balance, m)
      BY <1>4, <1>5, <2>1, TraceSells, Zenon
    <2> QED
      BY <2>2, Zenon DEF Sells
  <1>7. MatchOK(m)
    BY <1>4, <1>5, <1>6 DEF MatchOK, OrderType
  <1>8. MatchNullifier(a.wallet) \in used /\ MatchNullifier(b.wallet) \in used
    BY Zenon
  <1> HIDE DEF s1, s2, used
  <1>9. /\ PartyOK(o1, wallets[o1].keys.pk_settle, a.fee, s1, used, wallets, nullifiers)
        /\ PartyOK(o2, wallets[o2].keys.pk_settle, b.fee, s2, used, wallets, nullifiers)
    BY <1>3, <1>6, <1>8, PartyMatched, Zenon
  <1>10. /\ DOMAIN res = ResultFields /\ res.party0 = o1 /\ res.party1 = o2 /\ res.match_ = m
         /\ res.party0_fee = a.fee /\ res.party1_fee = b.fee /\ res.nullifiers = used
         /\ res.pk_settle0 = wallets[o1].keys.pk_settle
         /\ res.pk_settle1 = wallets[o2].keys.pk_settle
    BY Zenon DEF build_handshake_result, ResultFields, used
  <1> HIDE DEF res
  <1>11. ResultOK(res, wallets, nullifiers)
    BY <1>7, <1>9, <1>10, Zenon DEF ResultOK, s1, s2
  <1>12. wallets' = wallets /\ notes' = notes /\ vault' = vault /\ nullifiers' = nullifiers
         /\ proofs' = proofs /\ updates' = updates /\ result' = {res}
    BY <1>1
  <1>13. ResultsOK(result', wallets, nullifiers)
    BY <1>11, <1>12, Zenon DEF ResultsOK
  <1>14. Good(wallets', notes', proofs', result', nullifiers')
    BY <1>2, <1>12, <1>13, Zenon DEF Good
  <1>15. Inv'
    BY <1>12, <1>14, InvIs, InvNext, Zenon
  <1> QED
    BY <1>12, <1>15, StutterStep, Zenon

\* Submitting a match keeps the invariant.
LEMMA SubmitStep ==
    ASSUME Inv, NEW res \in result, NEW r, submit_match(res, r)
    PROVE  Inv' /\ [L!Next]_(L!vars)
  <1> DEFINE sent == [res EXCEPT !.submitted = TRUE]
  <1>1. /\ result' = {sent}
        /\ UNCHANGED <<wallets, root, nullifiers, notes, vault, proofs, updates>>
    BY Zenon DEF submit_match
  <1>2. Good(wallets, notes, proofs, result, nullifiers)
    BY InvIs, Zenon
  <1>3. ResultOK(res, wallets, nullifiers)
    BY <1>2, Zenon DEF Good, ResultsOK
  <1>4. DOMAIN res = ResultFields
    BY <1>3, Zenon DEF ResultOK
  <1>5. /\ DOMAIN sent = ResultFields /\ sent.party0 = res.party0 /\ sent.party1 = res.party1
        /\ sent.match_ = res.match_ /\ sent.party0_fee = res.party0_fee
        /\ sent.party1_fee = res.party1_fee /\ sent.nullifiers = res.nullifiers
        /\ sent.pk_settle0 = res.pk_settle0 /\ sent.pk_settle1 = res.pk_settle1
    BY <1>4 DEF ResultFields
  <1> HIDE DEF sent
  <1>6. ResultOK(sent, wallets, nullifiers)
    BY <1>3, <1>5, Zenon DEF ResultOK
  <1>7. wallets' = wallets /\ notes' = notes /\ vault' = vault /\ nullifiers' = nullifiers
        /\ proofs' = proofs /\ updates' = updates /\ result' = {sent}
    BY <1>1
  <1>8. ResultsOK(result', wallets, nullifiers)
    BY <1>6, <1>7, Zenon DEF ResultsOK
  <1>9. Good(wallets', notes', proofs', result', nullifiers')
    BY <1>2, <1>7, <1>8, Zenon DEF Good
  <1>10. Inv'
    BY <1>7, <1>9, InvIs, InvNext, Zenon
  <1> QED
    BY <1>7, <1>10, StutterStep, Zenon

\* A rejected match keeps the invariant.
LEMMA RejectStep ==
    ASSUME Inv, NEW res \in result, RejectMatch(res)
    PROVE  Inv' /\ [L!Next]_(L!vars)
  <1>1. wallets' = wallets /\ notes' = notes /\ vault' = vault /\ nullifiers' = nullifiers
        /\ proofs' = proofs /\ updates' = updates /\ result' = {}
    BY DEF RejectMatch
  <1>2. ResultsOK(result', wallets, nullifiers)
    BY <1>1, Zenon DEF ResultsOK
  <1>3. Good(wallets', notes', proofs', result', nullifiers')
    BY <1>1, <1>2, InvIs, Zenon DEF Good
  <1>4. Inv'
    BY <1>1, <1>3, InvIs, InvNext, Zenon
  <1> QED
    BY <1>1, <1>4, StutterStep, Zenon

-----------------------------------------------------------------------------
(* The notes of a match *)

FiveOf(x0, x1, x2, x3, x4) == {x0, x1, x2, x3, x4}

\* Five notes that are worth nothing together do not raise the worth of the
\* notes.
LEMMA FiveInserted ==
    ASSUME NEW ns, IsFiniteSet(ns), NEW m, NEW x0, NEW x1, NEW x2, NEW x3, NEW x4,
           \A n \in ns \cup FiveOf(x0, x1, x2, x3, x4) : NoteValue(n.note, m) \in Int,
           x0 \notin ns, x1 \notin ns, x0 # x1, NoteValue(x2.note, m) >= 0,
           NoteValue(x3.note, m) >= 0, NoteValue(x4.note, m) >= 0,
           NoteValue(x0.note, m) + NoteValue(x1.note, m) + NoteValue(x2.note, m)
              + NoteValue(x3.note, m) + NoteValue(x4.note, m) <= 0
    PROVE  Worth(ns \cup FiveOf(x0, x1, x2, x3, x4), m) <= Worth(ns, m)
  <1> DEFINE n0 == ns \cup {x0}
             n1 == n0 \cup {x1}
             n2 == n1 \cup {x2}
             n3 == n2 \cup {x3}
             n4 == n3 \cup {x4}
  <1>1. n4 = ns \cup FiveOf(x0, x1, x2, x3, x4)
    BY DEF FiveOf
  <1>2. \A n \in n4 : NoteValue(n.note, m) \in Int
    BY <1>1, Zenon
  <1>3. x1 \notin n0
    OBVIOUS
  <1>4. /\ Worth(n0, m) <= Worth(ns, m) + NoteValue(x0.note, m)
        /\ Worth(ns, m) \in Int /\ Worth(n0, m) \in Int /\ IsFiniteSet(n0)
    BY <1>2, WorthInsert, Zenon
  <1> HIDE DEF n0
  <1>5. /\ Worth(n1, m) <= Worth(n0, m) + NoteValue(x1.note, m)
        /\ Worth(n1, m) \in Int /\ IsFiniteSet(n1)
    BY <1>2, <1>3, <1>4, WorthInsert, Zenon
  <1> HIDE DEF n1
  <1>6. /\ Worth(n2, m) <= Worth(n1, m) + NoteValue(x2.note, m)
        /\ Worth(n2, m) \in Int /\ IsFiniteSet(n2)
    BY <1>2, <1>5, WorthInsert, Zenon
  <1> HIDE DEF n2
  <1>7. /\ Worth(n3, m) <= Worth(n2, m) + NoteValue(x3.note, m)
        /\ Worth(n3, m) \in Int /\ IsFiniteSet(n3)
    BY <1>2, <1>6, WorthInsert, Zenon
  <1> HIDE DEF n3
  <1>8. /\ Worth(n4, m) <= Worth(n3, m) + NoteValue(x4.note, m)
        /\ Worth(n4, m) \in Int
    BY <1>2, <1>7, WorthInsert, Zenon
  <1>9. /\ NoteValue(x0.note, m) \in Int /\ NoteValue(x1.note, m) \in Int
        /\ NoteValue(x2.note, m) \in Int /\ NoteValue(x3.note, m) \in Int
        /\ NoteValue(x4.note, m) \in Int
    BY Zenon DEF FiveOf
  <1> HIDE DEF n4
  <1>10. Worth(n4, m) <= Worth(ns, m)
    <2> DEFINE v(x) == NoteValue(x.note, m)
    <2>1. Worth(n2, m) <= Worth(ns, m) + v(x0) + v(x1) + v(x2)
      BY <1>4, <1>5, <1>6, <1>9, SMTT(30)
    <2>2. Worth(n4, m) <= Worth(n2, m) + v(x3) + v(x4)
      BY <1>6, <1>7, <1>8, <1>9, SMTT(30)
    <2>3. v(x0) + v(x1) + v(x2) + v(x3) + v(x4) <= 0
      OBVIOUS
    <2> QED
      BY <1>4, <1>6, <1>8, <1>9, <2>1, <2>2, <2>3
  <1> QED
    BY <1>1, <1>10, Zenon

\* A note takes no more than a party gives away, gas included.
TakesAtMost(note, s, fee) == \A c : NoteValue(note, c) >= -Given(s, c) - Gas(fee, c)
\* An owner can receive the note x of a match.
Ready(o, x, ws, ns, spent, used) ==
    o \in DOMAIN ws /\ BackedBy(o, x, ws, spent \cup used) /\ ~MatchFor(o, ns)

\* A party of a match whose nullifiers are unused has no match note yet, and its
\* wallet backs the new one.
LEMMA PartyBacked ==
    ASSUME NEW ws, NEW ns, NEW ps, NEW rs, NEW spent, Good(ws, ns, ps, rs, spent),
           NEW o, NEW key, NEW fee, NEW s, NEW used, PartyOK(o, key, fee, s, used, ws, spent),
           used \cap spent = {}, s.amount \in Scalar, U64(s.amount) = s.amount,
           NEW x, x.key = key, NoteOK(x.note),
           TakesAtMost(x.note, s, fee)
    PROVE  Ready(o, x, ws, ns, spent, used)
  <1>1. /\ o \in DOMAIN ws /\ key = KeysOf(o).pk_settle /\ fee = Fees[o][1]
        /\ MatchNullifier(ws[o]) \in used /\ Covers(ws[o], fee, s)
    BY Zenon DEF PartyOK
  <1>2. MatchNullifier(ws[o]) \notin spent
    BY <1>1, Zenon
  <1>3. ~MatchFor(o, ns)
    BY <1>1, <1>2, NoMatchNote, Zenon
  <1>4. WalletOK(o, ws[o]) /\ o \in Owners
    BY <1>1, Zenon DEF Good, WalletsOK
  <1>5. BalancesOK(ws[o].balances)
    BY <1>4, WalletParts, Zenon DEF WalletOK
  <1>6. FeeOK(fee)
    BY <1>1, <1>4, FeesFit, Zenon DEF FeeOK
  <1>7. ASSUME NEW c \in Mints PROVE Holding(ws[o], c) + NoteValue(x.note, c) >= 0
    <2>1. Holding(ws[o], c) >= Given(s, c) + Gas(fee, c)
      BY <1>1, <1>5, <1>6, CoversHolding, Zenon
    <2>2. Holding(ws[o], c) \in Nat
      BY <1>5, HoldingIs, Zenon
    <2>3. NoteValue(x.note, c) \in Int
      BY NoteValueInt, Zenon
    <2>4. Given(s, c) \in Nat
      BY ScalarNat DEF Given
    <2>5. Gas(fee, c) \in Nat
      <3>1. fee.gas_token_amount \in Nat
        BY <1>6, ScalarNat, Zenon DEF FeeOK
      <3>2. U64(fee.gas_token_amount) \in Nat
        BY <3>1, U64Nat, Zenon
      <3> QED
        BY <3>2 DEF Gas
    <2>6. NoteValue(x.note, c) >= -Given(s, c) - Gas(fee, c)
      BY Zenon DEF TakesAtMost
    <2> QED
      BY <2>1, <2>2, <2>3, <2>4, <2>5, <2>6
  <1>8. MatchNullifier(ws[o]) \in spent \cup used
    BY <1>1, Zenon
  <1>9. BackedBy(o, x, ws, spent \cup used)
    BY <1>1, <1>7, <1>8, Zenon DEF BackedBy
  <1> QED
    BY <1>1, <1>3, <1>9, Zenon DEF Ready

MatchNotes(x0, x1, x2, x3, x4) ==
    /\ \A x \in FiveOf(x0, x1, x2, x3, x4) : NoteOK(x.note)
    /\ x0.note.type_ = Match /\ x1.note.type_ = Match /\ x2.note.type_ # Match
    /\ x3.note.type_ # Match /\ x4.note.type_ # Match
Fresh(x0, x1, ns) == x0 \notin ns /\ x1 \notin ns /\ x0 # x1

\* Five notes of which two are of a match, for two owners without a match note,
\* keep the invariant.
LEMMA NotesKeep ==
    ASSUME NEW ws, NEW ns, NEW ps, NEW rs, NEW spent, Good(ws, ns, ps, rs, spent),
           NEW used, NEW o0, NEW o1, o0 # o1,
           NEW x0, NEW x1, NEW x2, NEW x3, NEW x4, MatchNotes(x0, x1, x2, x3, x4),
           Ready(o0, x0, ws, ns, spent, used), Ready(o1, x1, ws, ns, spent, used)
    PROVE  /\ Good(ws, ns \cup FiveOf(x0, x1, x2, x3, x4), ps, {}, spent \cup used)
           /\ Fresh(x0, x1, ns)
  <1> DEFINE five == FiveOf(x0, x1, x2, x3, x4)
             all == ns \cup five
             more == spent \cup used
  <1>0. \A x \in five : x.note.type_ = Match => x = x0 \/ x = x1
    BY Zenon DEF FiveOf, MatchNotes
  <1>1. WalletsOK(ws) /\ NotesOK(ns, ws, spent) /\ ProofsOK(ps, ws, spent)
    BY Zenon DEF Good
  <1>2. x0.key = KeysOf(o0).pk_settle /\ x1.key = KeysOf(o1).pk_settle
    BY Zenon DEF BackedBy, Ready
  <1>3. x0.key # x1.key
    <2>1. o0 \in Owners /\ o1 \in Owners
      BY <1>1, Zenon DEF WalletsOK, Ready
    <2> QED
      BY <1>2, <2>1, KeyOwner, Zenon
  <1>4. ASSUME NEW n \in ns, n.note.type_ = Match
        PROVE  n.key # x0.key /\ n.key # x1.key
    BY <1>2, <1>4, Zenon DEF MatchFor, Ready
  <1>5. x0 \notin ns /\ x1 \notin ns /\ x0 # x1
    BY <1>3, <1>4, Zenon DEF MatchNotes
  <1>6. IsFiniteSet(all)
    <2>1. IsFiniteSet(five)
      <3> DEFINE f1 == {x0} \cup {x1}
                 f2 == f1 \cup {x2}
                 f3 == f2 \cup {x3}
                 f4 == f3 \cup {x4}
      <3>1. five = f4
        BY DEF FiveOf
      <3>2. IsFiniteSet(f1)
        BY FS_Singleton, FS_AddElement, Zenon
      <3> HIDE DEF f1
      <3>3. IsFiniteSet(f2)
        BY <3>2, FS_AddElement, Zenon
      <3> HIDE DEF f2
      <3>4. IsFiniteSet(f3)
        BY <3>3, FS_AddElement, Zenon
      <3> HIDE DEF f3
      <3> QED
        BY <3>1, <3>4, FS_AddElement, Zenon
    <2> QED
      BY <1>1, <2>1, FS_Union, Zenon DEF NotesOK
  <1> HIDE DEF five
  <1>7. \A n \in all : NoteOK(n.note)
    BY <1>1, Zenon DEF NotesOK, MatchNotes, five
  <1>8. ASSUME NEW n \in all, n.note.type_ = Match
        PROVE  \E o \in DOMAIN ws : BackedBy(o, n, ws, more)
    <2>1. CASE n \in ns
      <3>1. PICK o \in DOMAIN ws : BackedBy(o, n, ws, spent)
        BY <1>1, <1>8, <2>1, Zenon DEF NotesOK
      <3>2. MatchNullifier(ws[o]) \in more
        BY <3>1, Zenon DEF BackedBy
      <3>3. BackedBy(o, n, ws, more)
        BY <3>1, <3>2, Zenon DEF BackedBy
      <3> QED
        BY <3>3, Zenon
    <2>2. CASE n \in five
      BY <1>0, <1>8, <2>2, Zenon DEF Ready
    <2> QED
      BY <2>1, <2>2
  <1>9. ASSUME NEW n1 \in all, NEW n2 \in all, n1.note.type_ = Match, n2.note.type_ = Match,
               n1.key = n2.key
        PROVE  n1 = n2
    <2>1. CASE n1 \in ns /\ n2 \in ns
      BY <1>1, <1>9, <2>1, Zenon DEF NotesOK
    <2>2. CASE n1 \in five /\ n2 \in five
      BY <1>0, <1>3, <1>9, <2>2, Zenon
    <2>3. CASE n1 \in ns /\ n2 \in five
      BY <1>0, <1>4, <1>9, <2>3, Zenon
    <2>4. CASE n1 \in five /\ n2 \in ns
      BY <1>0, <1>4, <1>9, <2>4, Zenon
    <2> QED
      BY <2>1, <2>2, <2>3, <2>4, Zenon
  <1> HIDE DEF all
  <1>10. NotesOK(all, ws, more)
    BY <1>6, <1>7, <1>8, <1>9, Zenon DEF NotesOK
  <1>11. ProofsOK(ps, ws, more)
    <2>1. ASSUME NEW o \in DOMAIN ps PROVE Current(o, ps[o].wallet, ws, more)
      BY <1>1, Zenon DEF ProofsOK, Current
    <2> QED
      BY <1>1, <2>1, Zenon DEF ProofsOK
  <1>12. ResultsOK({}, ws, more)
    BY Zenon DEF ResultsOK
  <1> QED
    BY <1>1, <1>5, <1>10, <1>11, <1>12, Zenon DEF Good, Fresh, all, five

\* Encumbering a match keeps the invariant and is a step of the ledger.
LEMMA EncumberStep ==
    ASSUME Inv, NEW res \in result, NEW r, EncumberMatch(res, r)
    PROVE  Inv' /\ [L!Next]_(L!vars)
  <1> DEFINE n == create_notes(res.match_, res)
             c0 == KeysOf(Cluster[res.party0]).pk_settle
             c1 == KeysOf(Cluster[res.party1]).pk_settle
             v == <<r[1], r[2], r[3], r[4], r[5], r[7], r[6], r[8], r[9]>>
             st == EncryptionStatement(res, n, c0, c1, r)
             ok == ValidMatchEncryption(EncryptionWitness(res, n, v), st)
             x0 == [note |-> n.party0, key |-> res.pk_settle0]
             x1 == [note |-> n.party1, key |-> res.pk_settle1]
             x2 == [note |-> n.relayer0, key |-> c0]
             x3 == [note |-> n.relayer1, key |-> c1]
             x4 == [note |-> n.protocol, key |-> PROTOCOL_SETTLE_KEY]
             five == FiveOf(x0, x1, x2, x3, x4)
  <1>1. /\ res.nullifiers \cap nullifiers = {}
        /\ IF ok THEN nullifiers' = nullifiers \cup res.nullifiers /\ notes' = notes \cup five
                 ELSE UNCHANGED <<nullifiers, root, notes>>
        /\ result' = {} /\ UNCHANGED <<wallets, vault, proofs, updates>>
    BY Zenon DEF EncumberMatch, FiveOf
  <1>2. /\ wallets' = wallets /\ vault' = vault /\ proofs' = proofs /\ updates' = updates
        /\ result' = {}
    BY <1>1, Zenon
  <1>3. Good(wallets, notes, proofs, result, nullifiers)
    BY InvIs, Zenon
  <1>4. CASE ~ok
    <2> HIDE DEF ok
    <2>1. notes' = notes /\ nullifiers' = nullifiers
      BY <1>1, <1>4, Zenon
    <2>2. ResultsOK(result', wallets, nullifiers)
      BY <1>2, Zenon DEF ResultsOK
    <2>3. Good(wallets', notes', proofs', result', nullifiers')
      BY <1>2, <1>3, <2>1, <2>2, Zenon DEF Good
    <2>4. Inv'
      BY <1>2, <2>3, InvIs, InvNext, Zenon
    <2> QED
      BY <1>2, <2>1, <2>4, StutterStep, Zenon
  <1>5. CASE ok
    <2> DEFINE m == res.match_
               s0 == Sold(m, m.direction)
               s1 == Sold(m, opposite(m.direction))
    <2>1. nullifiers' = nullifiers \cup res.nullifiers /\ notes' = notes \cup five
      <3> HIDE DEF ok, five
      <3> QED
        BY <1>1, <1>5, Zenon
    <2>2. /\ res.party0 # res.party1 /\ MatchOK(m)
          /\ PartyOK(res.party0, res.pk_settle0, res.party0_fee, s0, res.nullifiers, wallets,
                     nullifiers)
          /\ PartyOK(res.party1, res.pk_settle1, res.party1_fee, s1, res.nullifiers, wallets,
                     nullifiers)
      BY <1>3, Zenon DEF Good, ResultsOK, ResultOK
    <2>3. U64(m.base_amount) = m.base_amount /\ U64(m.quote_amount) = m.quote_amount
      <3>1. st.protocol_fee = PROTOCOL_FEE
        BY Zenon DEF EncryptionStatement
      <3> HIDE DEF n, st, v
      <3>2. n = create_notes(res.match_, res)
        BY DEF n
      <3> QED
        BY <1>5, <2>2, <3>1, <3>2, EncryptionWhole, Zenon
    <2>4. FeeOK(res.party0_fee) /\ FeeOK(res.party1_fee)
      <3>1. /\ res.party0 \in DOMAIN wallets /\ res.party0_fee = Fees[res.party0][1]
            /\ res.party1 \in DOMAIN wallets /\ res.party1_fee = Fees[res.party1][1]
        BY <2>2, Zenon DEF PartyOK
      <3>2. res.party0 \in Owners /\ res.party1 \in Owners
        BY <1>3, <3>1, Zenon DEF Good, WalletsOK
      <3> QED
        BY <3>1, <3>2, FeesFit, Zenon DEF FeeOK
    <2>5. /\ x0.note = n.party0 /\ x1.note = n.party1 /\ x2.note = n.relayer0
          /\ x3.note = n.relayer1 /\ x4.note = n.protocol
          /\ x0.key = res.pk_settle0 /\ x1.key = res.pk_settle1
      OBVIOUS
    <2>6. n = create_notes(m, res)
      OBVIOUS
    <2> HIDE DEF n, m, x0, x1, x2, x3, x4
    <2>7. /\ NoteOK(x0.note) /\ NoteOK(x1.note) /\ NoteOK(x2.note) /\ NoteOK(x3.note)
          /\ NoteOK(x4.note)
          /\ x0.note.type_ = Match /\ x1.note.type_ = Match
          /\ x2.note.type_ # Match /\ x3.note.type_ # Match /\ x4.note.type_ # Match
      BY <2>2, <2>4, <2>5, <2>6, MatchNotesOK, Zenon
    <2>8. \A x \in five : NoteOK(x.note)
      BY <2>7, Zenon DEF FiveOf
    <2>9. ASSUME NEW c
          PROVE  /\ NoteValue(x0.note, c) + NoteValue(x1.note, c) + NoteValue(x2.note, c)
                      + NoteValue(x3.note, c) + NoteValue(x4.note, c) <= 0
                 /\ NoteValue(x0.note, c) >= -Given(s0, c) - Gas(res.party0_fee, c)
                 /\ NoteValue(x1.note, c) >= -Given(s1, c) - Gas(res.party1_fee, c)
      <3>1. /\ NoteValue(n.party0, c) + NoteValue(n.party1, c) + NoteValue(n.relayer0, c)
                 + NoteValue(n.relayer1, c) + NoteValue(n.protocol, c) <= 0
            /\ NoteValue(n.party0, c) >= -Given(s0, c) - Gas(res.party0_fee, c)
            /\ NoteValue(n.party1, c) >= -Given(s1, c) - Gas(res.party1_fee, c)
        BY <2>2, <2>3, <2>4, <2>6, MatchNotesBalance, Zenon
      <3> QED
        BY <2>5, <3>1, Zenon
    <2>10. /\ s0.amount \in Scalar /\ U64(s0.amount) = s0.amount
           /\ s1.amount \in Scalar /\ U64(s1.amount) = s1.amount
      BY <2>2, <2>3, Zenon DEF Sold, MatchOK
    <2>11. res.nullifiers \cap nullifiers = {}
      BY <1>1, Zenon
    <2>12. TakesAtMost(x0.note, s0, res.party0_fee) /\ TakesAtMost(x1.note, s1, res.party1_fee)
      BY <2>9, Zenon DEF TakesAtMost
    <2> HIDE DEF s0, s1, five
    <2>13. Ready(res.party0, x0, wallets, notes, nullifiers, res.nullifiers)
      BY <1>3, <2>2, <2>5, <2>7, <2>10, <2>11, <2>12, PartyBacked, Zenon
    <2>14. Ready(res.party1, x1, wallets, notes, nullifiers, res.nullifiers)
      BY <1>3, <2>2, <2>5, <2>7, <2>10, <2>11, <2>12, PartyBacked, Zenon
    <2>15. /\ Good(wallets, notes \cup five, proofs, {}, nullifiers \cup res.nullifiers)
           /\ Fresh(x0, x1, notes)
      <3>1. MatchNotes(x0, x1, x2, x3, x4)
        BY <2>7, <2>8, Zenon DEF MatchNotes, five
      <3>2. /\ Good(wallets, notes \cup FiveOf(x0, x1, x2, x3, x4), proofs, {},
                    nullifiers \cup res.nullifiers)
            /\ Fresh(x0, x1, notes)
        BY <1>3, <2>2, <2>13, <2>14, <3>1, NotesKeep, Zenon
      <3> QED
        BY <3>2, Zenon DEF five
    <2>16. Good(wallets', notes', proofs', result', nullifiers')
      BY <1>2, <2>1, <2>15, Zenon
    <2>17. Inv'
      BY <1>2, <2>16, InvIs, InvNext, Zenon
    <2>18. ASSUME NEW c \in Mints
           PROVE  Total(wallets', notes', c) <= Total(wallets, notes, c)
      <3>1. /\ IsFiniteSet(notes) /\ Worth(notes, c) \in Int
            /\ \A x \in notes : NoteValue(x.note, c) \in Int
        BY <1>3, WorthInt, Zenon DEF Good
      <3>2. Worth(notes \cup five, c) \in Int
        BY <2>15, WorthInt, Zenon DEF Good
      <3>3. \A x \in notes \cup five : NoteValue(x.note, c) \in Int
        BY <2>8, <3>1, NoteValueInt, Zenon
      <3>4. /\ NoteValue(x2.note, c) >= 0 /\ NoteValue(x3.note, c) >= 0
            /\ NoteValue(x4.note, c) >= 0
        BY <2>7, NoteValueInt, Zenon
      <3>5. NoteValue(x0.note, c) + NoteValue(x1.note, c) + NoteValue(x2.note, c)
               + NoteValue(x3.note, c) + NoteValue(x4.note, c) <= 0
        BY <2>9, Zenon
      <3>6. Worth(notes \cup five, c) <= Worth(notes, c)
        BY <2>15, <3>1, <3>3, <3>4, <3>5, FiveInserted, Zenon DEF five, Fresh
      <3>7. Holdings(wallets, c) \in Int
        BY <1>3, HoldingsInt, Zenon DEF Good
      <3>8. /\ Total(wallets', notes', c) = Holdings(wallets, c) + Worth(notes \cup five, c)
            /\ Total(wallets, notes, c) = Holdings(wallets, c) + Worth(notes, c)
        BY <1>2, <2>1, Zenon DEF Total
      <3> QED
        BY <3>1, <3>2, <3>6, <3>7, <3>8
    <2> QED
      BY <1>2, <2>17, <2>18, MoveStep, Zenon
  <1> QED
    BY <1>4, <1>5, Zenon

-----------------------------------------------------------------------------
(* The theorems *)

\* The invariant holds initially.
LEMMA InitInv == Init => Inv
  <1> SUFFICES ASSUME Init PROVE Inv
    OBVIOUS
  <1>1. /\ wallets = <<>> /\ proofs = <<>> /\ nullifiers = {} /\ notes = {} /\ result = {}
        /\ vault = [m \in Mints |-> 0] /\ updates = [o \in Owners |-> 0]
    BY DEF Init
  <1>2. DOMAIN wallets = {} /\ DOMAIN proofs = {}
    BY <1>1
  <1>3. updates \in [Owners -> Nat] /\ vault \in [Mints -> Int]
    BY <1>1
  <1>4. IsFiniteSet(notes)
    BY <1>1, FS_EmptySet, Zenon
  <1>5. WalletsOK(wallets) /\ ProofsOK(proofs, wallets, nullifiers)
    BY <1>2, Zenon DEF WalletsOK, ProofsOK
  <1>6. NotesOK(notes, wallets, nullifiers) /\ ResultsOK(result, wallets, nullifiers)
    BY <1>1, <1>4, Zenon DEF NotesOK, ResultsOK
  <1> QED
    BY <1>3, <1>5, <1>6, Zenon DEF Inv

\* The darkpool starts as the ledger does.
LEMMA InitLedger == Init => L!Init
  <1> SUFFICES ASSUME Init PROVE L!Init
    OBVIOUS
  <1>1. wallets = <<>> /\ notes = {} /\ vault = [m \in Mints |-> 0]
    BY DEF Init
  <1>2. DOMAIN wallets = {}
    BY <1>1
  <1>3. ASSUME NEW CONSTANT m \in Mints PROVE ClaimsOn(m) = 0
    <2>1. ClaimsOn(m) = Total(wallets, notes, m)
      BY ClaimsAre, Zenon
    <2>2. Holdings(wallets, m) = 0
      BY <1>2, SumEmpty, Zenon DEF Holdings
    <2>3. Worth(notes, m) = 0
      BY <1>1, SumEmpty, Zenon DEF Worth
    <2> QED
      BY <2>1, <2>2, <2>3 DEF Total
  <1>4. Claims = [m \in Mints |-> 0]
    BY <1>3, Zenon DEF Claims
  <1> QED
    BY <1>1, <1>4 DEF L!Init

\* Every wallet update, with the old orders or with a new one, keeps the
\* invariant and is a step of the ledger.
LEMMA WalletUpdates ==
    ASSUME Inv, NEW CONSTANT o, o \in DOMAIN wallets, NEW CONSTANT t \in Transfers[o],
           \/ UpdateWallet(o, t, wallets[o].orders)
           \/ \E order \in NewOrders[o] :
              \E orders \in WithOrder(wallets[o], order, updates[o] + 1) :
                 UpdateWallet(o, t, orders)
    PROVE  Inv' /\ [L!Next]_(L!vars)
  <1>1. Good(wallets, notes, proofs, result, nullifiers) /\ updates \in [Owners -> Nat]
    BY InvIs, Zenon
  <1>2. WalletOK(o, wallets[o]) /\ o \in Owners
    BY <1>1, Zenon DEF Good, WalletsOK
  <1>3. OrdersOK(o, wallets[o].orders)
    BY <1>2, WalletParts, Zenon DEF WalletOK, OrdersOK
  <1>4. CASE UpdateWallet(o, t, wallets[o].orders)
    BY <1>3, <1>4, UpdateStep, Zenon
  <1>5. ASSUME NEW order \in NewOrders[o],
               NEW orders \in WithOrder(wallets[o], order, updates[o] + 1),
               UpdateWallet(o, t, orders)
        PROVE  Inv' /\ [L!Next]_(L!vars)
    <2>1. updates[o] + 1 \in Nat
      BY <1>1, <1>2
    <2>2. OrdersOK(o, orders)
      BY <1>2, <1>3, <2>1, OrdersPlaced, Zenon
    <2> QED
      BY <1>5, <2>2, UpdateStep, Zenon
  <1> QED
    BY <1>4, <1>5

\* Every step of the darkpool keeps the invariant and is one of the ledger.
LEMMA StepImplements ==
    ASSUME Inv, [Next]_vars
    PROVE  Inv' /\ [L!Next]_(L!vars)
  <1>1. CASE \E o \in Owners : prove_valid_wallet_create(o)
    BY <1>1, CreateStep, Zenon
  <1>2. CASE \E o \in DOMAIN wallets : \E t \in Transfers[o] :
               \/ UpdateWallet(o, t, wallets[o].orders)
               \/ \E order \in NewOrders[o] :
                  \E orders \in WithOrder(wallets[o], order, updates[o] + 1) :
                     UpdateWallet(o, t, orders)
    BY <1>2, WalletUpdates, Zenon
  <1>3. CASE \E o \in DOMAIN wallets : initialize_wallets(o)
    BY <1>3, InitializeStep, Zenon
  <1>4. CASE \E o1, o2 \in DOMAIN proofs :
               o1 # o2 /\ execute_match_impl(o1, o2, proofs[o1], proofs[o2])
    BY <1>4, ExecuteStep, Zenon
  <1>5. CASE \E res \in result, r \in ElGamalDraws : submit_match(res, r) \/ EncumberMatch(res, r)
    BY <1>5, SubmitStep, EncumberStep, Zenon
  <1>6. CASE \E res \in result : RejectMatch(res)
    BY <1>6, RejectStep, Zenon
  <1>7. CASE \E o \in DOMAIN wallets : \E n \in notes : SettleNote(o, n)
    BY <1>7, SettleStep, Zenon
  <1>8. CASE UNCHANGED vars
    <2>1. /\ wallets' = wallets /\ notes' = notes /\ vault' = vault /\ proofs' = proofs
          /\ nullifiers' = nullifiers /\ result' = result /\ updates' = updates
      BY <1>8 DEF vars
    <2>2. Inv'
      BY <2>1, InvIs, InvNext, Zenon
    <2> QED
      BY <2>1, <2>2, StutterStep, Zenon
  <1> QED
    BY <1>1, <1>2, <1>3, <1>4, <1>5, <1>6, <1>7, <1>8, Zenon DEF Next

\* In every state: wallets hold unique mints; the witness of a VALID COMMITMENTS
\* proof and the parties of a match are of the current wallets, or a nullifier
\* tells the contract they are not; and every unredeemed match note is its
\* owner's only one, for a wallet that is encumbered and holds all it takes.
THEOREM DarkpoolInvariant == Spec => []Inv
  <1>1. Inv /\ [Next]_vars => Inv'
    BY StepImplements, Zenon
  <1> QED
    BY InitInv, <1>1, PTL DEF Spec

\* The circuits and the contract implement the ledger: whatever the owners, fees,
\* transfers and orders, no sequence of updates, matches and settlements raises
\* what users can claim of a mint, deposits aside.
THEOREM DarkpoolImplementsLedger == Spec => ImplementsLedger
  <1>1. Inv /\ [Next]_vars => [L!Next]_(L!vars)
    BY StepImplements, Zenon
  <1> QED
    BY InitLedger, DarkpoolInvariant, <1>1, PTL DEF Spec, ImplementsLedger, L!Spec

-----------------------------------------------------------------------------
(* Solvency *)

\* Solvency with the types of the two accounts: what a step of the ledger preserves
Accounts == vault \in [Mints -> Nat] /\ Claims \in [Mints -> Nat] /\ L!Solvent

\* A deposit keeps the accounts of the ledger.
LEMMA DepositSolvent ==
    ASSUME Accounts, NEW m \in Mints, NEW v \in Nat, L!Deposit(m, v)
    PROVE  Accounts'
  <1>1. vault' \in [Mints -> Nat]
    BY DEF L!Deposit, Accounts
  <1>2. Claims' \in [Mints -> Nat]
    BY Zenon DEF L!Deposit, L!ClaimsGrowBy
  <1>3. ASSUME NEW n \in Mints PROVE Claims'[n] <= vault'[n]
    <2>1. /\ Claims'[n] <= Claims[n] + (IF n = m THEN v ELSE 0)
          /\ vault'[n] = vault[n] + (IF n = m THEN v ELSE 0)
      BY DEF L!Deposit, L!ClaimsGrowBy, Accounts
    <2>2. /\ Claims[n] <= vault[n] /\ Claims[n] \in Nat /\ vault[n] \in Nat
          /\ Claims'[n] \in Nat
      BY <1>2 DEF Accounts, L!Solvent
    <2> QED
      BY <2>1, <2>2
  <1> QED
    BY <1>1, <1>2, <1>3, Zenon DEF Accounts, L!Solvent

\* A withdrawal keeps the accounts of the ledger.
LEMMA WithdrawSolvent ==
    ASSUME Accounts, NEW m \in Mints, NEW v \in Nat, L!Withdraw(m, v)
    PROVE  Accounts'
  <1>1. vault[m] - v \in Nat
    <2>1. v <= Claims[m] /\ Claims[m] <= vault[m] /\ Claims[m] \in Nat /\ vault[m] \in Nat
      BY DEF L!Withdraw, Accounts, L!Solvent
    <2> QED
      BY <2>1
  <1>2. vault' \in [Mints -> Nat]
    BY <1>1 DEF L!Withdraw, Accounts
  <1>3. Claims' \in [Mints -> Nat]
    BY Zenon DEF L!Withdraw, L!ClaimsGrowBy
  <1>4. ASSUME NEW n \in Mints PROVE Claims'[n] <= vault'[n]
    <2>1. /\ Claims'[n] <= Claims[n] + (IF n = m THEN -v ELSE 0)
          /\ vault'[n] = vault[n] - (IF n = m THEN v ELSE 0)
      BY DEF L!Withdraw, L!ClaimsGrowBy, Accounts
    <2>2. /\ Claims[n] <= vault[n] /\ Claims[n] \in Nat /\ vault[n] \in Nat
          /\ Claims'[n] \in Nat
      BY <1>3 DEF Accounts, L!Solvent
    <2> QED
      BY <2>1, <2>2
  <1> QED
    BY <1>2, <1>3, <1>4, Zenon DEF Accounts, L!Solvent

\* A move keeps the accounts of the ledger.
LEMMA MoveSolvent ==
    ASSUME Accounts, L!Move
    PROVE  Accounts'
  <1>1. vault' = vault /\ Claims' \in [Mints -> Nat]
    BY DEF L!Move
  <1>2. ASSUME NEW n \in Mints PROVE Claims'[n] <= vault'[n]
    <2>1. Claims'[n] <= Claims[n] /\ vault'[n] = vault[n]
      BY DEF L!Move
    <2>2. /\ Claims[n] <= vault[n] /\ Claims[n] \in Nat /\ vault[n] \in Nat
          /\ Claims'[n] \in Nat
      BY <1>1 DEF Accounts, L!Solvent
    <2> QED
      BY <2>1, <2>2
  <1> QED
    BY <1>1, <1>2, Zenon DEF Accounts, L!Solvent

\* In every behaviour the ledger allows, the vault covers the claims on every mint.
THEOREM LedgerSolvent == ImplementsLedger => []L!Solvent
  <1>1. L!Init => Accounts
    BY DEF L!Init, Accounts, L!Solvent
  <1>2. Accounts /\ [L!Next]_(L!vars) => Accounts'
    <2> SUFFICES ASSUME Accounts, [L!Next]_(L!vars) PROVE Accounts'
      OBVIOUS
    <2>1. CASE L!Move
      BY <2>1, MoveSolvent, Zenon
    <2>2. ASSUME NEW m \in Mints, NEW v \in 1..(2^AmountBits), L!Deposit(m, v) \/ L!Withdraw(m, v)
          PROVE  Accounts'
      <3>1. v \in Nat
        BY Widths
      <3> QED
        BY <2>2, <3>1, DepositSolvent, WithdrawSolvent, Zenon
    <2>3. CASE UNCHANGED L!vars
      <3>1. vault' = vault /\ Claims' = Claims
        BY <2>3 DEF L!vars
      <3> QED
        BY <3>1, Zenon DEF Accounts, L!Solvent
    <2> QED
      BY <2>1, <2>2, <2>3, Zenon DEF L!Next
  <1>3. Accounts => L!Solvent
    BY DEF Accounts
  <1> QED
    BY <1>1, <1>2, <1>3, PTL DEF ImplementsLedger, L!Spec

\* The contract can always pay every wallet and every unredeemed note: no mint is
\* owed more than the vault holds.
THEOREM DarkpoolSolvent == Spec => []L!Solvent
  BY DarkpoolImplementsLedger, LedgerSolvent, PTL
============================================================================
