------------------------------- MODULE Sponge -------------------------------
(***************************************************************************)
(* The Poseidon sponge.  The code has three of them: the constraint system *)
(* gadget, its collaborative variant (both zk_gadgets/poseidon.rs) and the *)
(* hasher over shared values (mpc_gadgets/poseidon.rs).  A sponge is its   *)
(* state, the index of the next element to write or read, and whether it   *)
(* has been squeezed.  An absorb into a squeezed sponge asserts.           *)
(***************************************************************************)
EXTENDS ZkGadgets, SequencesExt

CONSTANTS Alpha, Rate, Capacity, FullRounds, PartialRounds,
          RoundConstants,    \* a row per round
          MdsMatrix          \* a row per state element

Width == Rate + Capacity

\* What PoseidonSpongeParameters::new asserts
ASSUME SpongeParameters ==
    /\ FullRounds % 2 = 0
    /\ Len(RoundConstants) = FullRounds + PartialRounds
    /\ \A r \in 1..Len(RoundConstants) : Len(RoundConstants[r]) = Width
    /\ Len(MdsMatrix) = Width
    /\ \A i \in 1..Width : Len(MdsMatrix[i]) = Width

get_round_constant(r) == RoundConstants[r]

NewSponge == [state |-> [i \in 1..Width |-> 0], next_index |-> 0, squeezing |-> FALSE]

-----------------------------------------------------------------------------
(* One round: add the constants, raise to the power Alpha (every element in *)
(* a full round, the first one in a partial round), multiply by the matrix. *)

add_round_constants(s, r) == [i \in 1..Width |-> FAdd(s[i], get_round_constant(r)[i])]
apply_mds(s) == [i \in 1..Width |-> FSum([j \in 1..Width |-> FMul(MdsMatrix[i][j], s[j])])]
apply_sbox(s, full) ==
    [i \in 1..Width |-> IF full \/ i = 1 THEN Exp(s[i], Alpha) ELSE s[i]]
Multiprover_apply_sbox(s, full) ==
    [i \in 1..Width |-> IF full \/ i = 1 THEN MultiproverExp(s[i], Alpha) ELSE s[i]]

scalar_exp(x, a) ==
    LET exp[k \in Nat] == IF k = 0 THEN 1
                          ELSE IF k = 1 THEN x
                          ELSE LET r == exp[k \div 2]
                               IN  IF k % 2 = 1 THEN FMul(FMul(r, r), x) ELSE FMul(r, r)
    IN  exp[a]
Hasher_apply_sbox(s, full) ==
    [i \in 1..Width |-> IF full \/ i = 1 THEN scalar_exp(s[i], Alpha) ELSE s[i]]

\* Half of the full rounds, the partial rounds, the other half
FullRound(r) == r <= FullRounds \div 2 \/ r > FullRounds \div 2 + PartialRounds
Rounds(state, sbox(_, _)) ==
    LET after[r \in 0..(FullRounds + PartialRounds)] ==
            IF r = 0 THEN state
            ELSE Apply(LAMBDA s : apply_mds(sbox(add_round_constants(s, r), FullRound(r))),
                       after[r - 1])
    IN  after[FullRounds + PartialRounds]

permute(sp) == [sp EXCEPT !.state = Rounds(@, apply_sbox), !.next_index = 0]
Multiprover_permute(sp) == [sp EXCEPT !.state = Rounds(@, Multiprover_apply_sbox), !.next_index = 0]
Hasher_permute(sp) == [sp EXCEPT !.state = Rounds(@, Hasher_apply_sbox), !.next_index = 0]

-----------------------------------------------------------------------------
(* Absorbing and squeezing *)

Absorbed(sp, a) == [sp EXCEPT !.state[Capacity + sp.next_index + 1] = FAdd(@, a),
                              !.next_index = @ + 1]
absorb(sp, a) == Absorbed(IF sp.next_index = Rate THEN permute(sp) ELSE sp, a)
Multiprover_absorb(sp, a) ==
    Absorbed(IF sp.next_index = Rate THEN Multiprover_permute(sp) ELSE sp, a)
Hasher_absorb(sp, a) ==
    Absorbed(IF sp.next_index = Rate THEN Hasher_permute(sp) ELSE sp, a)

batch_absorb(sp, as) == FoldLeft(absorb, sp, as)
Multiprover_batch_absorb(sp, as) == FoldLeft(Multiprover_absorb, sp, as)
absorb_batch(sp, as) == FoldLeft(Hasher_absorb, sp, as)

MustPermute(sp) == ~sp.squeezing \/ sp.next_index = Rate

\* The gadgets read the element at the index and leave the index alone; the
\* hasher moves it on
SqueezeUnpermuted(sp) ==
    LET s == [sp EXCEPT !.squeezing = TRUE, !.next_index = 0]
    IN  [sponge |-> s, out |-> s.state[Capacity + 1]]
squeeze(sp) ==
    LET s == IF MustPermute(sp) THEN [permute(sp) EXCEPT !.squeezing = TRUE] ELSE sp
    IN  [sponge |-> s, out |-> s.state[Capacity + s.next_index + 1]]
Multiprover_squeeze(sp) ==
    LET s == IF MustPermute(sp) THEN [Multiprover_permute(sp) EXCEPT !.squeezing = TRUE] ELSE sp
    IN  [sponge |-> s, out |-> s.state[Capacity + s.next_index + 1]]
Hasher_squeeze(sp) ==
    LET s == IF MustPermute(sp) THEN [Hasher_permute(sp) EXCEPT !.squeezing = TRUE] ELSE sp
    IN  [sponge |-> [s EXCEPT !.next_index = @ + 1],
         out |-> s.state[Capacity + s.next_index + 1]]

\* Absorb a whole input and constrain what is squeezed to a value
PoseidonHash(input, expected) == squeeze(batch_absorb(NewSponge, input)).out = expected
MultiproverPoseidonHash(input, expected) ==
    Multiprover_squeeze(Multiprover_batch_absorb(NewSponge, input)).out = expected

-----------------------------------------------------------------------------
(* Merkle openings (zk_gadgets/merkle.rs) *)

leaf_hash(values) == squeeze(batch_absorb(NewSponge, values)).out
hash_internal_nodes(left, right) == squeeze(batch_absorb(NewSponge, <<left, right>>)).out

\* A selector of zero puts the current node on the left
SelectSwapped(current, sister, lr) ==
    LET left == FAdd(FMul(sister, FSub(1, lr)), FMul(current, lr))
    IN  <<left, FSub(FAdd(current, sister), left)>>
select_left_right(current, sister, lr) ==
    LET left == FAdd(FMul(current, FSub(1, lr)), FMul(sister, lr))
    IN  <<left, FSub(FAdd(current, sister), left)>>

compute_root_prehashed(leaf, elems, indices) ==
    LET up(current, step) == LET c == select_left_right(current, step[1], step[2])
                             IN  hash_internal_nodes(c[1], c[2])
    IN  FoldLeft(up, leaf, [i \in 1..Len(elems) |-> <<elems[i], indices[i]>>])
compute_root(leaf_data, elems, indices) ==
    compute_root_prehashed(leaf_hash(leaf_data), elems, indices)
compute_and_constrain_root(leaf_data, elems, indices, root) ==
    compute_root(leaf_data, elems, indices) = root
compute_and_constrain_root_prehashed(leaf, elems, indices, root) ==
    compute_root_prehashed(leaf, elems, indices) = root
============================================================================
