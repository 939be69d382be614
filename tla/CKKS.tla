-------------------------------- MODULE CKKS --------------------------------
(***************************************************************************)
(* The CKKS primitive adapter (spec section 4.1).  The SEAL library itself *)
(* is external, so a ciphertext is abstracted to what the modulus and      *)
(* scale management of this repository reads and changes: its position in *)
(* the modulus chain, its scale, and the slot vector it decrypts to.       *)
(*                                                                         *)
(* A scale is Delta^mul divided by the chain primes dropped at the levels  *)
(* in "by".  The chain primes are close to Delta but not equal to it, so   *)
(* two scales are equal only when both parts agree, and close (within the  *)
(* epsilon of the spec) when their magnitudes mul - |by| agree.            *)
(***************************************************************************)
EXTENDS Integers, Sequences, FiniteSets

CONSTANT TopLevel   \* chain index of first_parms_id: data primes - 1

ASSUME TopLevel \in Nat

Levels == 0..TopLevel

Scale(m, b) == [mul |-> m, by |-> b]

\* The default encoding scale, Delta.
Nominal == Scale(1, {})

Magnitude(s) == s.mul - Cardinality(s.by)

\* HESealBackend::create_empty_ciphertext(): parms_id_zero, no data.
EmptyCiphertext ==
    [empty |-> TRUE, level |-> 0, scale |-> Scale(0, {}), vals |-> <<>>,
     garbage |-> FALSE]

Ciphertext(l, s, v) ==
    [empty |-> FALSE, level |-> l, scale |-> s, vals |-> v, garbage |-> FALSE]

\* encode at first_parms_id with the default scale, then encrypt.
Encrypt(v) == Ciphertext(TopLevel, Nominal, v)

\* mod_switch_to_inplace(c, parms_id of level l): drops primes, keeps scale.
ModSwitchTo(c, l) == [c EXCEPT !.level = l]

\* rescale_to_next_inplace(c): divides by the last prime of c's level.
RescaleToNext(c) ==
    [c EXCEPT !.level = @ - 1, !.scale = Scale(@.mul, @.by \cup {c.level})]

\* multiply_plain by a plaintext encoded at c's scale: the scale is squared.
MultiplyPlainScale(c) == [c EXCEPT !.scale = Scale(@.mul + 1, @.by)]

VecAdd(u, v) == [i \in DOMAIN u |-> u[i] + v[i]]

\* A plaintext vector as the batch of n slots it stands for: size 0 is the
\* additive identity, size 1 is a scalar broadcast, otherwise the vector
\* padded with zero slots (what CKKS encode does with a short vector).
PlainDecode(p, n) ==
    [i \in 1..n |-> CASE Len(p) = 0 -> 0
                      [] Len(p) = 1 -> p[1]
                      [] OTHER      -> IF i <= Len(p) THEN p[i] ELSE 0]

\* Evaluator::add requires both operands at the same parms_id and with the
\* same scale; it throws otherwise.
CanAdd(a, b) ==
    /\ ~a.empty /\ ~b.empty
    /\ a.level = b.level
    /\ a.scale = b.scale

Add(a, b) ==
    [a EXCEPT !.vals = VecAdd(@, b.vals), !.garbage = @ \/ b.garbage]

\* Evaluator::add_plain with a plaintext encoded at a's parms_id and scale.
AddPlain(a, p) == [a EXCEPT !.vals = VecAdd(@, PlainDecode(p, Len(@)))]

\* Decryption gives back the slots when the scale still carries at least one
\* factor Delta; at magnitude 0 the encryption noise swamps the message.
DecryptsTo(c, v) ==
    /\ ~c.empty
    /\ ~c.garbage
    /\ Magnitude(c.scale) >= 1
    /\ c.vals = v
=============================================================================
