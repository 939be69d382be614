---------------------------- MODULE MatchModulus ----------------------------
(***************************************************************************)
(* The scenario of the unit test seal_util.match_modulus_and_scale_inplace *)
(* (src/unnamed/part_000, lines 113-181), generalised: two ciphertexts of  *)
(* the same plaintext are encrypted at first_parms_id, each then goes      *)
(* through any sequence of modulus operations (mod_switch or rescale to    *)
(* next, or a multiply by one followed by a rescale), the pair is matched *)
(* in either argument order, and both are decrypted.  The test runs one   *)
(* operation per ciphertext and has its Rescale cases disabled.            *)
(***************************************************************************)
EXTENDS ModulusChain

CONSTANTS
    Ops,    \* modulus operations applied: "ModSwitch", "Rescale", "MultiplyRescale"
    Plain   \* the plaintext encrypted in both ciphertexts

VARIABLES cipher1, cipher2, pc, err

vars == <<cipher1, cipher2, pc, err>>

Ciphers == {1, 2}

Get(k) == IF k = 1 THEN cipher1 ELSE cipher2

\* Assign a new value to cipher k, leaving the other one alone.
Set(k, c) ==
    IF k = 1 THEN cipher1' = c /\ UNCHANGED cipher2
             ELSE cipher2' = c /\ UNCHANGED cipher1

\* encrypt(cipher, plain, first_parms_id, f32, scale, ...) for both.
Init ==
    /\ cipher1 = Encrypt(Plain)
    /\ cipher2 = Encrypt(Plain)
    /\ pc = "modulus_op"
    /\ err = "none"

\* Mutant: no end-of-chain check before the operation.
PerformModulusOperationUnchecked(k, op) ==
    /\ pc = "modulus_op"
    /\ op \in Ops
    /\ Set(k, CASE op = "Rescale"   -> RescaleToNext(Get(k))
                [] op = "ModSwitch" -> ModSwitchTo(Get(k), Get(k).level - 1)
                [] OTHER -> RescaleToNext(MultiplyPlainScale(Get(k))))
    /\ UNCHANGED <<pc, err>>

\* perform_modulus_operation(op, ciphertext): rescale_to_next_inplace or
\* mod_switch_to_next_inplace; SEAL throws at the end of the chain.  The
\* scenario adds "MultiplyRescale", a multiply_plain by 1 at the ciphertext's
\* scale followed by rescale_to_next_inplace, which leaves the scale close
\* to, but not equal to, the nominal one.
PerformModulusOperation(k, op) ==
    /\ pc = "modulus_op"
    /\ op \in Ops
    /\ IF Get(k).level = 0
       THEN err' = "EndOfChain" /\ pc' = "failed" /\ UNCHANGED <<cipher1, cipher2>>
       ELSE /\ Set(k, CASE op = "Rescale"   -> RescaleToNext(Get(k))
                         [] op = "ModSwitch" -> ModSwitchTo(Get(k), Get(k).level - 1)
                         [] OTHER -> RescaleToNext(MultiplyPlainScale(Get(k))))
            /\ UNCHANGED <<pc, err>>

\* match_modulus_and_scale_inplace(*cipher2, *cipher1) when reverse_args,
\* else (*cipher1, *cipher2).
Match(reverse) ==
    /\ pc = "modulus_op"
    /\ LET m == IF reverse THEN MatchModulusAndScale(cipher2, cipher1)
                           ELSE MatchModulusAndScale(cipher1, cipher2)
       IN /\ cipher1' = IF reverse THEN m.b ELSE m.a
          /\ cipher2' = IF reverse THEN m.a ELSE m.b
          /\ err' = m.err
          /\ pc' = IF m.err = "none" THEN "check" ELSE "failed"

\* check_decryption(*cipher1); check_decryption(*cipher2).
CheckDecryption ==
    /\ pc = "check"
    /\ pc' = "done"
    /\ err' = IF DecryptsTo(cipher1, Plain) /\ DecryptsTo(cipher2, Plain)
              THEN "none" ELSE "WrongDecryption"
    /\ UNCHANGED <<cipher1, cipher2>>

Next ==
    \/ \E k \in Ciphers, op \in Ops : PerformModulusOperation(k, op)
    \/ \E reverse \in BOOLEAN : Match(reverse)
    \/ CheckDecryption

Spec == Init /\ [][Next]_vars

-----------------------------------------------------------------------------
TypeOK ==
    /\ \A k \in Ciphers : Get(k) \in [empty : {FALSE}, level : Levels,
            scale : [mul : Nat, by : SUBSET Levels], vals : {Plain},
            garbage : BOOLEAN]
    /\ pc \in {"modulus_op", "check", "done", "failed"}

(* Scale preservation (spec 8.2): once match_modulus_and_scale_inplace has *)
(* returned, the two ciphertexts sit at the same chain index with the same *)
(* scale, so Evaluator::add accepts them, whatever modulus operations each *)
(* went through before and in whichever order the test passed them.       *)
MatchedAreAddable == pc \in {"check", "done"} => CanAdd(cipher1, cipher2)

(* Matching changes only the representation: after it both ciphertexts     *)
(* still decrypt to the plaintext (the test's check_decryption), and it    *)
(* fails only when no operand can be rescaled.                             *)
MatchPreservesPlain ==
    /\ pc = "done" => err = "none"
    /\ pc = "failed" => err \in {"EndOfChain", "ChainExhausted"}
=============================================================================
