---------------------------- MODULE ModulusChain ----------------------------
(***************************************************************************)
(* The modulus-chain manager (spec section 4.2): pure functions that make  *)
(* two CKKS operands compatible for addition.  Its source (seal_util.cpp)  *)
(* is not part of this tree, so it is modelled from the spec.              *)
(***************************************************************************)
EXTENDS CKKS

LOCAL INSTANCE FiniteSetsExt

\* Mutant: only the first operand is mod-switched down.
MatchSwitchesFirstOnly(a, b) ==
    LET l  == Min({a.level, b.level})
        a1 == ModSwitchTo(a, l)
        ma == Magnitude(a1.scale)
        mb == Magnitude(b.scale)
        Ok(x, y)  == [a |-> x, b |-> y, err |-> "none"]
    IN CASE a1.scale = b.scale -> Ok(a1, b)
         [] ma = mb             -> Ok([a1 EXCEPT !.scale = b.scale], b)
         [] ma = mb + 1 /\ l > 0 -> Ok(RescaleToNext(a1), b)
         [] mb = ma + 1 /\ l > 0 -> Ok(a1, RescaleToNext(b))
         [] OTHER               -> [a |-> a1, b |-> b, err |-> "ScaleMismatch"]

\* Mutant: no tolerance for a scale that drifted by less than a prime.
MatchExactScalesOnly(a, b) ==
    LET l  == Min({a.level, b.level})
        a1 == ModSwitchTo(a, l)
        b1 == ModSwitchTo(b, l)
        ma == Magnitude(a1.scale)
        mb == Magnitude(b1.scale)
        Ok(x, y)  == [a |-> x, b |-> y, err |-> "none"]
        Err(e)    == [a |-> a1, b |-> b1, err |-> e]
    IN CASE a1.scale = b1.scale -> Ok(a1, b1)
         [] ma = mb + 1 /\ l > 0 -> Ok(RescaleToNext(a1), b1)
         [] mb = ma + 1 /\ l > 0 -> Ok(a1, RescaleToNext(b1))
         [] ma = mb + 1 \/ mb = ma + 1 -> Err("ChainExhausted")
         [] OTHER               -> Err("ScaleMismatch")

\* match_modulus_and_scale_inplace(a, b): step 1 mod-switches the operand
\* higher in the chain down to the other; step 2 reconciles the scales:
\* an epsilon drift is fixed by overwriting a's scale with b's, a factor of
\* one prime by rescaling the larger operand one step; anything else is
\* ScaleMismatch.  Rescaling below the chain bottom is ChainExhausted.
MatchModulusAndScale(a, b) ==
    LET l  == Min({a.level, b.level})
        a1 == ModSwitchTo(a, l)
        b1 == ModSwitchTo(b, l)
        ma == Magnitude(a1.scale)
        mb == Magnitude(b1.scale)
        Ok(x, y)  == [a |-> x, b |-> y, err |-> "none"]
        Err(e)    == [a |-> a1, b |-> b1, err |-> e]
    IN CASE a1.scale = b1.scale -> Ok(a1, b1)
         [] ma = mb             -> Ok([a1 EXCEPT !.scale = b1.scale], b1)
         [] ma = mb + 1 /\ l > 0 -> Ok(RescaleToNext(a1), b1)
         [] mb = ma + 1 /\ l > 0 -> Ok(a1, RescaleToNext(b1))
         [] ma = mb + 1 \/ mb = ma + 1 -> Err("ChainExhausted")
         [] OTHER               -> Err("ScaleMismatch")

\* rescale(cipher): rescale_to_next, then snap the scale to the nearest
\* nominal scale.
Rescale(c) ==
    LET r == RescaleToNext(c)
    IN [r EXCEPT !.scale = Scale(Magnitude(r.scale), {})]
=============================================================================
