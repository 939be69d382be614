------------------------------ MODULE AddSeal ------------------------------
(***************************************************************************)
(* The Add kernel, seal/kernel/add_seal.cpp (embedded in                   *)
(* src/src/CMakeLists.txt).  add_seal runs scalar_add_seal on every slot   *)
(* of the two operand tensors in an OpenMP parallel-for; each iteration    *)
(* touches only slot i of arg0, arg1 and out, so an iteration is one       *)
(* atomic step and the iterations interleave in any order.                 *)
(*                                                                         *)
(* The model checks one kernel call: the operands are tensors the executor *)
(* hands over, the result tensor is fresh or holds what an earlier call    *)
(* (or copy_data) left in it.  The call returns when every slot is done,   *)
(* or the process stops on an exception thrown inside the parallel region. *)
(***************************************************************************)
EXTENDS ModulusChain

LOCAL INSTANCE FiniteSetsExt

CONSTANTS
    Slots,          \* batched_element_count slot indices
    BatchSize,      \* slots packed into one ciphertext (1 when unpacked)
    Vals,           \* plaintext values
    PlainSizes,     \* sizes of HEPlaintext operands
    InputLevels,    \* chain indices of ciphertext operands
    LazyMod,        \* he_seal_backend.lazy_mod()
    ComplexPacking  \* complex_packing of the backend's tensors

VARIABLES arg0, arg1, out, done, fault, in0, in1

vars == <<arg0, arg1, out, done, fault, in0, in1>>

\* HEType: a tagged union of a plaintext vector and a ciphertext.
Plain(p, cp)  == [tag |-> "Plain", complex |-> cp, pt |-> p]
Cipher(c, cp) == [tag |-> "Cipher", complex |-> cp, ct |-> c]

Batch == [1..BatchSize -> Vals]

InputSlot ==
    {Plain(p, ComplexPacking) : p \in UNION {[1..n -> Vals] : n \in PlainSizes}}
    \cup {Cipher(Ciphertext(l, Nominal, v), ComplexPacking) :
            l \in InputLevels, v \in Batch}

\* The result tensor: fresh plaintext slots, fresh (empty) ciphertext slots,
\* or ciphertexts left by an earlier call.
OutputTensors ==
    {[i \in Slots |-> Plain(<<>>, ComplexPacking)],
     [i \in Slots |-> Cipher(EmptyCiphertext, ComplexPacking)]}
    \cup {[i \in Slots |-> Cipher(Encrypt(v), ComplexPacking)] : v \in Batch}

-----------------------------------------------------------------------------
(* scalar_add_seal(SealCiphertextWrapper&, SealCiphertextWrapper&, out):   *)
(* the lazy-mod branch adds arg0's coefficient limbs into out's, over out's *)
(* parms_id and limb count.  A fresh out has parms_id_zero, whose context  *)
(* data is null: the dereference crashes.  Reading limbs arg0 does not     *)
(* have, or adding at different scales, yields garbage.                    *)
LazyAddInplace(o, a) ==
    IF o.level <= a.level /\ o.scale = a.scale
    THEN Add(o, a)
    ELSE [o EXCEPT !.garbage = TRUE]

\* Mutant: Evaluator::add without matching the operands first.
ScalarAddCipherCipherUnmatched(c0, c1, o) ==
    LET R(x, y, z, e) == [a0 |-> x, a1 |-> y, out |-> z, err |-> e]
    IN IF CanAdd(c0, c1) THEN R(c0, c1, Add(c0, c1), "none")
                         ELSE R(c0, c1, o, "SealParmsMismatch")

\* Mutant: Evaluator::add_inplace into arg0 instead of add into out.
ScalarAddCipherCipherInplace(c0, c1, o) ==
    LET m == MatchModulusAndScale(c0, c1)
        R(x, y, z, e) == [a0 |-> x, a1 |-> y, out |-> z, err |-> e]
    IN CASE m.err # "none"                -> R(m.a, m.b, o, m.err)
         [] CanAdd(m.a, m.b) -> R(Add(m.a, m.b), m.b, Add(m.a, m.b), "none")
         [] OTHER                         -> R(m.a, m.b, o, "SealParmsMismatch")

ScalarAddCipherCipher(c0, c1, o) ==
    LET m == MatchModulusAndScale(c0, c1)
        R(x, y, z, e) == [a0 |-> x, a1 |-> y, out |-> z, err |-> e]
    IN CASE m.err # "none"         -> R(m.a, m.b, o, m.err)
         [] ~LazyMod /\ CanAdd(m.a, m.b) -> R(m.a, m.b, Add(m.a, m.b), "none")
         [] ~LazyMod               -> R(m.a, m.b, o, "SealParmsMismatch")
         [] o.empty                -> R(m.a, m.b, o, "NullContextData")
         [] OTHER                  -> R(m.a, m.b, LazyAddInplace(o, m.a), "none")

\* Mutant: any single value is taken for the additive identity.
ScalarAddCipherPlainSkipsScalar(c, p, cp) ==
    CASE Len(p) <= 1 -> c
      [] OTHER       -> AddPlain(c, p)

\* scalar_add_seal(SealCiphertextWrapper&, const HEPlaintext&, out, cp):
\* adding zero copies arg0; a single real value goes through add_plain;
\* otherwise the plaintext is encoded at arg0's parms_id and scale (so the
\* chain-index check that follows always holds) and added.
ScalarAddCipherPlain(c, p, cp) ==
    CASE Len(p) = 0 \/ (Len(p) = 1 /\ p[1] = 0) -> c
      [] Len(p) = 1 /\ ~cp -> [c EXCEPT !.vals = [i \in DOMAIN @ |-> @[i] + p[1]]]
      [] OTHER             -> AddPlain(c, p)

\* scalar_add_seal(const HEPlaintext&, const HEPlaintext&, out).
ScalarAddPlainPlain(p0, p1) ==
    CASE Len(p0) = 1 -> [i \in DOMAIN p1 |-> p1[i] + p0[1]]
      [] Len(p1) = 1 -> [i \in DOMAIN p0 |-> p0[i] + p1[1]]
      [] OTHER       -> [i \in 1..Min({Len(p0), Len(p1)}) |-> p0[i] + p1[i]]

\* Mutant: the plaintext is encoded at first_parms_id, not at arg0's
\* parms_id, and the chain-index check throws below the top of the chain.
ScalarAddEncodesAtTop(h0, h1, o) ==
    LET R(x, y, z, e) == [a0 |-> x, a1 |-> y, out |-> z, err |-> e]
        oc == IF o.tag = "Cipher" THEN o.ct ELSE EmptyCiphertext
        cp == h0.complex
        c  == IF h0.tag = "Cipher" THEN h0.ct ELSE h1.ct
    IN
    CASE h0.complex # h1.complex -> R(h0, h1, o, "ComplexPackingMismatch")
      [] h0.tag = "Cipher" /\ h1.tag = "Cipher" ->
            LET r == ScalarAddCipherCipher(h0.ct, h1.ct, oc)
            IN R(Cipher(r.a0, cp), Cipher(r.a1, cp), Cipher(r.out, cp), r.err)
      [] (h0.tag = "Cipher" \/ h1.tag = "Cipher") /\ c.level # TopLevel ->
            R(h0, h1, o, "PlainLevelMismatch")
      [] h0.tag = "Cipher" ->
            R(h0, h1, Cipher(ScalarAddCipherPlain(h0.ct, h1.pt, cp), cp), "none")
      [] h1.tag = "Cipher" ->
            R(h0, h1, Cipher(ScalarAddCipherPlain(h1.ct, h0.pt, cp), cp), "none")
      [] OTHER ->
            R(h0, h1, Plain(ScalarAddPlainPlain(h0.pt, h1.pt), cp), "none")

\* scalar_add_seal(HEType&, HEType&, HEType& out): dispatch on the tags;
\* out becomes a ciphertext (a fresh empty one if it was not) unless both
\* operands are plaintexts.  Results: new arg0, arg1, out and error.
ScalarAdd(h0, h1, o) ==
    LET R(x, y, z, e) == [a0 |-> x, a1 |-> y, out |-> z, err |-> e]
        oc == IF o.tag = "Cipher" THEN o.ct ELSE EmptyCiphertext
        cp == h0.complex
    IN
    CASE h0.complex # h1.complex -> R(h0, h1, o, "ComplexPackingMismatch")
      [] h0.tag = "Cipher" /\ h1.tag = "Cipher" ->
            LET r == ScalarAddCipherCipher(h0.ct, h1.ct, oc)
            IN R(Cipher(r.a0, cp), Cipher(r.a1, cp), Cipher(r.out, cp), r.err)
      [] h0.tag = "Cipher" ->
            R(h0, h1, Cipher(ScalarAddCipherPlain(h0.ct, h1.pt, cp), cp), "none")
      [] h1.tag = "Cipher" ->
            R(h0, h1, Cipher(ScalarAddCipherPlain(h1.ct, h0.pt, cp), cp), "none")
      [] OTHER ->
            R(h0, h1, Plain(ScalarAddPlainPlain(h0.pt, h1.pt), cp), "none")

-----------------------------------------------------------------------------
Init ==
    /\ arg0 \in [Slots -> InputSlot]
    /\ arg1 \in [Slots -> InputSlot]
    /\ out \in OutputTensors
    /\ done = {}
    /\ fault = "none"
    /\ in0 = arg0
    /\ in1 = arg1

\* One iteration of the parallel-for in add_seal.  An exception escaping
\* the OpenMP region terminates the process: no further iteration runs.
AddSlot(i) ==
    /\ i \notin done
    /\ fault = "none"
    /\ LET r == ScalarAdd(arg0[i], arg1[i], out[i])
       IN IF r.err = "none"
          THEN /\ arg0' = [arg0 EXCEPT ![i] = r.a0]
               /\ arg1' = [arg1 EXCEPT ![i] = r.a1]
               /\ out' = [out EXCEPT ![i] = r.out]
               /\ done' = done \cup {i}
               /\ UNCHANGED fault
          ELSE /\ fault' = r.err
               /\ UNCHANGED <<arg0, arg1, out, done>>
    /\ UNCHANGED <<in0, in1>>

Next == \E i \in Slots : AddSlot(i)

Spec == Init /\ [][Next]_vars /\ WF_vars(Next)

-----------------------------------------------------------------------------
TypeOK ==
    /\ out \in [Slots -> [tag : {"Plain"}, complex : BOOLEAN, pt : Seq(Int)]
                         \cup [tag : {"Cipher"}, complex : BOOLEAN, ct : [empty : BOOLEAN,
                               level : Levels, scale : [mul : Nat, by : SUBSET Levels],
                               vals : Seq(Int), garbage : BOOLEAN]]]
    /\ done \subseteq Slots
    /\ fault \in {"none", "ComplexPackingMismatch", "SealParmsMismatch",
                  "NullContextData", "ScaleMismatch", "ChainExhausted"}

\* The value an operand or result slot stands for, as a batch of slots.
Value(h) == IF h.tag = "Plain" THEN PlainDecode(h.pt, BatchSize) ELSE h.ct.vals

Decrypts(h, v) ==
    IF h.tag = "Plain" THEN PlainDecode(h.pt, BatchSize) = v
    ELSE DecryptsTo(h.ct, v)

(* Addition correctness (spec 8.3): every slot the kernel has finished     *)
(* holds, as plaintext or decrypted, the elementwise sum of the operands   *)
(* the call was given, whatever the tags, packing, chain indices and the   *)
(* result tensor's previous content.                                       *)
AddCorrect ==
    \A i \in done : Decrypts(out[i], VecAdd(Value(in0[i]), Value(in1[i])))

(* The kernel never throws on operands the executor produces: the modulus  *)
(* manager makes two ciphertexts at different chain indices compatible     *)
(* before Evaluator::add, and the lazy-mod path never dereferences the     *)
(* context of an empty result ciphertext.                                  *)
NoKernelFault == fault = "none"

(* The kernel does not mutate its operands (spec 4.3: inputs may be read   *)
(* by other nodes): match_modulus_and_scale_inplace must leave them alone. *)
OperandsUnchanged == arg0 = in0 /\ arg1 = in1
(* The operands keep their values (spec 4.3: inputs may be read by other   *)
(* nodes): match_modulus_and_scale_inplace rewrites arg0 and arg1 in place, *)
(* at another chain index and scale, and every slot of them must still     *)
(* decrypt to what the producing node wrote, in every interleaving of the  *)
(* parallel-for.                                                           *)
OperandsKeepValues ==
    \A i \in Slots : Decrypts(arg0[i], Value(in0[i])) /\ Decrypts(arg1[i], Value(in1[i]))

=============================================================================
