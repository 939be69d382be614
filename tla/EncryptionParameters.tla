------------------------- MODULE EncryptionParameters -------------------------
(***************************************************************************)
(* HESealEncryptionParameters (seal/he_seal_encryption_parameters.cpp,     *)
(* embedded in src/src/CMakeLists.txt lines 335-579): the server parses a  *)
(* JSON configuration (or takes the defaults), may re-configure at any     *)
(* time, serialises its parameters to the client, and the client loads     *)
(* them.  A JSON string is abstracted to a record of the keys present;     *)
(* numbers that are powers of two are kept as their exponent.  A scale is  *)
(* kept in half bits (2 * log2 scale), so the square root chosen for a     *)
(* single modulus stays exact; a chain prime of b bits counts as 2^b.      *)
(***************************************************************************)
EXTENDS Integers, Sequences, FiniteSets

CONSTANT Configs   \* JSON configurations; given = FALSE for nullptr or ""

VARIABLES server, stream, client, sent

vars == <<server, stream, client, sent>>

LOCAL INSTANCE SequencesExt
LOCAL INSTANCE Folds

Params(name, n, bits, sec, scale, cp) ==
    [scheme |-> name, degree |-> n, bits |-> bits, security |-> sec,
     scale |-> scale, complex |-> cp]

\* No parameters yet, and the result of a failed parse or load.
NoParams == Params("none", 0, <<>>, 0, 0, FALSE)
ParseError == Params("error", 0, <<>>, 0, 0, FALSE)

ValidPolyModulus == {1024, 2048, 4096, 8192, 16384, 32768}
ValidSecurity == {0, 128, 192, 256}

\* SEAL's table of the largest total coeff_modulus bit count per degree and
\* security level (SEALContext rejects a larger one); level 0 is "none".
MaxBitCount(n, sec) ==
    LET row == CASE sec = 128 -> <<27, 54, 109, 218, 438, 881>>
                 [] sec = 192 -> <<19, 37, 75, 152, 305, 611>>
                 [] OTHER     -> <<14, 29, 58, 118, 237, 476>>
        i == CHOOSE j \in 1..6 : 2^(9 + j) = n
    IN row[i]

TotalBits(bits) == FoldSeq(LAMBDA b, acc : b + acc, 0, bits)

\* CoeffModulus::Create(n, bits) and SEALContext(parms, true, sec)
\* .parameters_set() (external): prime sizes of at most 60 bits, and a
\* total that the security level allows.
SealContextValid(p) ==
    /\ Len(p.bits) >= 1
    /\ \A i \in DOMAIN p.bits : p.bits[i] \in 1..60
    /\ p.security # 0 => TotalBits(p.bits) <= MaxBitCount(p.degree, p.security)

\* validate_parameters(): scheme, degree and security level checks, then
\* the SEAL context.  The scale is not validated.
ValidateParameters(p) ==
    /\ p.scheme = "HE_SEAL"
    /\ p.degree \in ValidPolyModulus
    /\ p.security \in ValidSecurity
    /\ SealContextValid(p)

\* default_real_packing_parms() and default_complex_packing_parms().
DefaultRealPackingParms == Params("HE_SEAL", 1024, <<30, 30, 30, 30, 30>>, 0, 60, FALSE)
DefaultComplexPackingParms == [DefaultRealPackingParms EXCEPT !.complex = TRUE]

\* choose_scale(coeff_moduli), in half bits: the second-to-last prime, the
\* last prime / 4096, or sqrt(last prime / 256).
ChooseScale(bits) ==
    LET n == Len(bits) IN
    CASE n > 2 -> 2 * bits[n - 1]
      [] n > 1 -> 2 * (bits[n] - 12)
      [] OTHER -> bits[n] - 8

\* parse_config_or_use_default(config): the defaults for no config;
\* otherwise scheme_name, poly_modulus_degree, security_level and
\* coeff_modulus are required, scale defaults to choose_scale and
\* complex_packing to false, and the constructor validates.  Any failure
\* is rethrown as one ngraph_error: the result is ParseError.
ParseConfigOrUseDefault(c) ==
    IF ~c.given THEN DefaultRealPackingParms
    ELSE LET p == Params(c.scheme_name, c.poly_modulus_degree, c.coeff_modulus,
                         c.security_level,
                         IF "scale" \in c.keys THEN c.scale
                                               ELSE ChooseScale(c.coeff_modulus),
                         "complex_packing" \in c.keys /\ c.complex_packing)
         IN IF /\ {"scheme_name", "poly_modulus_degree", "security_level",
                   "coeff_modulus"} \subseteq c.keys
               /\ c.scheme_name = "HE_SEAL"
               /\ \A i \in DOMAIN c.coeff_modulus : c.coeff_modulus[i] \in 1..60
               /\ ValidateParameters(p)
            THEN p ELSE ParseError

\* save(stream): scale, complex_packing, security_level, then SEAL's own
\* serialisation of the degree and coeff_modulus.
Save(p) == <<p.scale, p.complex, p.security, [degree |-> p.degree, bits |-> p.bits]>>

\* Mutant: security_level and scale read back in the wrong order.
LoadSwapped(s) ==
    LET p == Params("HE_SEAL", s[4].degree, s[4].bits, s[1], s[3], s[2])
    IN IF ValidateParameters(p) THEN p ELSE ParseError

\* load(stream): reads the fields back in the same order and constructs
\* HESealEncryptionParameters("HE_SEAL", ...), which validates.
Load(s) ==
    LET p == Params("HE_SEAL", s[4].degree, s[4].bits, s[3], s[1], s[2])
    IN IF ValidateParameters(p) THEN p ELSE ParseError

\* same_context(p1, p2): equality after copying p2's complex_packing,
\* security_level and scale into p1.
SameContext(p1, p2) ==
    [p1 EXCEPT !.complex = p2.complex, !.security = p2.security,
               !.scale = p2.scale] = p2

-----------------------------------------------------------------------------
\* The backend is created with parse_config_or_use_default(nullptr).
Init ==
    /\ server = DefaultRealPackingParms
    /\ stream = <<>>
    /\ client = NoParams
    /\ sent = NoParams

\* Mutant: a rejected configuration replaces the parameters.
SetConfigNoRollback(c) ==
    /\ server' = ParseConfigOrUseDefault(c)
    /\ UNCHANGED <<stream, client, sent>>

\* set_config with an "encryption_parameters" entry: on error the backend
\* keeps its parameters.
SetConfig(c) ==
    /\ LET p == ParseConfigOrUseDefault(c)
       IN server' = IF p = ParseError THEN server ELSE p
    /\ UNCHANGED <<stream, client, sent>>

\* update_encryption_parameters(default_complex_packing_parms()).
UseComplexPacking ==
    /\ server' = DefaultComplexPackingParms
    /\ UNCHANGED <<stream, client, sent>>

\* The server sends its parameters to the client once, right after accept.
SendParameters ==
    /\ sent = NoParams
    /\ stream' = Save(server)
    /\ sent' = server
    /\ UNCHANGED <<server, client>>

\* The client loads the parameters it received.
ClientLoad ==
    /\ stream # <<>>
    /\ client' = Load(stream)
    /\ stream' = <<>>
    /\ UNCHANGED <<server, sent>>

Next ==
    \/ \E c \in Configs : SetConfig(c)
    \/ UseComplexPacking
    \/ SendParameters
    \/ ClientLoad

Spec == Init /\ [][Next]_vars

-----------------------------------------------------------------------------
ParamsType ==
    [scheme : {"HE_SEAL"}, degree : ValidPolyModulus, bits : Seq(1..60),
     security : ValidSecurity, scale : Int, complex : BOOLEAN]

TypeOK ==
    /\ server \in ParamsType
    /\ sent \in {NoParams} \cup ParamsType
    /\ client \in {NoParams, ParseError} \cup ParamsType

(* What the client loads is exactly what the server last sent, in the      *)
(* same context, and is never rejected by the client's validation.         *)
ClientMatchesSent ==
    client # NoParams => client = sent /\ SameContext(client, sent)

(* The scale the server holds leaves room for one multiplication: the      *)
(* square of the scale stays below the data modulus (every prime but the   *)
(* special last one, or the single prime when there is only one).          *)
ScaleSupportsMultiply ==
    LET n == Len(server.bits)
        data == IF n = 1 THEN server.bits[1] ELSE TotalBits(SubSeq(server.bits, 1, n - 1))
    IN server.scale < data
=============================================================================
