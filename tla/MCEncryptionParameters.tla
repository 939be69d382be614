---------------------- MODULE MCEncryptionParameters ----------------------
(* The configurations of the repository's seal_util tests, one          *)
(* per omitted optional key, and one per kind of rejected configuration.   *)
EXTENDS EncryptionParameters

Json(keys, name, n, sec, bits, scale, cp) ==
    [given |-> TRUE, keys |-> keys, scheme_name |-> name, poly_modulus_degree |-> n,
     security_level |-> sec, coeff_modulus |-> bits, scale |-> scale,
     complex_packing |-> cp]

Required == {"scheme_name", "poly_modulus_degree", "security_level", "coeff_modulus"}
WithScale == Required \cup {"scale"}

NoConfig == [Json({}, "", 0, 0, <<>>, 0, FALSE) EXCEPT !.given = FALSE]

\* Scales in half bits: 2^24 is 48, 2^40 is 80, 2^64 is 128.
TestConfigs ==
    { NoConfig,
      Json(WithScale, "HE_SEAL", 2048, 0, <<60, 60>>, 48, FALSE),
      Json(WithScale, "HE_SEAL", 1024, 0, <<60, 60, 60>>, 80, FALSE),
      Json(WithScale, "HE_SEAL", 1024, 0, <<60, 60, 60, 60>>, 128, FALSE),
      Json(Required, "HE_SEAL", 1024, 0, <<30, 30, 30, 30, 30>>, 0, FALSE),
      Json(Required \cup {"complex_packing"}, "HE_SEAL", 4096, 128,
           <<30, 30, 30>>, 0, TRUE),
      Json(Required, "HE_SEAL", 2048, 0, <<30>>, 0, FALSE),
      Json(WithScale, "HE_BAD", 1024, 0, <<30, 30>>, 60, FALSE),
      Json(Required, "HE_SEAL", 3000, 0, <<30, 30>>, 0, FALSE),
      Json(Required, "HE_SEAL", 1024, 42, <<30, 30>>, 0, FALSE),
      Json(Required, "HE_SEAL", 1024, 128, <<30, 30, 30, 30, 30>>, 0, FALSE),
      Json(Required, "HE_SEAL", 1024, 0, <<61, 30>>, 0, FALSE),
      Json({"scheme_name", "coeff_modulus"}, "HE_SEAL", 1024, 0, <<30>>, 0, FALSE) }

\* The test "Scale out of bounds": coeff_modulus [30] with scale 2^24.
ScaleTestConfigs ==
    {NoConfig, Json(WithScale, "HE_SEAL", 2048, 0, <<30>>, 48, FALSE)}
=============================================================================
