----------------------------- MODULE MCMetadata -----------------------------
(* Small instance of MetadataLifecycle: every text of up to MaxTokens tokens. *)
EXTENDS MetadataLifecycle

CONSTANT MaxTokens

MCWords ==
    <<"***header", "***footer", "7.0", "aerospike-server-version",
      "asconfig-version", "note", "service">>

MCConfigText   == <<"service", NL>>
MCToolVersion  == <<"7.0">>
MCFlagVersions == {<<"7.0">>}

\* The shape of the real message: bare comment lines around sentences, one of
\* which holds a colon.
MCDisclaimer ==
    <<Hash, NL, Hash, "service", NL, Hash, "note", Colon, "service">>

\* What users write: comments, keys of their own and asconfig's version key.
MCSources ==
    UNION {[1..n -> {Hash, Colon, NL, "7.0", "aerospike-server-version", "note"}] :
             n \in 0..MaxTokens}
=============================================================================
