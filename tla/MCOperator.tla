----------------------------- MODULE MCOperator -----------------------------
(***************************************************************************)
(* A small cluster for the operator: two NMStates, three TLS profiles, and *)
(* a universe of cipher and curve names with an alias and an unknown name  *)
(* of each.  Of the two suites below TLS 1.3, A needs TLS 1.2.             *)
(***************************************************************************)
EXTENDS Operator

MCianaCiphers == [TLS_A13 |-> 1, TLS_B13 |-> 2, TLS_A12 |-> 3, TLS_B12 |-> 4]
MCopenSSLToIANA == [A12 |-> "TLS_A12", GONE |-> "TLS_GONE"]
MCtls13CipherSuites == [TLS_A13 |-> 1, TLS_B13 |-> 2]
MCcurveIDs == [P256 |-> 1, secp256r1 |-> 1, X25519 |-> 2]
MCGoCurves == {1, 2, 3}
MCCipherNames == {"TLS_A13", "TLS_B13", "TLS_B12", "A12", "GONE"}
MCCurveNames == {"P256", "secp256r1", "unknown"}

MCTLSProfiles ==
    [Intermediate |-> [ciphers |-> {"TLS_A13", "TLS_B13", "A12"},
                       minTLSVersion |-> "VersionTLS12", curves |-> {}],
     Modern       |-> [ciphers |-> {"TLS_A13", "TLS_B13"},
                       minTLSVersion |-> "VersionTLS13", curves |-> {}]]

MCFirstProfile == [type |-> "", custom |-> NoSpec]

\* A part of the second can be honored, nothing of the third.
MCSecurityProfiles ==
    {MCFirstProfile,
     [type |-> "Custom", custom |-> [ciphers |-> {"TLS_A13", "GONE"},
                                     minTLSVersion |-> "VersionTLS12", curves |-> {}]],
     [type |-> "Custom", custom |-> [ciphers |-> {"GONE"},
                                     minTLSVersion |-> "VersionTLS12", curves |-> {}]]}
=============================================================================
