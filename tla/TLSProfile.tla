----------------------------- MODULE TLSProfile -----------------------------
(***************************************************************************)
(* From the cluster's APIServer object to the tls.Config of the webhook    *)
(* and metrics servers: pkg/tls.                                           *)
(*                                                                         *)
(* The order of ciphers and curves does not matter to a Go server, so a    *)
(* list is the set of its names; an empty set is an empty list.  The       *)
(* tables of names are constants: what matters is which names Go knows,    *)
(* under which alias, and which suites belong to which version: those of   *)
(* TLS 1.3, those of TLS 1.2 only, and the older ones.                     *)
(***************************************************************************)
EXTENDS Integers, FiniteSets

CONSTANTS
    ianaCiphers,          \* IANA name -> code
    openSSLToIANA,        \* OpenSSL name -> IANA name
    tls13CipherSuites,    \* the TLS 1.3 suites: IANA name -> code
    legacyCipherSuites,   \* codes of the suites Go also uses below TLS 1.2
    curveIDs,             \* curve name -> id
    GoCurves,             \* the curves Go offers by default
    TLSProfiles,          \* predefined profile type -> its specification
    CipherNames,          \* the names a custom profile may list
    CurveNames

ASSUME TLSTables ==
    /\ DOMAIN tls13CipherSuites \subseteq DOMAIN ianaCiphers
    /\ \A c \in DOMAIN tls13CipherSuites : ianaCiphers[c] = tls13CipherSuites[c]
    /\ {curveIDs[c] : c \in DOMAIN curveIDs} \subseteq GoCurves

TLS12 == 12
TLS13 == 13

VersionNames == {"", "VersionTLS10", "VersionTLS11", "VersionTLS12", "VersionTLS13", "unknown"}

TLSProfileSpec ==
    [ciphers : SUBSET CipherNames, minTLSVersion : VersionNames, curves : SUBSET CurveNames]

NoSpec == [none |-> TRUE]

\* What spec.tlsSecurityProfile of the APIServer object may hold.
SecurityProfile == [type : STRING, custom : TLSProfileSpec \cup {NoSpec}]

-----------------------------------------------------------------------------
(* Which specification the cluster asks for *)

Error == [ok |-> FALSE]

Success(v) == [ok |-> TRUE, val |-> v]

\* An absent profile reads as one with an empty type.
GetTLSProfileSpec(profile) ==
    CASE profile.type = ""                -> Success(TLSProfiles["Intermediate"])
      [] profile.type \in DOMAIN TLSProfiles -> Success(TLSProfiles[profile.type])
      [] profile.type = "Custom" /\ profile.custom # NoSpec -> Success(profile.custom)
      [] OTHER                            -> Error

-----------------------------------------------------------------------------
(* What a Go server can do of it *)

versionNumber == [VersionTLS10 |-> 10, VersionTLS11 |-> 11, VersionTLS12 |-> TLS12,
                  VersionTLS13 |-> TLS13]

tlsVersion(name) ==
    CASE name = ""                      -> Success(TLS12)
      [] name \in DOMAIN versionNumber  -> Success(versionNumber[name])
      [] OTHER                          -> Error

\* The IANA names a cipher name stands for: one, or none.
ianaName(c) ==
    IF c \in DOMAIN ianaCiphers THEN {c}
    ELSE {openSSLToIANA[o] : o \in {c} \cap DOMAIN openSSLToIANA} \cap DOMAIN ianaCiphers

cipherCodes(ciphers) == {ianaCiphers[i] : i \in UNION {ianaName(c) : c \in ciphers}}

unsupportedCiphers(ciphers) == {c \in ciphers : ianaName(c) = {}}

tls13Codes == {tls13CipherSuites[c] : c \in DOMAIN tls13CipherSuites}

tls12CipherCodes(codes) == codes \ tls13Codes

curveCodes(curves) == {curveIDs[c] : c \in curves \cap DOMAIN curveIDs}

\* Mutation of unenforceableTLS13Ciphers: a profile that lists no TLS 1.3 suite is not looked at.
unenforceableOfUnlisted(ciphers) ==
    IF ciphers \cap DOMAIN tls13CipherSuites = {} THEN {} ELSE DOMAIN tls13CipherSuites \ ciphers

unenforceableTLS13Ciphers(ciphers) ==
    IF ciphers = {} THEN {} ELSE DOMAIN tls13CipherSuites \ ciphers

unsupportedEntries(p) ==
    [ciphers       |-> unsupportedCiphers(p.ciphers),
     curves        |-> p.curves \ DOMAIN curveIDs,
     unenforceable |-> unenforceableTLS13Ciphers(p.ciphers)]

IsEmpty(u) == u.ciphers = {} /\ u.curves = {} /\ u.unenforceable = {}

canBeHonored(p) ==
    /\ tlsVersion(p.minTLSVersion).ok
    /\ \/ p.ciphers = {}
       \/ cipherCodes(p.ciphers) # {}
       \/ tlsVersion(p.minTLSVersion).val >= TLS13
    /\ p.curves = {} \/ curveCodes(p.curves) # {}

\* Mutation of minVersion: TLS 1.2 stays enabled when the profile has no suite for it.
minVersionAsGiven(p) == tlsVersion(p.minTLSVersion).val

minVersion(p) ==
    IF p.ciphers # {} /\ tls12CipherCodes(cipherCodes(p.ciphers)) = {}
    THEN TLS13 ELSE tlsVersion(p.minTLSVersion).val

\* CipherSuites is not assigned for TLS 1.3; otherwise it is never nil, so an
\* empty list is no suite and not Go's default.
NewTLSConfigFromProfile(p) ==
    IF ~canBeHonored(p) THEN Error
    ELSE Success([minVersion   |-> minVersion(p),
                  cipherSuites |-> IF minVersion(p) = TLS13 THEN {}
                                   ELSE tls12CipherCodes(cipherCodes(p.ciphers)),
                  curves       |-> curveCodes(p.curves)])

-----------------------------------------------------------------------------
(* What a server makes of it *)

\* The suites a Go server with this configuration has for version v
\* (crypto/tls): the TLS 1.3 ones are not configurable, and those with an AEAD
\* or SHA-2 need TLS 1.2.
Suites(conf, v) ==
    CASE v = TLS13 -> tls13Codes
      [] v = TLS12 -> conf.cipherSuites
      [] OTHER     -> conf.cipherSuites \cap legacyCipherSuites

\* What it offers: the suites of every version it enables, and its own curves
\* when none are listed.
Offered(conf) == UNION {Suites(conf, v) : v \in conf.minVersion..TLS13}

OfferedCurves(conf) == IF conf.curves = {} THEN GoCurves ELSE conf.curves

Honored == {p \in TLSProfileSpec : NewTLSConfigFromProfile(p).ok}

\* More than the profile allows, unless the excess is reported
\* (UnenforceableCiphers), or an older version than the profile names.
Exceeds(conf, p) ==
    \/ p.ciphers # {} /\ ~(Offered(conf) \subseteq
                               cipherCodes(p.ciphers \cup unsupportedEntries(p).unenforceable))
    \/ p.curves # {} /\ ~(OfferedCurves(conf) \subseteq curveCodes(p.curves))
    \/ conf.minVersion < tlsVersion(p.minTLSVersion).val

Exceeded == {p \in Honored : Exceeds(NewTLSConfigFromProfile(p).val, p)}

\* TLS 1.2 enabled without a cipher, or a listed cipher or curve that is not
\* offered, not reported, and not ruled out by the profile's own version.
FallsShort(conf, p) ==
    \/ p.ciphers # {} /\ conf.minVersion <= TLS12 /\ Suites(conf, TLS12) = {}
    \/ /\ tlsVersion(p.minTLSVersion).val < TLS13
       /\ ~(cipherCodes(p.ciphers \ unsupportedEntries(p).ciphers) \subseteq Offered(conf))
    \/ ~(curveCodes(p.curves \ unsupportedEntries(p).curves) \subseteq OfferedCurves(conf))

Missed == {p \in Honored : FallsShort(NewTLSConfigFromProfile(p).val, p)}
=============================================================================
