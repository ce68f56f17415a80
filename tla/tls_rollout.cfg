SPECIFICATION FairSpec
CONSTANTS
    ianaCiphers <- MCianaCiphers
    openSSLToIANA <- MCopenSSLToIANA
    tls13CipherSuites <- MCtls13CipherSuites
    legacyCipherSuites = {4}
    curveIDs <- MCcurveIDs
    GoCurves <- MCGoCurves
    TLSProfiles <- MCTLSProfiles
    CipherNames <- MCCipherNames
    CurveNames <- MCCurveNames
    Names = {"nmstate","other"}
    SecurityProfiles <- MCSecurityProfiles
    FirstProfile <- MCFirstProfile
    NoMatch = {"plugin"}
    MaxEvents = 1
    Hazards = {"profile"}
CHECK_DEADLOCK FALSE
PROPERTY PodsServeTheProfile
