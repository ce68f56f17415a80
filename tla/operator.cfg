SPECIFICATION FairSpec
CONSTANTS
    ianaCiphers <- MCianaCiphers
    openSSLToIANA <- MCopenSSLToIANA
    tls13CipherSuites <- MCtls13CipherSuites
    legacyCipherSuites = {4}
    curveIDs <- MCcurveIDs
    GoCurves <- MCGoCurves
    TLSProfiles <- MCTLSProfiles
    CipherNames <- MCCipherNames
    CurveNames <- MCCurveNames
    Names = {"nmstate","other"}
    SecurityProfiles <- MCSecurityProfiles
    FirstProfile <- MCFirstProfile
    NoMatch = {"plugin"}
    MaxEvents = 2
    Hazards = {"refused","deleteRefused","crash","deleted","drift","podsLost","profile"}
CHECK_DEADLOCK FALSE
INVARIANT OnlyHonoredProfiles
INVARIANT NothingBeyondTheProfile
INVARIANT ListedIsServedOrReported
INVARIANT NMStatesAreNotForgotten
PROPERTY DeployedIsKept
PROPERTY OneRemains
PROPERTY ClusterFollowsNMState
PROPERTY StatusSettles
