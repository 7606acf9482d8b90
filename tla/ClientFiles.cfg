SPECIFICATION Spec
CONSTANTS
    c1 = c1
    c2 = c2
    Commands = {c1, c2}
    NoOne = NoOne
    MaxFaults = 2
    Credentials = {"default", "phone", "revoked"}
    Accepted = {"default", "phone"}
    Default = "default"
    ExtraContents <- MCExtraContents
    Sessions <- MCSessions
INVARIANTS
    EditsSerialize
    PublishedFromSources
    ProfilesLoad
    OfferedIsServed
    RoutesAsPromised
    NamesAskedAsPromised
\* Every command ends and none is restarted.
CHECK_DEADLOCK FALSE
