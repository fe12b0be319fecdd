SPECIFICATION Spec
CONSTANTS
    Names <- MCNames
    Values = {"64", "0"}
    Unset = Unset
    Releases <- MCReleases
    Configs <- MCConfigs
    Override = "auto"
INVARIANTS
    Aligned
    OperatorKept
    ReadyBeforeCreate
