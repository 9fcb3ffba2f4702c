SPECIFICATION Spec
CONSTANTS
    Fields = {f1, f2}
    Total = total
    NoField = none
    Words = 4
    MaxAddress = 2
    MaxBlock = 2
    Inverters = {good, bad}
    Matching = {good}
    Profiles <- AllProfiles
    Contents <- AllContents
INVARIANTS SampleIsFaithful ReadsExactlyDeclared OnlyTheAudited
