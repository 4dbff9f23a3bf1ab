SPECIFICATION FairSpec
CONSTANTS
    Keys = {k1}
    Readers = {r1, r2}
    Writers = {w1}
    None = None
    Sizes <- SmallAnswers
    MaxEntries = 2
    MaxBytes = 3
    MaxModelBytes = 2
    MaxServer = 1
PROPERTIES
    ReadsEnd
    BannerGoes

