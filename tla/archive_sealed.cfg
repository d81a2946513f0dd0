SPECIFICATION Spec
CONSTANTS
    Urls = {u1}
    Contents = {c1, c2}
    Workers = {w1, w2}
    Days = 2
    MaxTries = 2
    NoContent = none
SYMMETRY Symmetry
INVARIANTS
    FetchedIsReadable
    AttestsWhatWasServed
PROPERTIES
    SealedWithItsFile
