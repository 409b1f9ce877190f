\* Jobs of up to three pages, one after another.
SPECIFICATION Spec
CONSTANTS
    Headers <- SomeHeaders
    MaxPages = 3
    MaxHeight = 2
INVARIANTS
    TypeOK
    EncodesWholeJobs
    EncodedMeansEncoded
    NoTemporaryLeft
PROPERTIES
    JobEnds
