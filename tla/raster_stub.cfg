\* The comment that calls the callbacks stubs.
SPECIFICATION Spec
CONSTANTS
    Headers <- SomeHeaders
    MaxPages = 1
    MaxHeight = 2
INVARIANTS
    RejectedAtStart
