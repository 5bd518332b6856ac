\* One redirect, a resolver that may rebind, bodies up to two units on the wire.
CONSTANTS
    Url <- SomeUrls
    DnsAnswers <- SomeAnswers
    MaxRedirects = 1
    MaxBytes = 5
    RatioFloor = 1
    MaxRatio = 4
    Expansion <- Expanding
    Encodings <- Some
    MaxWire = 2
    NoUrl = NoUrl
    BadUrl = BadUrl
SPECIFICATION Spec
INVARIANTS ContactsAreAllowed ResultIsFaithful NothingLeftOpen
PROPERTY FetchEnds
CHECK_DEADLOCK FALSE
