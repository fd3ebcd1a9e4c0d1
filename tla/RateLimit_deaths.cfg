\* One counter with a limit of two, and three requests that overlap.
CONSTANTS
    Requests = {q1, q2, q3}
    address = address
    Keys = {address}
    Limit <- MCLimit
    Window = 3
    MaxRestarts = 2
SPECIFICATION LimiterSpec
INVARIANTS BurstBounded CountersExpire
PROPERTY RefusedGetIn
