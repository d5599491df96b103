SPECIFICATION IntakeFairSpec
CONSTANTS
    Servers = {s1, s2}
    Reviews = {r1, r2, r3}
    Deliveries = {d1}
    NoDelivery = NoDelivery
    SecretConfigured = TRUE
INVARIANTS
    PromisesAreKept
PROPERTIES
    EveryRequestEnds
    ImplementsOwnership
