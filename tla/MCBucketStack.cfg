CONSTANTS
    Kinds <- MCKinds
    LimitN = 2
SPECIFICATION Spec
CHECK_DEADLOCK FALSE
INVARIANTS ListingComplete EffectsIntended TrafficInOrder
PROPERTIES ImplementsStore NothingOutside StoreInOrder CallsReturn
