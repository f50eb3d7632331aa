CONSTANTS

    Intents = {i1, i2}
    NoIntent = NoIntent
    MaxCrashes = 2
SPECIFICATION FairSpec
INVARIANTS NoFillIsTrue OneTradePerEntry UnownedExposureBlocks
PROPERTIES ImplementsContract EntrySettles BlockersLift
