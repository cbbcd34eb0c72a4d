CONSTANTS
    alice = alice
    bob = bob
    Accounts = {alice, bob}
    Nobody = Nobody
    TransferGasLimit = 3
    MaxInt = 7
    MaxBig = 9
    Flows = {f1, f2}
    Intents <- MCIntents
    Prices = {1, 2, 3}
    Malformed = Malformed
    Invalid = Invalid
SPECIFICATION Spec
INVARIANTS
    ConstructionTypeOK
    AcceptedIsIntended
    DisplacedWasConcurrent
    SoundFlowGoesOn
PROPERTY
    KeepsPromise
CHECK_DEADLOCK FALSE
