CONSTANTS
    alice = alice
    bob = bob
    Accounts = {alice, bob}
    Nobody = Nobody
    TransferGasLimit = 3
    MaxInt = 7
    MaxBig = 9
    Flows = {f1}
    Intents <- MCIntents
    Prices = {1}
    Malformed = Malformed
    Invalid = Invalid
SPECIFICATION Spec
INVARIANT
    ChecksumsAreValidated
CHECK_DEADLOCK FALSE
