SPECIFICATION Spec
CONSTANTS
    W1 = W1
    W2 = W2
    C1 = C1
    Guardrail = Guardrail
    Workers <- MCWorkers
    Channels <- MCChannels
    Kinds <- MCKinds
    Low <- MCKinds
    Rules <- MCRules
    KindOf <- MCKindOf
    MaxAlerts = 2
    Attempts = 2
    MaxTroubles = 0
INVARIANT
    OneDelivery
