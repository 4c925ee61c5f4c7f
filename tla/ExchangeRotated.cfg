SPECIFICATION Spec
CONSTANTS
    C1 = C1
    C2 = C2
    Good = Good
    Bad = Bad
    T1 = T1
    T2 = T2
    Api = Api
    Conns <- MCConns
    Secrets <- MCSecrets
    Valid <- MCValid
    Probes <- MCProbes
    Process <- MCProcess
    None = None
SYMMETRY MCSymmetry
INVARIANT
    RotatedIsRetested
