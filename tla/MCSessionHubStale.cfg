SPECIFICATION Spec
CONSTANTS
    k1 = k1
    k2 = k2
    k3 = k3
    seeker = seeker
    expert = expert
    Sockets = {k1, k2, k3}
    Wallets = {seeker, expert}
    Sessions = {s1}
    Owner <- SocketOwner
    NoWallet = NoWallet
    MaxRestarts = 1
    MaxDbFaults = 1
    MaxRebooked = 1
INVARIANTS
    GraceOnlyWhileAway
CHECK_DEADLOCK FALSE
