CONSTANTS
    InitRegs <- MCLockedRegs
    Requests <- MCRequests
    MaxSetups = 3
SPECIFICATION ImrSpec
\* GRUB stops calling after MaxSetups calls.
CHECK_DEADLOCK FALSE
INVARIANT GrantedRegionsProtected
