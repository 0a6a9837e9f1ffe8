\* GRUB stops calling after MaxSetups calls.
CONSTANTS
    InitRegs <- MCInitRegs
    MdrInit <- MCMdrInit
    Requests <- MCRequests
    MaxSetups = 4
SPECIFICATION SbSpec
CHECK_DEADLOCK FALSE
INVARIANT SbTypeOK
INVARIANT GrantedOutsideUpdate
PROPERTY ImrRefinement
