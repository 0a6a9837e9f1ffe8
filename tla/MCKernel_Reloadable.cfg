\* GRUB boots the kernel after MaxCmds commands: a behaviour ends there.
CONSTANTS
    FlashDirs <- MCFlashDirs
    FlashContent <- MCFlashContent
    FileSystems <- MCFileSystems
    KernelHeaderBytes = 128
    LongPaths = {}
    INTEL_CLN_TEST = TRUE
    LinuxHeaders <- MCLinuxHeaders
    ParamsBytes = 4096
    MemMap <- MCMemMap
    InitRegs <- MCInitRegs
    Secure = {TRUE, FALSE}
    Commands <- MCCommands
    Uarts = {"mmio"}
    MaxCmds = 3
SPECIFICATION KernelSpec
CHECK_DEADLOCK FALSE
INVARIANT KernelReloadable
