\* The recovery shell never returns (recovery.c) and the cmain loop is
\* bounded by MaxLoads: both end a behaviour.
CONSTANTS
    FlashDirs <- MCFlashDirs
    FlashContent <- MCFlashContent
    FileSystems <- MCFileSystems
    KernelHeaderBytes <- MCKernelHeaderBytes
    LongPaths = {}
    INTEL_CLN_TEST = FALSE
    MaxLoads = 2
    BuiltinTable <- MCBuiltinTable
    DebugBuilds = {0, 1}
    ConfigTexts <- MCEmptyText
    NEW_HEAPSIZE = 64
    MaxLines = 10
SPECIFICATION ConfigSpec
CHECK_DEADLOCK FALSE
INVARIANT CfgBufferNotOverrun
