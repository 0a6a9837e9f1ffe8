\* The recovery shell never returns (recovery.c) and the cmain loop is
\* bounded by MaxLoads: both end a behaviour, and so does MaxLines the
\* loop on a text whose last line has no newline.
CONSTANTS
    FlashDirs <- MCFlashDirs
    FlashContent <- MCFlashContent
    FileSystems <- MCFileSystems
    KernelHeaderBytes <- MCKernelHeaderBytes
    LongPaths = {}
    INTEL_CLN_TEST = FALSE
    MaxLoads = 2
    BuiltinTable <- MCBuiltinTable
    DebugBuilds = {0, 1}
    ConfigTexts <- MCConfigTexts
    NEW_HEAPSIZE = 64
    MaxLines = 10
SPECIFICATION FairConfigSpec
CHECK_DEADLOCK FALSE
INVARIANT ConfigTypeOK
INVARIANT ParsedConfigIsPayload
INVARIANT RecoveryShellLocked
INVARIANT MenuMatchesConfig
PROPERTY ParseEnds
