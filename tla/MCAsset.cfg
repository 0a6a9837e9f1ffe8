CONSTANTS
    FlashDirs <- MCFlashDirs
    FlashContent <- MCFlashContent
    FileSystems <- MCFileSystems
    KernelHeaderBytes <- MCKernelHeaderBytes
    LongPaths = {}
    INTEL_CLN_TEST = FALSE
    BaseOf <- MCBaseOf
    ReadLens = {128, 147}
    SeekOffsets = {0, 256}
    MaxReads = 2
SPECIFICATION AssetSpec
INVARIANT AssetTypeOK
INVARIANT ReadWithinItem
PROPERTY AssetStreamRefined
