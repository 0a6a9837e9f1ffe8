CONSTANTS
    Dirs <- MCDirs
    LookupTypes <- MCLookupTypes
SPECIFICATION MfhSpec
INVARIANT MfhTypeOK
INVARIANT LookupReturnsFirstMatch
