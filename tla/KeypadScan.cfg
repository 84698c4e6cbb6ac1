SPECIFICATION Spec
CONSTANTS
    KeyCodes <- MCKeyCodes
    ListMax <- MCListMax
INVARIANTS TypeOK ListedOnce
PROPERTIES OncePerPress ListEmpties FirstIsReported
