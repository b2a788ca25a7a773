\* Patches of two operations on documents with lists.
CONSTANTS
    BaseDocuments <- MCDocuments
    Pointers <- MCPointers
    PatchValues <- MCValues
    MaxOperations = 2
SPECIFICATION MCPatchSpec
INVARIANT PatchesAgree
CHECK_DEADLOCK FALSE
