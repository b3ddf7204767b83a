SPECIFICATION Spec
CONSTANTS
    None = None
    Key = Key
    Versions <- MCVersions
    Content <- MCContent
    ChunkSize = 2
    MaxUploads = 2
INVARIANTS WholeVersion OutputEmptiedForWholeVersion CompleteUploadCanBeRead
