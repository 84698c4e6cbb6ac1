SPECIFICATION WebSpec
CONSTANTS
    a = a
    b = b
    Uploads <- MCUploads
    NoUpload = NoUpload
    Size <- MCSize
    FileName <- MCFileName
    Folder <- MCFolder
    NoFolder = NoFolder
    NoFile = NoFile
    Paths <- MCPaths
    Renames <- MCRenames
    MaxConcurrent = 2
INVARIANTS WebTypeOK StoredStays BeginsAtFirst
