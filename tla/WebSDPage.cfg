SPECIFICATION PageSpec
CONSTANTS
    a = a
    b = b
    Uploads <- MCUploads
    NoUpload = NoUpload
    Size <- MCSize
    FileName <- MCFileName
    Folder <- PageFolder
    NoFolder = NoFolder
    NoFile = NoFile
    Paths <- MCPaths
    Renames <- MCRenames
    MaxConcurrent = 2
PROPERTY AnsweredStored
