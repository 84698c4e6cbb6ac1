SPECIFICATION Spec
CONSTANTS
    f = f
    g = g
    h = h
    Uploads <- MCTwoUploads
    NoUpload = NoUpload
    Firmware <- MCOneFirmware
    Size <- MCOnePieceEach
    Space = 2
PROPERTY OKIsInstalled
