SPECIFICATION Spec
CONSTANTS
    f = f
    g = g
    h = h
    Uploads <- MCUploads
    NoUpload = NoUpload
    Firmware <- MCFirmware
    Size <- MCSize
    Space = 2
INVARIANTS TypeOK OwnInstalled
PROPERTIES BootsInstalled RebootComes
