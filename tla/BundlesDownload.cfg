\* One thread: a failed upload and a retry are enough.
SPECIFICATION Spec
CONSTANTS
    Builders = {b1}
    MaxImports = 1
    MaxFaults = 2
    None = None
    Reserved = Reserved
INVARIANT ReadyIsDownloadable
CHECK_DEADLOCK FALSE
