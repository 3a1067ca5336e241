\* One thread, three imports, no fault.
SPECIFICATION Spec
CONSTANTS
    Builders = {b1}
    MaxImports = 3
    MaxFaults = 0
    None = None
    Reserved = Reserved
INVARIANT ReadyHasChecksum
CHECK_DEADLOCK FALSE
