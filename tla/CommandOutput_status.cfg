\* The exit status is read before it has arrived.
SPECIFICATION Spec
CONSTANTS
    BufferSize = 3
    MaxBytes = 2
    None = None
    Status <- MCStatus
PROPERTIES
    ExitCodeIsStatus
