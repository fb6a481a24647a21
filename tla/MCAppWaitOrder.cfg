CONSTANTS
    NPROC = 4
    TIME_SLICE_LEN = 2

SPECIFICATION AppSpec

INVARIANT PrintsAfterChild
