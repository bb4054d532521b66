SPECIFICATION Spec
CONSTANTS
    Clients = {"page", "program", "prompt"}
    MessageIds = {m1, m2, m3}
    MaxKeys = 2
    MaxMessages = 3
    MaxStories = 2
    MaxRequests = 5
    None = None
INVARIANTS ConfirmationSound PageInStep NoEarlyRepeat NothingKept
SYMMETRY Symmetry
CHECK_DEADLOCK FALSE
