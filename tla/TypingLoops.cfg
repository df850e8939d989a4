\* Discord's stop functions, with messages handled one at a time.
SPECIFICATION Spec
CONSTANTS
    Inbound = {m1, m2}
    Kind = "byChat"
    Overlap = FALSE
    Repliers = {r1}
    MaxReplies = 1
    None = None
CHECK_DEADLOCK FALSE
INVARIANT RecordedIsShown
