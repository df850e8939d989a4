\* Code blocks whose first line is almost a chunk are among these texts.
SPECIFICATION Spec
CONSTANTS
    Size = 5
    maxLen = 13
    minBuffer = 3
    newlineWindow = 4
    spaceWindow = 3
    few = 2
CHECK_DEADLOCK FALSE
PROPERTY Returns
