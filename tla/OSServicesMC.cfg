SPECIFICATION ServicesSpec
CONSTANTS
    f = f
    d = d
    up = up
    long = long
    Name <- MCName
    Directory <- MCDirectory
    NULL = NULL
    Blank = Blank
    Nothing = Nothing
    CloseFailures = 2
    Arguments <- MCArguments
    Lengths = {0, 1, 3}
    Slack = 2
    MaxFiles = 5
INVARIANTS HandlesKept CommandLineFits
PROPERTIES Implements CallsReturn
CHECK_DEADLOCK FALSE
