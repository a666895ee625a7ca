SPECIFICATION FairSpec
CONSTANTS
    MaxThreads = 7
    NULL = NULL
    Fds = {1, 2}
    ServFd = 0
    NoVty = NoVty
    Commands = {"exit", "show", "length 0", "configure", "line vty", "end",
                "no exec-timeout", "login"}
    Screens = 2
    Password = TRUE
    Advanced = TRUE
    Denies = TRUE
    MaxConns = 2
    MaxInputs = 0
    MaxResets = 1
PROPERTY FinishCloses
CHECK_DEADLOCK FALSE
