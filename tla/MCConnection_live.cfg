CONSTANTS
    q1 = q1
    t1 = t1
    e1 = e1
    s1 = s1
    Cmds = {q1,t1,e1,s1}
    Executes = {e1}
    Timed = {t1}
    Silent = {s1}
    Handshake = Handshake
    Quit = Quit
    None = None
    MaxParts = 1
    Calls = {"pause", "end", "connect"}
    Faults = {"leave", "row", "throw", "error"}
SPECIFICATION FairSpec
CHECK_DEADLOCK FALSE
 
PROPERTIES CalledBack 
