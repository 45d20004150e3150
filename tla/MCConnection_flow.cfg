CONSTANTS
    q1 = q1
    e1 = e1
    s1 = s1
    Cmds = {q1,e1,s1}
    Executes = {e1}
    Timed = {}
    Silent = {s1}
    Handshake = Handshake
    Quit = Quit
    None = None
    MaxParts = 2
    Calls = {"pause", "pauseIdle", "end", "destroy"}
    Faults = {"login", "leave", "throw", "error"}
SPECIFICATION Spec
CHECK_DEADLOCK FALSE
INVARIANTS InStep StatementReady NoneDropped
PROPERTIES  LossSurfaces
