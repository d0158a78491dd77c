SPECIFICATION Spec
CONSTANTS
    None = None
    Notice = Notice
    a1 = a1
    a2 = a2
    b1 = b1
    d = d
    w1 = w1
    w2 = w2
    Commands <- MCCommands
    Dumplogs = {d}
    Workers = {w1, w2}
    Worker0 = w1
    WorkerOf <- MCWorkerOf
    UserOf <- MCUserOf
    Starting = {}
    Web = {b1}
    Workload <- ShortWorkload
    BufferLimit = 2
    MAX_BUFFER_LENGTH = 1
    MaxNotices = 0
    MaxFaults = 0
INVARIANT
    AnswerIsOwn
CHECK_DEADLOCK FALSE
