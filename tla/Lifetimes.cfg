SPECIFICATION Spec
CONSTANTS
    Allocators = {1, 2}
    Reserve = 2
    Sizes = {1, 3}
    Alignments = {4}
    MaxAlign = 2
    Addresses = {0, 2}
    MaxBlocks = 2
    MaxDepth = 1
    MaxArenas = 3
    Eithers = {e1, e2, p1, p2}
    Maybes = {m1, m2}
    Plain = {p1, p2}
    Resources = {r1, r2, r3}
    Nothing = Nothing
    ByPointer = {u1, u2}
    ByValue = {v1}
    Deps = {d1, d2}
    Objects = {o1, o2}
    Lifetimes = {l1, l2, l3}
    Null = Null
    Logs = {a, b, c}
    Files = {f, g}
    Flags = {{}, {"syslog"}}
    LevelNames = {"info", "loud"}
    PrefixLengths = {1, 3}
    PrefixSize = 6
    MaxPath = 8
    NoFile = NoFile
    Threads = {t0, t1, t2}
    MainThread = t0
    Sessions = {"s1"}
    Settings <- MCSettings
    Addrs = {a1, a2}
    Conns = {c1, c2}
    MaxFds = 2
    QueueSize = 1
    MaxData = 1
    None = None
INVARIANTS
    AllocatorInv
    EitherInv
    DepInv
    LogInv
    OnlyTasksHold
    Wakeable
    DescriptorInv
PROPERTIES
    StopEnds
    BacklogServed
    GoneIsClosed
CHECK_DEADLOCK FALSE
