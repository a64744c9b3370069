SPECIFICATION Spec
CONSTANTS
    s1 = s1
    s2 = s2
    w1 = w1
    w2 = w2
    w3 = w3
    w4 = w4
    Swapper = Swapper
    Session <- Sessions
    Worker <- ThreeWorkers
    Swaps = TRUE
    Capacity = 8
    MaxMessages <- ThreeEach
    MaxStarts = 0
    Home <- OneCrew
INVARIANTS
    OneWorkerPerSession
