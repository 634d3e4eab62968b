SPECIFICATION Spec
CONSTANTS
    Handles = {h1, h2}
    Keys = {k1, k2}
    Values = {v1, v2}
    Nil = Nil
    MaxBatch = 3
    MaxFaults = 1
PROPERTY ImplementsTxMap
