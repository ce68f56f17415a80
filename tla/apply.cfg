SPECIFICATION Spec
CONSTANTS
    Configs = {c0,c1,c2}
    Empty = empty
    Initial = c0
    Partial = partial
    NameServers = 3
    Overrides <- SomeOverrides
INVARIANT ApplyFitsTheThreshold
PROPERTY IsTransactional
