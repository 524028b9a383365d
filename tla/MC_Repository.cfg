\* Two callers, two fingerprints of two services, three saves.
SPECIFICATION Spec
CONSTANTS
    Callers = {c1, c2}
    Fingerprints = {f1, f2}
    Services = {s1, s2}
    ServiceOf <- MCServiceOf
    Analyses = {a1, a2}
    NoCaller = NoCaller
    MaxSaves = 3
    MaxClock = 2
    f1 = f1
    f2 = f2
    s1 = s1
    s2 = s2
INVARIANTS
    TypeOK
    IndexConsistent
    IdsFollowCreation
PROPERTIES
    OnlyRecurrenceGrows
    ImplementsStore
    CallsReturn
