SPECIFICATION Spec
CONSTANTS
    VC = vc
    VS = vs
    Null = null
    Bases = {0, 2}
INVARIANT TypeOK ConfigurationConsistent NothingLeftBehind
PROPERTY NothingAppendedLate
