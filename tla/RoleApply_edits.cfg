SPECIFICATION Spec
CONSTANTS
    Privileges = {select_db, insert_db, select_system}
    Settings = {readonly, capped}
    Intervals = {hour, day}
    Maxima = {small, large}
    None = None
    MayRetract = FALSE
INVARIANTS
    NeverRefused
    Converged
PROPERTY
    GrantsKept
