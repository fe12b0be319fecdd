SPECIFICATION Spec
CONSTANTS
    Privileges = {select_db}
    Settings = {readonly, capped}
    Intervals = {hour, day}
    Maxima = {small, large}
    None = None
    MayRetract = TRUE
INVARIANT
    Converged
