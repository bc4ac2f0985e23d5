\* The renewals of a working install fail until its lease is over.
SPECIFICATION Spec
CONSTANTS
    Installs = {1, 2, 3}
    Jobs = {j1, j2}
    Admins = {a1, a2}
    RenewalsFail = TRUE
    MaxCrashes = 2
SYMMETRY Symmetry
INVARIANT WritesAlone
