SPECIFICATION Spec
CONSTANTS
    Original = original
    Bundled = bundled
    NoPackage = noPackage
    Installs = {i1, i2}
    Uninstalls = {u1}
    Downloads = {d1}
    HasBundle = TRUE
    MaxArchives = 2
    MaxCrashes = 2
    MaxFailures = 1
SYMMETRY Symmetry
INVARIANTS
    NeverLost
    UntouchedUntilCommitted
    RetiredStaysAway
    VaultKept
    BootSucceeds
