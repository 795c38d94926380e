\* Two threads; the first save of the script has a syntax error, the second requires
\* one module more; the module that is saved is in a folder.
SPECIFICATION Spec
CONSTANTS
    t1 = t1
    t2 = t2
    m1 = m1
    m2 = m2
    script = script
    None = None
    Threads = {t1, t2}
    Modules = {m1, m2}
    Script = script
    Requires <- ThenFirst
    Broken = {1}
    BaseName <- SameName
    MixedCase = {m2}
    MaxSaves <- ScriptTwice
INVARIANTS TypeOK MissedInWindowsOnly IndexIsComplete
PROPERTY NeverGoesBack
SYMMETRY Symmetric
