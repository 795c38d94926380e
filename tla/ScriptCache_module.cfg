\* One thread; the saved script requires one module more.
SPECIFICATION Spec
CONSTANTS
    t1 = t1
    t2 = t2
    m1 = m1
    m2 = m2
    script = script
    None = None
    Threads = {t1}
    Modules = {m1, m2}
    Script = script
    Requires <- ThenSecond
    Broken = {}
    BaseName <- Plain
    MixedCase = {}
    MaxSaves <- Once
INVARIANT ChangesTakeEffect
