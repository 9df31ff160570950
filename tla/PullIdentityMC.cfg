CONSTANTS
    Runs = {r1, r2}
    Ids = {i1, i2, i3, i4}
    Nobody = Nobody
SPECIFICATION Spec
INVARIANTS
    RunAloneServes
    PinnedIsKept
    BindingKept
SYMMETRY MCSymmetry
