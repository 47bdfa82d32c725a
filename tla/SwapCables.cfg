SPECIFICATION Spec
CONSTANTS
    Cables = {k1, k2}
    Interfaces = {i1, i2, i3, i4}
    OtherPorts = {f1}
    Nowhere = Nowhere
    None = None
SYMMETRY Symmetry
INVARIANTS
    AtMostOneLoose
    OthersStayPut
    DoneMeansSwapped
    NeverRefused
