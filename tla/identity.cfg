\* Two calls at once of three installations on two machines, and the MAC address
\* of a third machine; two rows.
SPECIFICATION Spec
CONSTANTS
    Device = {d1, d2}
    i1 = i1
    i2 = i2
    i3 = i3
    m1 = m1
    m2 = m2
    m3 = m3
    Installation = {i1, i2, i3}
    Machine = {m1, m2, m3}
    MachineOf <- TwoAndOne
    Task = {t1, t2}
    None = None
SYMMETRY Symmetry
CONSTRAINT Bounded
INVARIANTS TypeOK StrangersApart OneRowPerMac IdentityIsCanonical HelperIsAccepted
