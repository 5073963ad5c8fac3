CONSTANTS
    v = v
    snap = snap
    new = new
    t = t
    vLocal = vLocal
    vShared = vShared
    snapShared = snapShared
    newLocal = newLocal
    lost = lost
    others = others
    loc = loc
    nfs = nfs
    Entries = {e1, e2}
    Vms = {v, snap, new}
    Snapshots = {snap}
    Newcomers = {new}
    Templates = {}
    Disks = {vLocal, vShared, snapShared, newLocal, lost, others}
    Srs = {loc, nfs}
    Local = {loc}
    DisksOf <- MCDisksOf
    SrOf <- MCSrOf
    None = None
    MaxFaults = 1
SPECIFICATION Spec
INVARIANTS
    TypeOK
    OutcomeIsTrue
PROPERTIES
    RemovesNoMore
    CleanEnds
