SPECIFICATION Spec
CONSTANTS
    a = a
    b = b
    Names = {a, b}
    Nodes = {"n1", "n2"}
    VGs = {"vg1"}
    Provisioner = "lvm"
    Other = "other"
    Topologies <- MCTopologies
    Classes <- MCClasses
    None = None
INVARIANTS TypeOK TypesAgree NodeKept
SYMMETRY Swap
