CONSTANTS
    Reroutes = {r1, r2, r3}
    ExecOut = {flow}
    DataOut = {value}
    ExecIn = {run}
    DataIn = {arg}
    MaxWires = 4
SPECIFICATION Spec
SYMMETRY Symmetry
INVARIANTS TypeOK ReroutesAcyclic SingleWire RewireKeepsEnds
