SPECIFICATION Spec
CONSTANTS
    Vars = {x, y}
    Mems = {f, g}
    o = o
    Objs = {o}
    Owner <- MCOwner
    Atom = atom
    None = none
    MaxCells = 2
    MaxDeps = 1
    MaxEdges = 2
SYMMETRY Symmetry
VIEW View
PROPERTIES
    Implements
CHECK_DEADLOCK FALSE
