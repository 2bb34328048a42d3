SPECIFICATION Spec
CONSTANTS
    Tasks = {t1, t2, t3}
    Clients = {c1, c2, c3}
    None = None
SYMMETRY Symmetry
PROPERTIES
    LossesExplained
    WorkingSpared
