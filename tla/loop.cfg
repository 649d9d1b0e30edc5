CONSTANTS
 NONE = NONE
 Slots = {s1, s2}
 Fds = {f1, f2, f3, f4}
 MaxScatter = 2
 MAX_EVENTS = 2
SYMMETRY Symmetry
SPECIFICATION Spec
INVARIANTS TypeOK RegistrationsLive  OneHolder
CHECK_DEADLOCK FALSE
