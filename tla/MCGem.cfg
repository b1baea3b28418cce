SPECIFICATION Spec
CONSTANTS
    o1 = o1
    o2 = o2
    j1 = j1
    j2 = j2
    Objs = {o1, o2}
    Jobs = {j1, j2}
    Spaces = {s1}
    Takes <- BothAndOne
    Imports = {o1}
    Shared = {o1}
    MaxShares = 1
INVARIANTS HoldersAreCounted InFlightIsMapped LruTellsTheState NothingMapsTheGone
PROPERTIES RetainedIsKept
