SPECIFICATION Spec
CONSTANTS
    u1 = u1  u2 = u2  u3 = u3
    sliceA = sliceA  sliceB = sliceB  ZeroNssai = zero
    s1 = s1  s2 = s2
    UEs <- MCUEs
    Nssai <- MCNssai
    UeNssai <- MCUeNssai
    BwpStart <- MCBwpStart
    BwpSize <- MCBwpSize
    NumBeams = 1
    Bandwidth = 5
    Symbols <- MCSymbols
    MinRbSize = 2
    MaxNumUes = {1, 2}
    MaxNumSlices = 2
    CtrlLists <- MCCtrlLists
    RetxSizes = {3}
    Placements <- OneBeam
    SlBitmaps <- MCSlBitmaps
    Grids <- MCGrids
    MaxSlots = 1
INVARIANTS
    MaxNumUeRespected
