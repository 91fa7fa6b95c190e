SPECIFICATION Spec
CONSTANTS
    x = x
    y = y
    Axes <- TwoAxes
    HeartbeatTicks = 3
    ControlTicks = 3
SYMMETRY AxesSymmetry
INVARIANTS
    TypeOK
    StopsWhenSilentUnlessCut
    UnitStopsWhenSilentUnlessCut
    MovingIsWatched
    TurnStopsUnlessCut
