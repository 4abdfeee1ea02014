(* One hole in a 7 x 7 raster sampled to sixteen cells. *)
CONSTANTS
    HalfTurn = 6
    Lefts = {12}
    Widths = {2}
    Steps = {1}
    CoverSides = {2}
    GridSides = {7}
    MaxHole = 1
    MaxMissing = 1
    Spacings = {0}
    ModelWidth = 3
    CellBudgets = {16}
    MemoryBudgets = {16}
    TriangleBudgets = {0}
    Elevations = {0, 2}
    Base = 2
    MinBase = 1
    HeightLimit = 6
    Visible = 2
    MinScale = 1
    MaxScale = 3
SPECIFICATION TerrainSpec
INVARIANT GenuineMaskIsAccepted
CHECK_DEADLOCK FALSE
