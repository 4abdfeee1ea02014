(* A raster of two columns sampled to sixteen cells. *)
CONSTANTS
    HalfTurn = 6
    Lefts = {12}
    Widths = {2}
    Steps = {1}
    CoverSides = {2}
    GridSides = {2, 12}
    MaxHole = 1
    MaxMissing = 0
    Spacings = {0}
    ModelWidth = 3
    CellBudgets = {16}
    MemoryBudgets = {16}
    TriangleBudgets = {0}
    Elevations = {0, 2}
    Base = 2
    MinBase = 1
    HeightLimit = 6
    Visible = 2
    MinScale = 1
    MaxScale = 3
SPECIFICATION TerrainSpec
INVARIANT AdaptedGridIsAffordable
CHECK_DEADLOCK FALSE
