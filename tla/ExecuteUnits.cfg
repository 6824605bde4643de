CONSTANTS
    WidthArgs = 3
    Menus <- MCMenus
SPECIFICATION Spec
INVARIANTS
    UnitsInv
    UnitResultsAreOwn
PROPERTY EveryInstructionLeaves
