SPECIFICATION Spec
CONSTANTS
    Charts = {1, 2, 3, 4, 5, 6, 7}
    Practised = {1, 2, 3}
    AxisOf <- MCAxisOf
    Menus <- MCMenus
    Keys = {"s1", "s2"}
    Draw <- MCDraw
    Intervals = {1, 2}
    Sources = {"collector", "daily"}
    Days = 1
    MaxDay = 3
    MaxPlays = 2
    Playable = {1, 4}
    Outcomes = {TRUE}
    MenuDuringAssign = FALSE
INVARIANTS
    ChartsPlayOnePart
    DuplicatesAreReal
PROPERTIES
    
    TargetsSettle
CHECK_DEADLOCK FALSE
