CONSTANTS
    WidthArgs = 3
    Menus <- MCMenus
SPECIFICATION Spec
PROPERTY VectorCastsEnd
