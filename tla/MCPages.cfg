SPECIFICATION Spec
CONSTANTS
    MaxClicks = 3  MaxTaps = 4  MaxSets = 3
    ColorKeys = {button, deco}  Deco = deco  Hues = {"red", "blue"}  Opacities = {0, 50, 100}  MaxEdits = 2
    MaxLines = 4  Ring = 3  Window = 2  MaxLog = 4  MaxActs = 3
    Menus = {m1, m2, m3}
    MaxFormEdits = 3  MaxPicks = 5  MaxMoves = 3  OneClass = FALSE  MaxWizActs = 4
INVARIANTS PagesTypeOK AppearanceSettles LooksKept ScreenTrue MenuSound WifiFormHonest WispWhole StepsSound WizardHonest
PROPERTIES DotFollows SlideKeepsColor LogsSettle SplitComesBack
CHECK_DEADLOCK FALSE
