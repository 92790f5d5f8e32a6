\* What the settings form tells the user, against the code.
SPECIFICATION SettingsSpec
CONSTANTS
    Rams = {1, 2}
    Versions = {1, 2}
    MaxTouches = 6
PROPERTIES
    SavedJarIsThePick
\* The user's touches are bounded.
CHECK_DEADLOCK FALSE
