\* Two calls, two ringtones, all settings.
SPECIFICATION AlertSpec
CONSTANTS
    Calls = {1, 2}
    NoAlert = 0
    Bundled = {"089", "090"}
    Default = "090"
    Settings <- MCSettings
INVARIANT AlertLeavesNoTrace
