SPECIFICATION Spec
CONSTANTS
  Screens = {"home", "#a"}
  Home = "home"
  Chars = {"x", "!"}
  Bang = "!"
  NUL = NUL
  Size = 3
  Lengths = {1, 4}
  Windows <- MCWindows
  PromptLen = 2
  MaxLog = 3
  MaxMsgs = 4
  MaxKeys = 5
  MaxWheel = 3
  MaxEvents = 7
INVARIANTS TypeOK DraftsAreKept LinesMeetTheirScreen
PROPERTY DrawShowsSection
