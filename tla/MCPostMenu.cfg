CONSTANTS
  Controls = {c1, c2}
  Drafts = {c2}
  MaxMenus = 3
  MaxTimers = 3
  Away = Away
  NoMenu = NoMenu
SPECIFICATION Spec
INVARIANT CloseTimerTracked
PROPERTY LeftMenuCloses
