\* Two threads load documents, one logs; the other variable has one listener.
SPECIFICATION FairSpec
CONSTANTS
  Setters = {s1, s2}
  Writers = {w1}
  Users = {u1}
  Docs <- DocsDef
  Names <- NamesDef
  EventLevels <- EventLevelsDef
  Default <- DefaultDef
  Initial <- InitialDef
  MaxLoads = 2
INVARIANTS LoggersMatchConfig RemovedStaysSilent ListenersKnowValue SavedConfigReloads FormattersAreSound
PROPERTIES LoadsFinish
