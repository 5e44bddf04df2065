SPECIFICATION Spec
CONSTANTS
  mia = mia
  sam = sam
  People = {mia, sam}
  Managers = {sam}
  Tabs <- SmallTabs
  UserOf <- SmallUserOf
  Nobody = nobody
  Keys = {first, second}
  MaxTasks = 3
  Drafted = {1}
  MaxDraft = 3
INVARIANTS AnsweredOnce
PROPERTIES AnsweredStays NobodyDispossessed DraftsCompose
CHECK_DEADLOCK FALSE
