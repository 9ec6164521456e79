SPECIFICATION Spec
CONSTANTS
  NoUser = "nobody"
  DayLength = 10
  PageSize = 2
  PlainTabs = {"monitor"}
  LogPageSize = 2
  Today = 1
  Dates = {0, 1}
  Channels = {1, 2}
  Users = {"admin"}
  StoredVideos <- MCStoredVideos
  StoredImages <- MCStoredImages
  Uploads <- MCUploads
  SaveNames <- MCSaveNames
  SendsToken = FALSE
  LoginAgain = TRUE
  MaxClicks = 3
CHECK_DEADLOCK FALSE
INVARIANTS
  LoggedInIsAuthorized
