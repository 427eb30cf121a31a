CONSTANTS
  u = u  o = o  g = g  t1 = t1  w1 = w1  w2 = w2
  None = None
  Users = {u}
  Owners = {o}
  Chats = {g}
  Tokens = {t1}
  Workers = {w1, w2}
  Inputs <- Mixed
  Before <- Activated
  Crowded = {"bannedChats"}
  TTL <- Lifetimes
  PrivateMode = FALSE
  TokenEnabled = TRUE
  ConfigBanned = {}
  MaxMessages = 3
  MaxAge = 2
SYMMETRY SameWorkers
SPECIFICATION Spec
INVARIANT WrongOnlyByRace
INVARIANT AdmittedByTheBook
INVARIANT OneTokenOneActivation
PROPERTY AnswersAreRecent
