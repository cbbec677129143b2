CONSTANTS
  save = save
  put = put
  get = get
  wipe = wipe
  w1 = w1
  w2 = w2
  w3 = w3
  w4 = w4
  Null = Null
  Transactions = {save, put, get, wipe}
  Area <- AreaMC
  Control <- ControlMC
  Data <- DataMC
  Synced = {save}
  UrgentOnes = {wipe}
  Stalling = {put, get, wipe}
  Careful = TRUE
  MaxTimes = 2
  MaxRefused = 1
SPECIFICATION LiveSpec
INVARIANTS
    TypeOK
    Undisturbed
PROPERTIES
    SuccessIsStored
    ImplementsTaskQueue
    EverythingEnds
CHECK_DEADLOCK FALSE
