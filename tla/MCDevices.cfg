SPECIFICATION DevicesSpec
CONSTANTS
  Units = {"store", "flash", "wpa", "usb", "tasks", "timers", "input"}
  ns1 = ns1
  key1 = key1
  keyChunk = keyChunk
  keyId = keyId
  keySum = keySum
  valBlob = valBlob
  valEmpty = valEmpty
  valCal = valCal
  Keys = {key1, keyChunk, keyId, keySum}
  Values = {valBlob, valEmpty, valCal}
  BodyWords <- StoreBody
  CAPACITY = 10
  SECTOR_SIZE = 5
  SCRATCH = 8
  MAX_FAULTS = 1
  Users = {u1, u2}
  Namespaces = {ns1}
  MAX_HANDLES = 1
  KeyOf <- StoreKeyOf
  BlobValues = {valBlob}
  EmptyValue = valEmpty
  Chunks <- StoreChunks
  Identity <- StoreIdentity
  SumKey = keySum
  Calibrations = {valCal}
  NoName = NoName
  Irqs = {i1, i2}
  MAX_HANDLERS = 2
  PAGE_SIZE = 2
  CHUNK = 2
  MAX_WORDS = 2
  Pmks = {"right", "wrong"}
  ApPmk = "right"
  MAX_ASSOC = 2
  MAX_SNONCE = 3
  MAX_RESENDS = 2
  RING = 3
  PACKET = 2
  Traffic = {"in", "out", "none"}
  EVENT_BUDGET = 1
  Replies = {2, 3}
  MAX_SETUPS = 2
  MAX_BYTES = 4
  MAX_BUS = 1
  BLOB_SLOTS = 2
  BlobIds = {0, 1, 2}
  Makers = {m1}
  MAX_MADE = 4
  Handles = {h1, h2}
  ETS_SLOTS = 1
  Delays = {0, 1, 3}
  IDLE_WAKE = 2
  MAX_NOW = 6
  MAX_ARMS = 3
  NoAlarm = NoAlarm
  NoHandle = NoHandle
  QUEUE_LEN = 2
  Posters = {w1, w2}
  IDLE_WAKE_MS = 2
  RX_SLOTS = 3
  MAX_INPUT = 4
INVARIANTS
  TypeDevices AckedSurvives FlashSafe KeysAgree
  UsbInStep GlueRight
PROPERTY KeysAfterFour
SYMMETRY Alike
CHECK_DEADLOCK FALSE
