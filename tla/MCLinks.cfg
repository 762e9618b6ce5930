SPECIFICATION Spec
CONSTANTS
    Handles = {h1, h2}
    NoConn = NoConn
    MaxBleEvents = 2
    MaxBleChanges = 6
    Statuses = {144, 242, 248, 249}
    Us = 2
    Hi = 2
    Lo = 2
    DefaultMtu = 8
    Mtus = {13}
    PktMin = 5
    PktMax = 8
    BurstMax = 2
    MaxQueue = 1
    MaxLate = 1
    MaxStep = 2
    MaxSends = 1
    Gpios = {4, 11, 17, 99}
    Taken = {11}
    GpioMax = 48
    NoPin = 0
    MaxDin = 4
    Events <- MCEvents
    Others <- MCOthers
    PackWords = 12
    ReadWords = 22
    Depth = 2
    MaxNet = 2
    MaxOscChanges = 4
    Ports = {9000, 9001}
    Inputs = {knob1, pad1}
    Values = {0, 64, 127}
    NoName = NoName
    Slots = 1
    MaxListens = 3
    MaxSets = 3
    MaxDefines = 3
    Names = {home, stage}
    Secrets = {p, q}
    None = None
    MaxWifiEvents = 2
    MaxNetCommands = 3
    MaxLosses = 2
CHECK_DEADLOCK FALSE
INVARIANT PeripheralKept
INVARIANT PacketIsRead
INVARIANT DriverIsAsSaid
 
INVARIANT ListenerKept
 
