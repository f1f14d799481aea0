SPECIFICATION KernelSpec
CONSTANTS
  Clients = {c1, c2}
  MAX_EVENTS = 3
  MaxSerial = 5
  Chars = {a, b}
  Mute = {release}
  NoKey = NoKey
  MaxTyped = 6
  MaxRead = 3
  Distances <- MCDistances
  Buttons = {5}
  MaxMoves = 3
  MaxLosses = 1
  Size = 3
  Players = {p1, p2}
  Prober = p1
  Other = Other
  BUFFER_SIZE = 2
  SystemLen = 4
  WavLens <- MCWavLens
  MaxPlays = 3
  Names = {x, y}
  Inos = {3, 4, 5}
  Former <- MCFormer
  MaxCreates = 3
  MaxFaults = 2
  MAX_CLIENTS = 3
  MaxConns = 5
INVARIANTS
  EventsDeliveredOnce
  InputKept
  SoundPortions
  FilesOnDisk
  ClientsApart
PROPERTIES
  ImplementsFifo
  SoundEnds
CHECK_DEADLOCK FALSE
