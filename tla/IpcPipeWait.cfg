SPECIFICATION FairSpec
CONSTANTS
  Procs = {p1, p2}
  MaxCloses = 0
  MaxPins = 0
  Sizes = {3}
  Lengths = {1, 2}
  MaxWritten = 3
PROPERTY ReaderResumes
