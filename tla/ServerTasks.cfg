SPECIFICATION TaskSpec
CONSTANTS
  Workers = {w1, w2}
  FirstPid = 1000
  MaxHandle = 3
  Monitors = 2
  Quiet = {w2}
  MaxInstance = 2
  Threads = {t1, t2, t3}
  MaxLogs = 4
  MaxEntries = 9
  Data <- MCData
  MaxCalls = 3
  MaxRequests = 3
INVARIANTS
  WhatRunsBacked
  LogKept
  FilesRight
  RepliesRight
PROPERTY EndRecorded
CHECK_DEADLOCK FALSE
