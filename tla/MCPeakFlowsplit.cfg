\* Two flows fit into the tracker, six cells into the buffer.
SPECIFICATION Spec
CONSTANTS
  BufSize = 6
  Inputs <- MCFiles
  flow_count = 2
  file_count = 3
  MaxFails = 1
CHECK_DEADLOCK FALSE
INVARIANTS  ReadsBack
PROPERTY Terminates
