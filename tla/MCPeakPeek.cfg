\* Single frames around every check, and traces of three packets, two flows.
SPECIFICATION Spec
CONSTANTS
  Traces <- MCTraces
  MaxFlows = 2
  MaxHeaders = 6
CHECK_DEADLOCK FALSE
INVARIANTS ParserSound PayloadDecides LabelsAgree
PROPERTY LabelRemembered
