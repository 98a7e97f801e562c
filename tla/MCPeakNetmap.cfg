\* An adapter and both ends of a pipe compete for a table of two.  Packets
\* arrive on the host ring as well, which the callers do not look at.
CONSTANTS
  Nics = {em0}
  Pipes = {p0}
  MaxDev = 2
  RingSize = 2
  Modes = {"wire"}
  MaxPackets = 3
SPECIFICATION Spec
INVARIANTS ClaimSound DeliveredOnce NoDeviceOvertaken
