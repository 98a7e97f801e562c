------------------------------ MODULE PeakClock ------------------------------
(***************************************************************************)
(* The clock of include/peak_timeslice.h and what feeds it: the timestamps *)
(* of packets, as they are in a capture file, or as lib/peak_netmap.c      *)
(* passes them on after ignoring small leaps backwards.                    *)
(*                                                                         *)
(* Time is in microseconds; Res of them are a millisecond, and Res of      *)
(* those a second (1000 in the code).  A timestamp may leap anywhere.      *)
(***************************************************************************)
EXTENDS Integers

CONSTANTS
  Res,       \* the resolution: 1000
  Leap,      \* the leap backwards in seconds that netmap believes: 3
  MaxTime,   \* bound: the latest timestamp
  MaxLeaps   \* bound: the number of leaps backwards

ASSUME ClockAssumption ==
  /\ Res \in Nat \ {0} /\ Leap \in Nat \ {0} /\ MaxTime \in Nat /\ MaxLeaps \in Nat

VARIABLES
  live,    \* do timestamps come from netmap, or from a file?
  ts,      \* the timestamp of the last packet: netmap_ts, if live
  off,     \* mono_sec_off, mono_msec_off, mono_usec_off
  mono,    \* mono_sec, mono_msec, mono_usec
  leaps    \* history: the leaps backwards that were not ignored

clockVars == <<live, ts, off, mono, leaps>>

Units == {"sec", "msec", "usec"}
Sec(t) == t \div (Res * Res)
In(t, u) == CASE u = "sec" -> Sec(t) [] u = "msec" -> t \div Res [] u = "usec" -> t

Timestamps == 0 .. MaxTime

ClockTypeOK ==
  /\ live \in BOOLEAN
  /\ ts \in Timestamps
  /\ off \in [Units -> Int]
  /\ mono \in [Units -> Nat]
  /\ leaps \in 0 .. MaxLeaps

\* TIMESLICE_INIT(), and TIMESLICE_CALIBRATE() with the first packet, at any
\* fraction of a second.
ClockInit ==
  /\ live \in BOOLEAN
  /\ ts \in {t \in Timestamps : Sec(t) = 0}
  /\ off = [u \in Units |-> In(ts, u)]
  /\ mono = [u \in Units |-> 0]
  /\ leaps = 0

\* ___peak_netmap_recv(): whole seconds count, and only forwards or far back.
netmap_ts(t) ==
  IF Sec(t) > Sec(ts) \/ Sec(ts) - Sec(t) >= Leap THEN t ELSE ts

\* A variant that takes the time as it is.
OffStays(now, prev, o) == o

\* A variant that begins anew.
OffAnew(now, prev, o) == IF now - o < prev THEN now ELSE o

\* _TIMESLICE_RECALIBRATE(): the offset, so that now is not before prev.
Recalibrated(now, prev, o) == IF now - o < prev THEN now - prev ELSE o

\* TIMESLICE_ADVANCE()
TIMESLICE_ADVANCE(t) ==
  LET o == [u \in Units |-> Recalibrated(In(t, u), mono[u], off[u])] IN
  /\ off' = o
  /\ mono' = [u \in Units |-> In(t, u) - o[u]]

\* A timestamp is passed on to the clock.
Advance(passed) ==
  /\ passed < ts => leaps < MaxLeaps
  /\ ts' = passed
  /\ TIMESLICE_ADVANCE(passed)
  /\ leaps' = IF passed < ts THEN leaps + 1 ELSE leaps
  /\ UNCHANGED live

\* The next packet is read from a file ...
FromFile(t) == ~live /\ Advance(t)

\* ... or received from netmap, by a program that passes its time on.
FromNetmap(t) == live /\ Advance(netmap_ts(t))

Packet(t) == FromFile(t) \/ FromNetmap(t)
-----------------------------------------------------------------------------
(***************************************************************************)
(* No leap of the timestamps ever takes any of the three clocks back, nor  *)
(* does one of them stand still while time goes forward.                   *)
(***************************************************************************)
ClocksForward ==
  [][\A u \in Units :
       /\ mono'[u] >= mono[u]
       /\ In(ts', u) > In(ts, u) => mono'[u] - mono[u] = In(ts', u) - In(ts, u)]_clockVars

(***************************************************************************)
(* The clocks absorb leaps at their own resolution and so they drift       *)
(* apart, but by no more than one unit for every leap.                     *)
(***************************************************************************)
DriftBounded ==
  LET drift(fine, coarse) == mono[fine] - Res * mono[coarse]
      most == Res * (1 + leaps) - 1
  IN  drift("msec", "sec") \in -most .. most /\ drift("usec", "msec") \in -most .. most
=============================================================================
