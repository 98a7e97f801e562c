------------------------------ MODULE PeakToken ------------------------------
(***************************************************************************)
(* The token buckets of include/peak_token.h, shared by threads each of    *)
(* which looks at the clock of PeakClock once per time slice: a thread may *)
(* come with a timestamp that is older than the one another has left in    *)
(* the bucket.  peak_token_credit() holds a lock, so it is one action.     *)
(***************************************************************************)
EXTENDS PeakClock, PeakThreads, FiniteSetsExt

CONSTANTS
  Rate,      \* the tokens per second of peak_token_init(), 0 for no limit
  Wants,     \* the numbers of tokens asked for
  MaxCalls   \* bound: the calls of peak_token_credit()

ASSUME TokenAssumption ==
  /\ Rate \in Nat /\ Wants \subseteq Nat \ {0} /\ MaxCalls \in Nat
  /\ \E most \in Wants : \A want \in Wants : want <= most

VARIABLES
  now,      \* per thread: the mono_msec of its time slice
  have,     \* bucket.have
  ts_ms,    \* bucket.ts_ms
  lent,     \* per thread: what it was granted last and may reimburse
  calls,    \* history: the calls so far
  ticks,    \* history: those that have earned
  earned,   \* history: the tokens earned
  spent     \* history: the tokens taken out and not reimbursed

tokenVars == <<now, have, ts_ms, lent, calls, ticks, earned, spent>>
vars == <<clockVars, tokenVars>>

TypeOK ==
  /\ ClockTypeOK
  /\ now \in [Threads -> Nat]
  /\ have \in Int /\ ts_ms \in Nat
  /\ lent \in [Threads -> Wants \cup {0}]
  /\ calls \in 0 .. MaxCalls

Init ==
  /\ ClockInit
  /\ now = [t \in Threads |-> 0]
  /\ have = Rate
  /\ ts_ms = 0
  /\ lent = [t \in Threads |-> 0]
  /\ calls = 0 /\ ticks = 0 /\ earned = 0 /\ spent = 0

\* A thread takes the time for a time slice, as the users of the library do.
Slice(t) ==
  /\ now[t] # mono["msec"]
  /\ now' = [now EXCEPT ![t] = mono["msec"]]
  /\ UNCHANGED <<clockVars, have, ts_ms, lent, calls, ticks, earned, spent>>

\* A variant that credits all the time there was.
EarnsAlways(t) == now[t] # ts_ms

\* Is there time to be credited?
Earns(t) == now[t] > ts_ms

\* A variant that rounds up.
CreditRounded(t) ==
  IF Earns(t) THEN ((now[t] - ts_ms) * Rate + Res - 1) \div Res ELSE 0

Credit(t) == IF Earns(t) THEN ((now[t] - ts_ms) * Rate) \div Res ELSE 0

\* A variant that does not limit the balance.
Unlimited(n) == n

Limited(n) == IF n > Rate THEN Rate ELSE n

\* The balance with the time that has passed.
Balance(t) == IF Earns(t) THEN Limited(have + Credit(t)) ELSE have

\* A request is granted as a whole if there is anything left.
Grants(balance) == balance > 0

\* The effect of _peak_token_credit() on the bucket's time.
Count(t) ==
  /\ ts_ms' = IF Earns(t) THEN now[t] ELSE ts_ms
  /\ ticks' = IF Earns(t) THEN ticks + 1 ELSE ticks
  /\ earned' = earned + Credit(t)
  /\ calls < MaxCalls
  /\ calls' = calls + 1
  /\ UNCHANGED <<clockVars, now>>

\* What _peak_token_credit() makes of a request, granted or not.
Request(t, want) ==
  /\ Count(t)
  /\ IF Grants(Balance(t))
     THEN /\ have' = Balance(t) - want
          /\ spent' = spent + want
          /\ lent' = [lent EXCEPT ![t] = want]
     ELSE /\ have' = Balance(t)
          /\ UNCHANGED <<spent, lent>>

\* "and I'm like, yeah, whatever": granted, and the bucket is left alone.
Whatever ==
  /\ calls < MaxCalls
  /\ calls' = calls + 1
  /\ UNCHANGED <<clockVars, now, have, ts_ms, lent, ticks, earned, spent>>

\* peak_token_credit(); without a limit there is nothing to be counted.
peak_token_credit(t, want) == IF Rate = 0 THEN Whatever ELSE Request(t, want)

\* peak_token_credit() with a negative want: what was not used is returned.
\* Without a limit nothing is lent.
Reimburse(t) ==
  /\ lent[t] # 0
  /\ Count(t)
  /\ have' = Balance(t) + lent[t]
  /\ spent' = spent - lent[t]
  /\ lent' = [lent EXCEPT ![t] = 0]

Next ==
  \/ (\E t \in Timestamps : Packet(t)) /\ UNCHANGED tokenVars
  \/ \E t \in Threads :
       \/ Slice(t)
       \/ \E want \in Wants : peak_token_credit(t, want)
       \/ Reimburse(t)

Spec == Init /\ [][Next]_vars
-----------------------------------------------------------------------------
\* What a bucket gives at once when there is but one token left.
Burst == Max(Wants)

(***************************************************************************)
(* Threads that share a bucket never get more out of it than it had in the *)
(* beginning and what the time on their clocks allows for, plus a single   *)
(* burst: no time is credited twice, whatever order they come in.          *)
(***************************************************************************)
SpendBounded ==
  /\ spent + have <= Rate + earned
  /\ Res * spent < Res * (Rate + Burst) + Rate * ts_ms
  /\ ts_ms <= mono["msec"]

(***************************************************************************)
(* A bucket saves up a second's worth of tokens and not more, but for what *)
(* its threads give back: a reimbursement may come when the bucket is full *)
(* again, and is limited with the next millisecond only.                   *)
(***************************************************************************)
SavingsBounded ==
  have + SumFunction(lent) <= Rate + Burst * Cardinality(Threads)

(***************************************************************************)
(* Fractions of a token are lost with every call that earns, as the time   *)
(* they were earned in is used up: less than a token each, but all of them *)
(* if a bucket of less than Res tokens per second is asked too often.      *)
(***************************************************************************)
RoundingBounded ==
  Rate * ts_ms - Res * earned \in 0 .. (Res - 1) * ticks

(***************************************************************************)
(* No order of calls and no age of a thread's time slice gets more out of  *)
(* a bucket, or more into it, than its rate allows for.                    *)
(***************************************************************************)
CreditSound == TypeOK /\ SpendBounded /\ SavingsBounded
=============================================================================
