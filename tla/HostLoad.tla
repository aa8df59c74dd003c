------------------------------ MODULE HostLoad ------------------------------
(***************************************************************************)
(* The load record of one host (struct HI of lbagent/include/RouteLb.h)    *)
(* and the judgements the load balancer makes on it: how a reported call   *)
(* result turns an idle host into an overloaded one and back.  Pure        *)
(* operators on records; the clock is a parameter (one handler reads one   *)
(* second: a tick between its several calls of time() is not modelled).    *)
(*                                                                         *)
(* The rates of the configuration are floats.  A float is a fraction, so a *)
(* rate is written here in units of 1/RateUnit and every comparison is     *)
(* made exact; needErr and needSucc, computed in the code from a quotient  *)
(* and corrected once, are the exact ceilings.                             *)
(* Counters are unbounded: 2^32 calls within one window are out of reach.  *)
(***************************************************************************)
EXTENDS Integers

CONSTANTS
    InitSucc,       \* virtual successes a host that becomes idle starts with
    OvldErr,        \* virtual errors a host that becomes overloaded starts with
    ContinSuccLim,  \* successes in a row that make an overloaded host idle
    ContinErrLim,   \* errors in a row that make an idle host overloaded
    ClearTimo,      \* length of the statistics window of an idle host
    OvldWaitLim,    \* longest stay of a host in the overloaded state
    RateUnit,       \* the rates below are in units of 1/RateUnit
    SuccRate,       \* above this virtual success rate a host becomes idle
    ErrRate,        \* above this virtual error rate a host becomes overloaded
    WindErrRate,    \* real error rate at which a window counts as bad
    WindErrLim      \* bad windows in a row that make an idle host overloaded

ASSUME LimitsAssumption ==
    /\ InitSucc \in Nat /\ OvldErr \in Nat
    /\ ContinSuccLim \in Nat \ {0} /\ ContinErrLim \in Nat \ {0}
    /\ ClearTimo \in Nat \ {0} /\ OvldWaitLim \in Nat \ {0}
    /\ WindErrLim \in Nat \ {0}

ASSUME RatesAssumption ==
    /\ RateUnit \in Nat
    /\ SuccRate \in 1..(RateUnit - 1)
    /\ ErrRate \in 1..(RateUnit - 1)
    /\ WindErrRate \in 1..(RateUnit - 1)

HI == [succ : Nat, err : Nat, rSucc : Nat, rErr : Nat,
       continSucc : Nat, continErr : Nat, overload : BOOLEAN,
       windowTs : Nat, overloadTs : Nat, windErrCnt : Nat]

NewHI(now) ==
    [succ |-> InitSucc, err |-> 0, rSucc |-> 0, rErr |-> 0,
     continSucc |-> 0, continErr |-> 0, overload |-> FALSE,
     windowTs |-> now, overloadTs |-> 0, windErrCnt |-> 0]

\* A host that becomes idle, or stays idle in a new window: only the count of
\* bad windows survives.
ResetIdle(hi, now) == [NewHI(now) EXCEPT !.windErrCnt = hi.windErrCnt]

SetOverload(hi, now) ==
    [succ |-> 0, err |-> OvldErr, rSucc |-> 0, rErr |-> 0,
     continSucc |-> 0, continErr |-> 0, overload |-> TRUE,
     windowTs |-> hi.windowTs, overloadTs |-> now, windErrCnt |-> 0]

-----------------------------------------------------------------------------
(* The judgement on a window that has ended.                               *)

BadWindow(hi) ==
    /\ hi.rSucc + hi.rErr > 0
    /\ hi.rErr * RateUnit >= WindErrRate * (hi.rSucc + hi.rErr)

\* windErrCnt after checkWindow().
BadWindows(hi) == IF BadWindow(hi) THEN hi.windErrCnt + 1 ELSE 0

CheckWindow(hi) == BadWindow(hi) /\ hi.windErrCnt + 1 >= WindErrLim

\* Mutant of AgeCheck: no forced recovery of an overloaded host.
AgeCheckIdleOnly(hi, now) ==
    CASE ~hi.overload /\ now - hi.windowTs >= ClearTimo /\ CheckWindow(hi) ->
            SetOverload(hi, now)
      [] ~hi.overload /\ now - hi.windowTs >= ClearTimo /\ ~CheckWindow(hi) ->
            ResetIdle([hi EXCEPT !.windErrCnt = BadWindows(hi)], now)
      [] OTHER -> hi

\* The tail every report ends with: an idle host whose window has ended is
\* judged on it or starts a new one; an overloaded host that has waited
\* long enough is forced back to idle.
AgeCheck(hi, now) ==
    CASE ~hi.overload /\ now - hi.windowTs >= ClearTimo /\ CheckWindow(hi) ->
            SetOverload(hi, now)
      [] ~hi.overload /\ now - hi.windowTs >= ClearTimo /\ ~CheckWindow(hi) ->
            ResetIdle([hi EXCEPT !.windErrCnt = BadWindows(hi)], now)
      [] hi.overload /\ now - hi.overloadTs >= OvldWaitLim ->
            ResetIdle(hi, now)
      [] OTHER -> hi

-----------------------------------------------------------------------------
(* LB::report: one call result.                                            *)

CountOk(hi) ==
    [hi EXCEPT !.succ = @ + 1, !.rSucc = @ + 1,
               !.continSucc = @ + 1, !.continErr = 0]

CountErr(hi) ==
    [hi EXCEPT !.err = @ + 1, !.rErr = @ + 1,
               !.continSucc = 0, !.continErr = @ + 1]

TooManyErrs(hi) ==
    \/ hi.err * RateUnit > ErrRate * (hi.succ + hi.err)
    \/ hi.continErr >= ContinErrLim

EnoughSuccs(hi) ==
    \/ hi.succ * RateUnit > SuccRate * (hi.succ + hi.err)
    \/ hi.continSucc >= ContinSuccLim

ReportOk(hi, now) ==
    LET c == CountOk(hi)
    IN  IF c.overload /\ EnoughSuccs(c) THEN ResetIdle(c, now)
                                        ELSE AgeCheck(c, now)

ReportErr(hi, now) ==
    LET c == CountErr(hi)
    IN  IF ~c.overload /\ TooManyErrs(c) THEN SetOverload(c, now)
                                         ELSE AgeCheck(c, now)

-----------------------------------------------------------------------------
(* LB::reportSomeSucc and LB::reportSomeErr: n results of one kind.        *)

\* The smallest k with k / (k + other) >= rate / RateUnit: the quotient is
\* truncated, then raised by one when it falls short.
Needed(rate, other) ==
    LET k == (rate * other) \div (RateUnit - rate)
    IN  IF k * RateUnit < rate * (k + other) THEN k + 1 ELSE k

CountSuccs(hi, n) ==
    [hi EXCEPT !.rSucc = @ + n, !.continSucc = @ + n, !.continErr = 0]

CountErrs(hi, n) ==
    [hi EXCEPT !.rErr = @ + n, !.continSucc = 0, !.continErr = @ + n]

\* What an overloaded host that has just got n successes (already added to
\* continSucc) has left of them once it is judged idle; n when it is not.
LeftSucc(hi, n) ==
    CASE hi.continSucc >= ContinSuccLim -> hi.continSucc - ContinSuccLim
      [] hi.continSucc < ContinSuccLim /\ n >= Needed(SuccRate, hi.err) ->
            n - Needed(SuccRate, hi.err)
      [] OTHER -> n

SuccsSuffice(hi, n) ==
    hi.continSucc >= ContinSuccLim \/ n >= Needed(SuccRate, hi.err)

SomeSucc(hi, n, now) ==
    LET c == CountSuccs(hi, n)
        judged == IF c.overload /\ SuccsSuffice(c, n)
                    THEN [ResetIdle(c, now) EXCEPT !.succ = @ + LeftSucc(c, n)]
                    ELSE [c EXCEPT !.succ = @ + n]
    IN  AgeCheck(judged, now)

LeftErr(hi, n) ==
    CASE hi.continErr >= ContinErrLim -> hi.continErr - ContinErrLim
      [] hi.continErr < ContinErrLim /\ n >= Needed(ErrRate, hi.succ) ->
            n - Needed(ErrRate, hi.succ)
      [] OTHER -> n

\* Mutant of ErrsSuffice: a batch of errors is judged on its rate only.
ErrsSufficeByRate(hi, n) == n >= Needed(ErrRate, hi.succ)

ErrsSuffice(hi, n) ==
    hi.continErr >= ContinErrLim \/ n >= Needed(ErrRate, hi.succ)

SomeErr(hi, n, now) ==
    LET c == CountErrs(hi, n)
        judged == IF ~c.overload /\ ErrsSuffice(c, n)
                    THEN [SetOverload(c, now) EXCEPT !.err = @ + LeftErr(c, n)]
                    ELSE [c EXCEPT !.err = @ + n]
    IN  AgeCheck(judged, now)
=============================================================================
