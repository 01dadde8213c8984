------------------------------ MODULE HttpApi -------------------------------
(***************************************************************************)
(* store/http/server.go: what the handlers make of a request before they   *)
(* call the store, and the conversion of a peak averaged limit at the      *)
(* beginning of Store.Incr (store/store.go).                               *)
(*                                                                         *)
(* A parameter of the URL is absent, or text that is a number or not.      *)
(***************************************************************************)
EXTENDS Int32Arith

Absent == [given |-> FALSE, numeric |-> FALSE, value |-> 0]
Junk == [given |-> TRUE, numeric |-> FALSE, value |-> 0]
Num(v) == [given |-> TRUE, numeric |-> TRUE, value |-> v]

\* Mutant of Narrow: the number keeps its width.
NarrowNot(v) == v

\* int32(v): the low 32 bits.
Narrow(v) == ((v + MaxInt32 + 1) % (2 * (MaxInt32 + 1))) - (MaxInt32 + 1)

\* C defaults to 1.
CountParam(r) == IF r.C.given THEN r.C ELSE Num(1)

\* POST /incr: anything else is answered with 400.
IncrAccepted(r) == CountParam(r).numeric /\ r.T.numeric /\ r.W.numeric

\* A P that is not a number counts as 0.
IncrArgs(r) == [key |-> r.K,
                count |-> Narrow(CountParam(r).value),
                threshold |-> Narrow(r.T.value),
                window |-> Narrow(r.W.value),
                peakaveraged |-> r.P.numeric /\ r.P.value > 0]

\* POST /ratelimit.
RateLimitAccepted(r) == CountParam(r).numeric

RateLimitArgs(r) == [key |-> r.K, count |-> Narrow(CountParam(r).value)]

\* PUT /rate: 403 without the secret, 400 for a blank key or numbers below 1,
\* which are compared before they are narrowed.
RateAccepted(r) == r.authorised /\ r.Key # "" /\ r.Window >= 1 /\ r.Limit >= 1

RateConfigOf(r) == [Limit |-> Narrow(r.Limit), Window |-> Narrow(r.Window),
                    PeakAveraged |-> r.PeakAveraged]

-----------------------------------------------------------------------------

\* The quotient rounded up; b is not zero.
CeilDiv(a, b) == IF b > 0 THEN -((-a) \div b) ELSE -(a \div (-b))

\* What int32() makes of a float that is no int32 depends on the processor.
Unrepresentable == {-(MaxInt32 + 1), 0, MaxInt32}

\* Mutant of Thresholds: the threshold of the whole window applies.
ThresholdsAsGiven(threshold, window, peakaveraged) == {threshold}

\* The thresholds Store.Incr may go on with.
Thresholds(threshold, window, peakaveraged) ==
  IF ~ (peakaveraged /\ window # 1) THEN {threshold}
  ELSE IF window # 0 /\ CeilDiv(threshold, window) \in Int32
    THEN {CeilDiv(threshold, window)}
  ELSE Unrepresentable

WindowOf(window, peakaveraged) == IF peakaveraged THEN 1 ELSE window
=============================================================================
