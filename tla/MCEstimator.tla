---------------------------- MODULE MCEstimator -----------------------------
(***************************************************************************)
(* Instances of the estimator for TLC.  Amounts are millicores; 40, 50 and *)
(* 100 make products that are whole numbers, where rounding matters.       *)
(***************************************************************************)
EXTENDS Estimator

CONSTANTS c1, p1, p2

Ceiling(percent) == [kind |-> "request-ceiling", percent |-> percent]
Floor(percent)   == [kind |-> "request-floor", percent |-> percent]

\* A median over a short window; the default percentile with rules that
\* agree; rules that contradict each other, with no coverage required.
Median  == [percentile |-> 50, headroom |-> 10, slidingWindow |-> 2,
            minimumCoverageWindow |-> 1, scalingRules |-> <<>>]
Default == [percentile |-> 93, headroom |-> 0, slidingWindow |-> 3,
            minimumCoverageWindow |-> 2,
            scalingRules |-> <<Ceiling(150), Floor(50)>>]
Clash   == [percentile |-> 75, headroom |-> 25, slidingWindow |-> 1,
            minimumCoverageWindow |-> 0,
            scalingRules |-> <<Floor(200), Ceiling(116)>>]

MCSpecs  == {Median, Default, Clash}
MCUsages == {-1, 40, 100}

\* Where IEEE 754 double products of these amounts leave the exact value.
MCRoundsUp   == {<<50, 110>>, <<100, 110>>}
MCRoundsDown == {<<25, 116>>}
=============================================================================
