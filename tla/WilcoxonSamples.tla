--------------------------- MODULE WilcoxonSamples ---------------------------
(***************************************************************************)
(* The signed-rank test on samples that grow pair by pair, and what its    *)
(* p-value must be whatever the sample.                                    *)
(***************************************************************************)
EXTENDS Wilcoxon

CONSTANTS
    Differences, \* the values a difference takes
    MaxPairs     \* bound: pairs of a sample (the exact test is for up to 25)

\* Differences are whole in the units of the metric.
ASSUME SampleAssumption == Differences \subseteq Int /\ MaxPairs \in 0..25

VARIABLE sample

SamplesInit == sample = <<>>

AddPair(x) ==
    /\ Len(sample) < MaxPairs
    /\ sample' = Append(sample, x)

SamplesNext == \E x \in Differences : AddPair(x)

SamplesSpec == SamplesInit /\ [][SamplesNext]_sample

-----------------------------------------------------------------------------
(* Properties *)

\* The table of sums gives the p-value of the definition: the share of all
\* 2^n choices of the positive differences whose rank sum is at least as far from
\* the center as the observed one. (ab.go:560-565, the count by dynamic
\* programming; ab.go:642, a share of at most 1.)
ExactPValue ==
    LET d == NonZero(sample)
        signs == SUBSET (1..Len(d))
        Further(positive) ==
            abs(SumFunctionOnSet(Ranks(d), positive) - Center(d)) >= abs(WPlus(d) - Center(d))
        p == WilcoxonSignedRank(sample)
    IN /\ p.extreme = Cardinality({positive \in signs : Further(positive)})
       /\ p.total = Cardinality(signs)

=============================================================================
