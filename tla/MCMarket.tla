------------------------------ MODULE MCMarket ------------------------------
(***************************************************************************)
(* One drink on sale and one the organiser may add, two workers, and one   *)
(* sale.                                                                   *)
(***************************************************************************)
EXTENDS Market

CONSTANTS beer, gin, w1, w2, s1

MCOpening == [min |-> 1, base |-> 1, max |-> 2]

\* The other range lies above: a price the first one allowed may be outside it.
MCRanges == {MCOpening, [min |-> 2, base |-> 2, max |-> 2]}

\* Sales without an organiser, an organiser without sales, and an organiser
\* whose requests come one at a time between two ticks.
MCModes == {{"organiser", "lock"}, {"payments"}, {"payments", "requests"}}

=============================================================================
