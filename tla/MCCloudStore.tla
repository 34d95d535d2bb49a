---------------------------- MODULE MCCloudStore ----------------------------
(***************************************************************************)
(* Instances of CloudStore for TLC.  Two devices sync under the names 1    *)
(* and 2; bundles are imported under 3.  Name 4 is name 2 with ".pharos"   *)
(* appended, so that Store.path trims it and the sidecars do not.          *)
(***************************************************************************)
EXTENDS CloudStore

CONSTANTS d1, d2, c1, c2

PlainNames == 1..3
PlainStem == [n \in PlainNames |-> n]
TwoNames == [d \in {d1, d2} |-> IF d = d1 THEN 1 ELSE 2]

\* An alias that ends in ".pharos".
SuffixedNames == 1..4
SuffixedStem == [n \in SuffixedNames |-> IF n = 4 THEN 2 ELSE n]
SuffixedAlias == [d \in {d1, d2} |-> IF d = d1 THEN 1 ELSE 4]

\* One device and one import: the smallest store in which two callers can meet.
SmallNames == 1..2
SmallStem == [n \in SmallNames |-> n]
OneName == [d \in {d1} |-> 1]
=============================================================================
