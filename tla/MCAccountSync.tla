--------------------------- MODULE MCAccountSync ---------------------------
(***************************************************************************)
(* An instance of AccountSync for TLC: two legacy devices that are given   *)
(* the account passphrase, a with an email and b by its leaf, which can    *)
(* both be first; a legacy device y that logs in with a mistyped one, a    *)
(* legacy device x that authenticates by its leaf and is given the         *)
(* mistyped one, and a joined device j, given it as well.                  *)
(***************************************************************************)
EXTENDS AccountSync

CONSTANTS a, b, x, y, j, right, wrong

TypedOn == [d \in {a, b, x, y, j} |-> IF d \in {a, b} THEN right ELSE wrong]

\* Of the two devices that can both be first, one retries.
Retries == [d \in {a, b, x, y, j} |-> IF d = a THEN 2 ELSE 1]
=============================================================================
