---------------------------- MODULE AccountStore ----------------------------
(***************************************************************************)
(* What the profile store promises its readers, whatever it does on disk.  *)
(* The account slot holds at most one bundle: it appears whole, in an      *)
(* empty slot, while a sync runs, and never ahead of the controller.  The  *)
(* status of the slot is first unknown and then that of the very bundle in *)
(* it.  The slot is emptied only by a sync, a logout or a removal, an      *)
(* imported bundle goes only while an import or a removal runs, and the    *)
(* two never change together.  CloudStore implements this                  *)
(* (CloudStore!ImplementsAccountStore).                                    *)
(***************************************************************************)
EXTENDS Naturals

CONSTANTS
    Bundles,   \* what a sync may install; each has a revision, rev
    Places,    \* where imported bundles are kept
    Calls      \* the operations that may run

VARIABLES
    account,   \* the account's bundle: a set of at most one
    status,    \* the bundle its status speaks of: a set of at most one
    imported,  \* the places that hold an imported bundle
    current,   \* the revision the controller publishes
    running    \* the operations that run

vars == <<account, status, imported, current, running>>

Init ==
    /\ account = {}
    /\ status = {}
    /\ imported = {}
    /\ current = 0
    /\ running = {}

\* A sync that has purged the slot installs what it fetched ...
Install(x) ==
    /\ "sync" \in running
    /\ account = {}
    /\ x.rev <= current
    /\ account' = {x}
    /\ status' = {}
    /\ UNCHANGED <<imported, current, running>>

\* ... and records which bundle that is.
Record ==
    /\ "sync" \in running
    /\ account # {}
    /\ status' = account
    /\ UNCHANGED <<account, imported, current, running>>

\* Logout, rm, or the purge of the next sync.
Forget ==
    /\ running \cap {"sync", "logout", "rm"} # {}
    /\ account # {}
    /\ account' = {}
    /\ status' = {}
    /\ UNCHANGED <<imported, current, running>>

\* An import completes the file and returns.
Import(p) ==
    /\ "import" \in running
    /\ p \notin imported
    /\ imported' = imported \cup {p}
    /\ running' \subseteq running
    /\ UNCHANGED <<account, status, current>>

\* rm, or an import that rewrites the file.
Drop(p) ==
    /\ running \cap {"import", "rm"} # {}
    /\ p \in imported
    /\ imported' = imported \ {p}
    /\ UNCHANGED <<account, status, current, running>>

Publish ==
    /\ current' = current + 1
    /\ UNCHANGED <<account, status, imported, running>>

\* Calls begin and end as the application likes.
Turn ==
    /\ running' \in SUBSET Calls
    /\ UNCHANGED <<account, status, imported, current>>

Next ==
    \/ \E x \in Bundles : Install(x)
    \/ Record
    \/ Forget
    \/ \E p \in Places : Import(p) \/ Drop(p)
    \/ Publish
    \/ Turn

Spec == Init /\ [][Next]_vars
=============================================================================
