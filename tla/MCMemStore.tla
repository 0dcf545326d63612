------------------------------ MODULE MCMemStore ------------------------------
(***************************************************************************)
(* Small instances of MemStore.  The sessions of one user are alike.       *)
(***************************************************************************)
EXTENDS MemStore

CONSTANTS s1, s2

MCOne == {s1}
MCTwo == {s1, s2}
Symmetry == Permutations(MCTwo)

MCOnlyInbox == {"INBOX"}
MCInbox == {"INBOX", "A"}

MCNoFlags == {}
MCDeleted == {"Deleted"}
MCSeenDeleted == {"Seen", "Deleted"}
=============================================================================
