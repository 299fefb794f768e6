----------------------------- MODULE MCAccounts -----------------------------
(* The accounts and the tags, and the facts about the revisions that make  *)
(* their tables and their unique indexes.                                  *)
EXTENDS Accounts, RevisionFacts

CONSTANTS r1, r2, r3, e1, o1, o2, a, b, noUser
=============================================================================
