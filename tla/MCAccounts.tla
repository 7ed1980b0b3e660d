----------------------------- MODULE MCAccounts -----------------------------
(* Small instances of Accounts for TLC.                                    *)
EXTENDS Accounts, TLC

CONSTANTS a, b, dmA, dmB, grp, s1, s2, h1, h2, c1

\* Both write to the agent directly and in a group of the same workspace.
MCWrites == {<<a, dmA>>, <<b, dmB>>, <<a, grp>>, <<b, grp>>} \cap (Ext \X Chat)
MCSpaceOf == [c \in Chat |-> s1]

\* b is in a workspace of his own.
MCSpaces == [c \in Chat |-> IF c = dmB THEN s2 ELSE s1]

HandlersAlike == Permutations(Handler)
=============================================================================
