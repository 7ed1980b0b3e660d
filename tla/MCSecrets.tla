------------------------------ MODULE MCSecrets ------------------------------
(* Small instances of Secrets for TLC.                                     *)
EXTENDS Secrets, TLC

CONSTANTS u1, u2, k1, k2, v, w, s, t1, t2, f1, f2, c1, c2

\* Two names of one variable ("api-key" and "API_KEY").
OneVar == [k \in Key |-> "API_KEY"]

\* Of the tenant: a file, or a value of an older key.
MCGiven == {[val |-> v, mode |-> "file"], [val |-> Bad, mode |-> "value"]}

Alike == Permutations(Form) \cup Permutations(Command)
=============================================================================
