----------------------------- MODULE MCAccounts -----------------------------
(* An instance of Accounts for TLC: one administrator and one who is none.    *)
EXTENDS Accounts, TLC

CONSTANTS a, b, g1, g2

NoSabuns == [e \in People |-> NoSabun]
OneAdmin ==
  {[e \in People |-> [status |-> "active", admin |-> e = a, local |-> TRUE, sabun |-> FALSE]]}
RequestSymmetry == Permutations(Handlers)
=============================================================================
