---------------------------- MODULE MCLlmRouter ----------------------------
(* Instances of LlmRouter for TLC.                                           *)
EXTENDS LlmRouter, TLC

CONSTANTS s1, s2, q1, q2, q3, m

\* Every process serves m, with one window.
SameOffer == [l \in 1 .. Lives |-> [x \in Models |-> 1]]

\* Later processes serve another name only; m is gone.
ChangedOffer == [l \in 1 .. Lives |-> [x \in Models |-> IF l = 1 THEN 2 ELSE 0]]

WantAny == [q \in Requests |-> NoModel]
WantM == [q \in Requests |-> m]

\* All requests prefer s1, as the calls on one conversation do.
PreferS1 == [q \in Requests |-> [s \in Servers |-> IF s = s1 THEN 1 ELSE 0]]

\* Servers are interchangeable where no request has a key, requests where all of
\* them have the same.
ServerSymmetry == Permutations(Servers)
RequestSymmetry == Permutations(Requests)
=============================================================================
