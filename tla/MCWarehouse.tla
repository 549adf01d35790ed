----------------------------- MODULE MCWarehouse -----------------------------
(* An instance of Warehouse for TLC: an admin and a manager are logged in.    *)
EXTENDS Warehouse, TLC

MCTokens == {[user |-> "ann", role |-> "admin"], [user |-> "bob", role |-> "manager"]}

\* Requests and SKUs are interchangeable; tokens are not.
Symmetry == Permutations(Requests) \cup Permutations(Skus)
=============================================================================
