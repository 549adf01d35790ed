---------------------------- MODULE MCShortener ----------------------------
(* Shortener for TLC: the aliases, the URLs and the requests of a kind are  *)
(* interchangeable.                                                        *)
EXTENDS Shortener, TLC

Symmetry == Permutations(Aliases) \cup Permutations(Urls)
            \cup Permutations(Shortens) \cup Permutations(Redirects)
=============================================================================
