------------------------------ MODULE MCSession ------------------------------
(* The instances of Session that TLC checks. *)
EXTENDS Session, TLC

Symmetry == Permutations(User) \cup Permutations(Token) \cup Permutations(Worker)
              \cup Permutations(Name) \cup Permutations(Email)
=============================================================================
