---------------------------- MODULE MCRolesPage ----------------------------
(* The instance for TLC: the ids of the permissions, what is alike, and how *)
(* much there is for how many administrators.                               *)
EXTENDS RolesPage, TLC

CONSTANTS r1, r2, a1, a2

Alike == Permutations({r1, r2}) \cup Permutations({a1, a2})

MCNode == 1 .. 3
MCRoot == 0

\* Bound: one administrator at a time with two roles and three permissions, or both
\* at once with one role and two permissions.
Rests(a) == request[a] = Idle /\ ~modal[a]
OneAtATime == mixed = {} /\ \E a \in Admin : \A b \in Admin \ {a} : Rests(b)
BothAtOnce == /\ Cardinality({r \in Role : role[r] # "none"}) <= 1
              /\ Cardinality({p \in Node : perm[p] # "none"}) <= 2
Bound == OneAtATime \/ BothAtOnce
=============================================================================
