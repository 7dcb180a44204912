----------------------------- MODULE SessionLife -----------------------------
(***************************************************************************)
(* What a session promises, whatever the requests do at the same time: a   *)
(* token is issued once, to one user, and its session is that user's or    *)
(* nobody's ever after; once it has been ended (by a logout, a change of   *)
(* password or its expiry) it may come back only as long as requests that  *)
(* had found it alive are under way ("limbo"), to the same user; when      *)
(* there are none left it is dead for good.                                *)
(***************************************************************************)
CONSTANTS User, Token, NoUser

VARIABLES phase, owner,
          session \* the user that a request with the token acts for
vars == <<phase, owner, session>>

Init ==
  /\ phase = [t \in Token |-> "unissued"]
  /\ owner = [t \in Token |-> NoUser]
  /\ session = [t \in Token |-> NoUser]

Issue(t, u) ==
  /\ phase[t] = "unissued"
  /\ phase' = [phase EXCEPT ![t] = "alive"]
  /\ owner' = [owner EXCEPT ![t] = u]
  /\ session' = [session EXCEPT ![t] = u]

End(t) ==
  /\ phase[t] = "alive"
  /\ \E to \in {"limbo", "dead"} : phase' = [phase EXCEPT ![t] = to]
  /\ session' = [session EXCEPT ![t] = NoUser]
  /\ UNCHANGED owner

Return(t) ==
  /\ phase[t] = "limbo"
  /\ phase' = [phase EXCEPT ![t] = "alive"]
  /\ session' = [session EXCEPT ![t] = owner[t]]
  /\ UNCHANGED owner

Die(t) ==
  /\ phase[t] = "limbo"
  /\ phase' = [phase EXCEPT ![t] = "dead"]
  /\ UNCHANGED <<owner, session>>

Next ==
  \E t \in Token :
    \/ \E u \in User : Issue(t, u)
    \/ End(t) \/ Return(t) \/ Die(t)

Spec == Init /\ [][Next]_vars
=============================================================================
