------------------------------ MODULE MCPortal ------------------------------
(* A post and a label, its author and another user, and the casts for TLC. *)
EXTENDS Portal, TLC

CONSTANTS post, label, author, other, r1, r2, own, new1, new2, top1, top2,
          show, show2, clear, t1, t2, k1, k2
MCParent == {post, label}
MCUser == {author, other}
MCAuthor == (post :> author) @@ (label :> Nobody)
MCReply == {r1, r2, own, new1, new2}
MCToggle == {top1, top2}
MCOn == [w \in MCReply \cup MCToggle |-> IF w \in {new1, new2} THEN label ELSE post]
MCBy == [w \in MCReply \cup {show, show2, clear} |->
           IF w \in {own, show, clear} THEN author ELSE other]

\* The author's tabs, of which some never leave a page but by signing in or out.
Acting(requests, tabs, tokens, leave, expires) ==
  [requests |-> requests, tabs |-> tabs, tokens |-> tokens, users |-> {author},
   leave |-> leave, expires |-> expires]

\* Without a page: the requests of the forum.
ForumCasts ==
  {Acting({r1, r2, top1, top2}, {}, {}, {}, {}), Acting({r1, own, top1}, {}, {}, {}, {}),
   Acting({new1, new2}, {}, {}, {}, {}), Acting({r1, show, show2, clear}, {}, {}, {}, {}),
   Acting({r1, r2, show}, {}, {}, {}, {})}

PortalCasts ==
  {Acting({}, {t1, t2}, {k1, k2}, {t1}, {}), Acting({}, {t1, t2}, {k1}, {t1}, {"cookie"}),
   Acting({r1}, {t1, t2}, {k1}, {}, {}),
   Acting({r1, r2}, {t1}, {k1}, {t1}, {}), Acting({r1, show}, {t1}, {k1}, {t1}, {"session"}),
   Acting({r1}, {t1}, {k1, k2}, {t1}, {"cookie"})}
MCCasts == ForumCasts \cup PortalCasts
=============================================================================
