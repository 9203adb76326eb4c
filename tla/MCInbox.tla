------------------------------- MODULE MCInbox -------------------------------
(* Two sessions ask two peers under a thread each; one peer answers the       *)
(* second ask, or writes of its own accord.  What the plugin remembers of     *)
(* that thread and of that question may expire.                               *)
(******************************************************************************)
EXTENDS Inbox, TLC

CONSTANTS i1, i2, t1, t2, p1, p2, s1, s2

MCAsker == t1 :> s1 @@ t2 :> s2
Says(p, t, a) == [from |-> p, thread |-> t, answers |-> a]
MCLetters == {Says(p1, t2, TRUE), Says(p1, NoRef, FALSE)}
MCExpiring == {t2, <<t2, p1>>}
Symmetry == Permutations({i1, i2})
=============================================================================
