----------------------------- MODULE MCGroupPlan -----------------------------
(* Instances of GroupPlan for TLC: a limited policy about a user or a role, an
   LLM policy about a user or everyone, and a policy of the group. *)
EXTENDS GroupPlan, TLC

CONSTANTS once, llm, overlay

Ranks == once :> 1 @@ llm :> 2 @@ overlay :> 3

Own(s, e, m) == [scope |-> s, effect |-> e, phase |-> "deterministic", priority |-> 0,
                 limit |-> 1, members |-> m]
Asked(s, e) == [scope |-> s, effect |-> e, phase |-> "contextual_llm", priority |-> 0,
                limit |-> Unlimited, members |-> Member]
Group(e, n) == [scope |-> "group", effect |-> e, phase |-> "deterministic", priority |-> 0,
                limit |-> n, members |-> Member]

SomeBooks ==
  {once :> Own(b[1], b[2], b[3]) @@ llm :> Asked(b[4], b[5]) @@ overlay :> Group(b[6], b[7]) :
     b \in { <<"user", "allow", Member, "global", "deny", "ask", Unlimited>>,
             <<"role", "allow", Member, "user", "deny", "allow", 1>>,
             <<"user", "deny", {1}, "global", "allow", "ask", 1>>,
             <<"role", "ask", {2}, "user", "allow", "allow", Unlimited>> }}
=============================================================================
