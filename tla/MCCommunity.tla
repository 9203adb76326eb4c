----------------------------- MODULE MCCommunity -----------------------------
(* Each behaviour is about accounts, friendships, groups or the attachment of *)
(* a user's plugins: the others rest, but for what a deletion does to them.   *)
EXTENDS Community, Attachment, TLC

CONSTANTS h1, h2   \* two machines; the first may change its URL

VARIABLE about

mcvars == <<vars, attachVars, about>>

\* Where a host is when nobody asks.
Somewhere(h) == [url |-> CHOOSE u \in UrlsOf[h] : TRUE, configured |-> FALSE]

\* The users of the behaviours that are not about how they got there.
Everybody == {[id |-> u, name |-> u, invite |-> NoInvite] : u \in Id}

MCInit ==
  /\ FriendshipsInit /\ GroupsInit
  /\ \/ about = "accounts" /\ AccountsInit
     \/ /\ about \in {"friends", "groups", "plugins"}
        /\ users = IF about = "plugins" THEN {} ELSE Everybody
        /\ ids = Id
        /\ useCount = [i \in Invite |-> 0] /\ usable = Invite
        /\ calls = {} /\ keyless = {} /\ cut = {} /\ granted = {}
  /\ AttachInit
  /\ about # "plugins" => where = [h \in Host |-> Somewhere(h)]

MCNext ==
  /\ UNCHANGED about
  /\ \/ about = "accounts" /\ AccountsNext /\ UNCHANGED <<friendVars, groupVars, attachVars>>
     \/ about = "friends" /\ FriendshipsNext /\ UNCHANGED <<groupVars, attachVars>>
     \/ about = "groups" /\ GroupsNext /\ UNCHANGED <<friendVars, attachVars>>
     \/ about = "plugins" /\ AttachNext /\ UNCHANGED vars
     \/ \E u \in UserIds : DeleteUsers({u}) /\ UNCHANGED attachVars
     \/ UserIds # {} /\ DeleteUsers(UserIds) /\ UNCHANGED attachVars

MCSpec == MCInit /\ [][MCNext]_mcvars

MCMaxUses == [i \in Invite |-> 2]

MCUrlsOf == h1 :> {"a", "b"} @@ h2 :> {"c"}

\* Users, who are named after their ids, requests and setups are alike.
Alike == Permutations(Id) \cup Permutations(Call) \cup Permutations(Setup)
=============================================================================
