----------------------------- MODULE Attachment -----------------------------
(***************************************************************************)
(* How a plugin attaches itself to the server (runMahiloSetup and          *)
(* ensureManagedSetupSender, openclaw-plugin-wrapper.ts) and keeps the     *)
(* secret with which callbacks are signed in its own file                  *)
(* (runtime-bootstrap.ts).  Every host of a user registers the same        *)
(* connection, that of framework "openclaw" and label "default".  Setups   *)
(* are started by the gateway's start, by the first tool call and by hand, *)
(* and nothing keeps them from overlapping.  Requests and answers may be   *)
(* lost; a request may be served after its sender is gone.                 *)
(***************************************************************************)
EXTENDS Naturals, FiniteSets

CONSTANTS
  Host,       \* machines of the user that run the plugin
  Setup,      \* setups under way at a time
  UrlsOf,     \* callback URLs of each host
  None,       \* nothing there
  MaxSecrets, \* bound: secrets the server makes up
  MaxConns    \* bound: connections it makes up

Url == UNION {UrlsOf[h] : h \in Host}

\* A row of agent_connections, and an entry of a runtime file.
Connection == [id : Nat, url : Url, secret : Nat]
Entry == [id : Nat \cup {None}, url : Url \cup {None}, secret : Nat \cup {None}]

ASSUME AttachmentAssumption == None \notin Url \cup Host \cup Nat \cup Connection

VARIABLES
  conn,     \* the row of agent_connections, None when there is none
  issued,   \* secrets made up so far
  made,     \* connections made up so far
  store,    \* each host's entry of the runtime file
  where,    \* callback URL of each host, and whether it is configured
  setups,   \* setups under way
  keeper    \* history: the host the server's secret was made up for, by a setup
            \* that met no other; None when others have interfered since

attachVars == <<conn, issued, made, store, where, setups, keeper>>

\* Setups that ask for the connections, have them listed, post and are answered.
Asking == [name : Setup, host : Host, phase : {"asking"}, url : Url, alone : BOOLEAN]
Listing == [name : Setup, host : Host, phase : {"listed"}, url : Url, alone : BOOLEAN,
            seen : Connection \cup {None}]
Posting == [name : Setup, host : Host, phase : {"posting"}, url : Url, alone : BOOLEAN,
            rotate : BOOLEAN, awaited : BOOLEAN]
Answered == [name : Setup, host : Host, phase : {"answered"}, url : Url, alone : BOOLEAN,
             id : Nat, secret : Nat \cup {None}]

AttachTypeOK ==
  /\ conn \in Connection \cup {None}
  /\ issued \in Nat /\ made \in Nat
  /\ store \in [Host -> Entry]
  /\ where \in [Host -> [url : Url, configured : BOOLEAN]]
  /\ \A h \in Host : where[h].url \in UrlsOf[h]
  /\ setups \subseteq Asking \cup Listing \cup Posting \cup Answered
  /\ keeper \in Host \cup {None}

Empty == [id |-> None, url |-> None, secret |-> None]

SetupsOf(h) == {s \in setups : s.host = h}
ConnId == IF conn = None THEN None ELSE conn.id

\* detectMahiloCallbackUrl: what is configured, else stored, else detected.
UrlOf(h) == IF where[h].configured \/ store[h].url = None THEN where[h].url ELSE store[h].url

\* Mutant: which connection the stored secret belongs to is not looked at.
BugNeedsRotation(h, id, url) == store[h].secret = None \/ store[h].url # url

\* needsSecretRotation
NeedsRotation(h, id, url) ==
  store[h].secret = None \/ store[h].id # id \/ store[h].url # url

\* The server's secret is the one the host checks signatures with.
InStep(h) == conn # None /\ store[h].secret = conn.secret

-----------------------------------------------------------------------------
(* A setup *)

\* Setups that are under way together are not alone any more.
SetupStarts(n, h) ==
  LET first == setups = {}
  IN /\ n \notin {s.name : s \in setups}
     /\ setups' = {[s EXCEPT !.alone = FALSE] : s \in setups} \cup
          {[name |-> n, host |-> h, phase |-> "asking", url |-> UrlOf(h), alone |-> first]}
     /\ UNCHANGED <<conn, issued, made, store, where, keeper>>

\* GET /agents: the connections as they are when the server answers.
Listed(s) ==
  /\ s.phase = "asking"
  /\ setups' = (setups \ {s}) \cup
       {[name |-> s.name, host |-> s.host, phase |-> "listed", url |-> s.url,
         alone |-> s.alone, seen |-> conn]}
  /\ UNCHANGED <<conn, issued, made, store, where, keeper>>

SeenId(s) == IF s.seen = None THEN None ELSE s.seen.id

Rotates(s) == NeedsRotation(s.host, SeenId(s), s.url)

\* The answer is compared with the file as it is by then.
Decides(s) ==
  /\ s.phase = "listed"
  /\ setups' = (setups \ {s}) \cup
       IF s.seen = None \/ Rotates(s) \/ s.seen.url # s.url
       THEN {[name |-> s.name, host |-> s.host, phase |-> "posting", url |-> s.url,
              alone |-> s.alone, rotate |-> Rotates(s), awaited |-> TRUE]}
       ELSE {}
  /\ UNCHANGED <<conn, issued, made, store, where, keeper>>

\* POST /agents: the connection is made, or changed in place.  Its secret is
\* replaced, and answered, only when the request asks for it.
Registered(s) ==
  LET new == conn = None
      rotates == new \/ s.rotate
      secret == IF rotates THEN issued + 1 ELSE conn.secret
      id == IF new THEN made + 1 ELSE conn.id
  IN /\ s.phase = "posting"
     /\ rotates => issued < MaxSecrets
     /\ new => made < MaxConns
     /\ conn' = [id |-> id, url |-> s.url, secret |-> secret]
     /\ issued' = IF rotates THEN issued + 1 ELSE issued
     /\ made' = IF new THEN made + 1 ELSE made
     /\ keeper' = IF rotates /\ s.alone THEN s.host
                  ELSE IF ~rotates /\ keeper = s.host THEN keeper ELSE None
     /\ setups' = (setups \ {s}) \cup
          IF s.awaited
          THEN {[name |-> s.name, host |-> s.host, phase |-> "answered", url |-> s.url,
                 alone |-> s.alone, id |-> id, secret |-> IF rotates THEN secret ELSE None]}
          ELSE {}
     /\ UNCHANGED <<store, where>>

\* MahiloRuntimeBootstrapStore.write: the patch is merged into the entry.
Persisted(s) ==
  /\ s.phase = "answered"
  /\ store' = [store EXCEPT ![s.host] =
       [id |-> s.id, url |-> s.url, secret |-> IF s.secret = None THEN @.secret ELSE s.secret]]
  /\ setups' = setups \ {s}
  /\ UNCHANGED <<conn, issued, made, where, keeper>>

\* A request, or an answer, does not arrive.
Fails(s) ==
  /\ setups' = setups \ {s}
  /\ UNCHANGED <<conn, issued, made, store, where, keeper>>

-----------------------------------------------------------------------------
(* The rest of the world *)

\* The process of the host ends; what it has posted may still be served.
Survivors(h) ==
  (setups \ SetupsOf(h)) \cup {[s EXCEPT !.awaited = FALSE] : s \in {t \in SetupsOf(h) : t.phase = "posting"}}

HostRestarts(h) ==
  /\ SetupsOf(h) # {}
  /\ setups' = Survivors(h)
  /\ UNCHANGED <<conn, issued, made, store, where, keeper>>

\* It ends inside writeFileSync, which leaves a file that reads as none.
FileTorn(h) ==
  /\ \E s \in SetupsOf(h) : s.phase = "answered"
  /\ store' = [store EXCEPT ![h] = Empty]
  /\ setups' = Survivors(h)
  /\ UNCHANGED <<conn, issued, made, where, keeper>>

\* It is restarted under another URL, or with the URL configured.  A request of
\* before that is served late comes between the setups of the new URL.
HostMoves(h) ==
  /\ \E w \in [url : UrlsOf[h], configured : BOOLEAN] :
        w # where[h] /\ where' = [where EXCEPT ![h] = w]
  /\ setups' = {IF s.host = h THEN [s EXCEPT !.alone = FALSE] ELSE s : s \in Survivors(h)}
  /\ keeper' = IF keeper = h /\ (SetupsOf(h) # {} \/ ~InStep(h)) THEN None ELSE keeper
  /\ UNCHANGED <<conn, issued, made, store>>

\* DELETE /agents/:id
ConnectionDeleted ==
  /\ conn # None
  /\ conn' = None
  /\ keeper' = None
  /\ UNCHANGED <<issued, made, store, where, setups>>

AttachInit ==
  /\ conn = None /\ issued = 0 /\ made = 0
  /\ store = [h \in Host |-> Empty]
  /\ where \in {w \in [Host -> [url : Url, configured : BOOLEAN]] :
                  \A h \in Host : w[h].url \in UrlsOf[h]}
  /\ setups = {}
  /\ keeper = None

AttachNext ==
  \/ \E n \in Setup, h \in Host : SetupStarts(n, h)
  \/ \E s \in setups : Listed(s) \/ Decides(s) \/ Registered(s) \/ Persisted(s) \/ Fails(s)
  \/ \E h \in Host : HostRestarts(h) \/ FileTorn(h) \/ HostMoves(h)
  \/ ConnectionDeleted

AttachSpec == AttachInit /\ [][AttachNext]_attachVars

-----------------------------------------------------------------------------
(* Safety *)

\* Whatever request, answer, process or file was lost: as long as no other setup
\* and no other host has come between, the host has the secret the server signs
\* with, or its next setup asks for a new one.
NextSetupRepairs ==
  \A h \in Host : keeper = h /\ SetupsOf(h) = {} =>
    InStep(h) \/ NeedsRotation(h, ConnId, UrlOf(h))
=============================================================================
