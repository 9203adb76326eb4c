---------------------------- MODULE DecisionModes ----------------------------
(* The configurations of the server side by side, so that one run and one     *)
(* theorem can speak of all of them.  LocalDecisions itself is the server that *)
(* only records local decisions (Trusted is FALSE); T is the trusted server,   *)
(* whose limited policies may have other effects and whose owners only take    *)
(* uses away; G is the same with a guardrail, without keys, and with uses that *)
(* may be given again.                                                         *)
EXTENDS LocalDecisions

CONSTANTS
  TrustedRes,     \* resolution ids of the trusted server's sends
  TrustedEffect,  \* effects of its policies
  MixedContent,   \* contents of which
  Blocked,        \* the guardrail blocks these
  Grant           \* bound: MaxGrant of the server with a guardrail

VARIABLE mode   \* how the server was configured, chosen once

T == INSTANCE LocalDecisions WITH
       Trusted <- TRUE, Res <- TrustedRes, Effect <- TrustedEffect, MaxGrant <- 0

G == INSTANCE LocalDecisions WITH
       Trusted <- TRUE, Res <- TrustedRes, Key <- {}, Content <- MixedContent,
       Guarded <- Blocked, Inbound <- {}, Effect <- TrustedEffect, MaxGrant <- Grant

AnyInit ==
  \/ mode = "records" /\ Init
  \/ mode = "evaluates" /\ T!Init
  \/ mode = "guards" /\ G!Init

AnyNext ==
  \/ mode = "records" /\ Next /\ UNCHANGED mode
  \/ mode = "evaluates" /\ T!Next /\ UNCHANGED mode
  \/ mode = "guards" /\ G!Next /\ UNCHANGED mode

AnySpec == AnyInit /\ [][AnyNext]_<<vars, mode>>

\* Each stored decision of a limited policy has been charged to it, as long as
\* the server does not evaluate policies itself.
LocalDecisionsAreCharged == mode = "records" => DecisionsAreCharged

\* A server that does not evaluate policies transports what a resolution id names
\* only on a committed local allow and between friends or fellow members.
LocalTransportIsAuthorised == [][mode = "records" => AuthorisedTransport]_<<vars, mode>>
=============================================================================
