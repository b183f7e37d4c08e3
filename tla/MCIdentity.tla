----------------------------- MODULE MCIdentity -----------------------------
(***************************************************************************)
(* Identity for TLC.  Accounts and sessions share no row that both change, *)
(* so a behaviour moves one of them and one side of it: the mails of an    *)
(* account or its streams, the rotations of a session or the reset of a    *)
(* password.  The bounds of a side keep the other side of the same         *)
(* component small without removing it.                                    *)
(***************************************************************************)
EXTENDS IdentityAccount, IdentitySession

VARIABLE side

vars == << accountVars, sessionVars, side >>

Init ==
  /\ AccountInit /\ SessionInit
  /\ side \in {"mails", "streams", "rotations", "resets"}

(* Bounds of each side, on the state a step leads to. *)
MailBound   == subscribers' = {} /\ ~ watching' /\ setups' =< 1 /\ (setups' = 1 => issued' = 0)
StreamBound == /\ \A m \in DOMAIN mails' : mails'[m].attempts =< 1 /\ mails'[m].due /\ (mails'[m].leased => ~ mails'[m].sent)
               /\ registering' # "reader"
RotateBound == /\ drawn'.session =< 1
               /\ grants' =< 1 /\ (challenge' # Absent => challenge'.compared =< 1 /\ challenge'.recent /\ ~ challenge'.expired)
ResetBound  == Cardinality({r \in Refreshes : refreshes'[r] # Idle}) =< 1 /\ drawn'.token =< 2 /\ drawn'.session =< 1
               /\ \A s \in DOMAIN sessions' : ~ sessions'[s].expired

Next ==
  /\ \/ side \in {"mails", "streams"} /\ AccountNext /\ UNCHANGED sessionVars
     \/ side \in {"rotations", "resets"} /\ SessionNext /\ UNCHANGED accountVars
  /\ side = "mails" => MailBound
  /\ side = "streams" => StreamBound
  /\ side = "rotations" => RotateBound
  /\ side = "resets" => ResetBound
  /\ UNCHANGED side

Spec == Init /\ [][Next]_vars /\ AccountFairness
=============================================================================
