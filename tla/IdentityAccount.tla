--------------------------- MODULE IdentityAccount ---------------------------
(***************************************************************************)
(* Identity: the accounts of one address.  A registration waits for its    *)
(* e-mailed token, consuming the token creates the account, a librarian's  *)
(* account waits for the administrator's decision, and administrators are  *)
(* told over event streams that the list of waiting librarians changed.    *)
(*                                                                         *)
(* Every statement of the repository is keyed by the address, its          *)
(* fingerprint or a row of it, so that the rows of other addresses do not  *)
(* matter.  Time passes by the actions that end a deadline.  A token is a  *)
(* number; the registration, the account and the mail that came with it    *)
(* carry it as their id.                                                   *)
(***************************************************************************)
EXTENDS Integers, FiniteSets

CONSTANTS MaximumTokens,     \* bound: verification tokens of a behaviour
          AttemptLimit,      \* claims of one mail: 10 in the code
          RetryMaxAttempts,  \* attempts after which a failed mail is given up
          ClaimBatchSize,    \* mails a worker claims at once
          MaximumSetups,     \* bound: bootstrap requests under way
          Workers,           \* replicas that deliver mail
          Streams,           \* event streams of administrators
          MaxSubscribers     \* streams the hub of one Edge process admits

ASSUME AccountAssumption ==
  /\ MaximumTokens \in Nat /\ MaximumSetups \in Nat
  /\ AttemptLimit \in Nat \ {0} /\ RetryMaxAttempts \in Nat \ {0}
  /\ ClaimBatchSize \in Nat \ {0} /\ MaxSubscribers \in Nat \ {0}

VARIABLES accounts, registrations, registering, issued,   \* identity.users, .registration_verifications
          admins, setups,                                 \* the administrator and the bootstraps under way
          mails, sending,                                 \* identity.email_outbox and the batches of the workers
          watching, notified, changes,                    \* the watch of Edge and its two channels
          subscribers, signal, stale, interrupted         \* the streams and what they know

rows         == << accounts, registrations, registering, issued >>
setupVars    == << admins, setups >>
mailVars     == << mails, sending >>
watchVars    == << watching, notified, changes >>
streamVars   == << subscribers, signal, stale, interrupted >>
accountVars  == << rows, setupVars, mailVars, watchVars, streamVars >>

Tokens == 1..MaximumTokens
Roles  == {"reader", "librarian"}
None   == "none"

Account      == [role : Roles, status : {"pending", "active", "rejected"}, erased : BOOLEAN, by : Tokens]
Registration == [token : Tokens, role : Roles, consumed : BOOLEAN, expired : BOOLEAN, recent : BOOLEAN]
Mail         == [attempts : 0..AttemptLimit, leased : BOOLEAN, due : BOOLEAN, delivered : BOOLEAN, sent : BOOLEAN]

AccountInit ==
  /\ accounts = << >> /\ registrations = << >> /\ registering = None /\ issued = 0
  /\ admins = 0 /\ setups = 0
  /\ mails = << >> /\ sending = [w \in Workers |-> << >>]
  /\ watching = FALSE /\ notified = FALSE /\ changes = FALSE
  /\ subscribers = {} /\ signal = {} /\ stale = {} /\ interrupted = {}

-----------------------------------------------------------------------------
(* The rows the statements select. *)

Holding(role) == {u \in DOMAIN accounts : accounts[u].role = role /\ ~ accounts[u].erased}
Pending       == {r \in DOMAIN registrations : ~ registrations[r].consumed}

(* An account of the role that is not a rejected librarian's. *)
Taken(role) == \E u \in Holding(role) : accounts[u].status # "rejected"

(* A table with one more row. *)
Stored(table, id, row) == [x \in DOMAIN table \cup {id} |-> IF x = id THEN row ELSE table[x]]

(* The sealed mail of a token, queued in the transaction that stores it.   *)
insertEmailOutbox(t) ==
  mails' = Stored(mails, t, [attempts |-> 0, leased |-> FALSE, due |-> TRUE, delivered |-> FALSE, sent |-> FALSE])

(* The trigger on identity.users: the waiting list changed, the listening  *)
(* connection is notified, and what the open streams showed is stale.  A   *)
(* watch that is down hears nothing and is told nothing when it returns.   *)
notifyPendingLibrariansChanged ==
  /\ notified' = watching
  /\ stale' = subscribers
  /\ interrupted' = IF watching THEN interrupted ELSE subscribers
  /\ UNCHANGED << watching, changes, subscribers, signal >>

-----------------------------------------------------------------------------
(* Registration and verification. *)

(* CreateOrIgnore, first half: under the lock of the address the account   *)
(* of the role is looked up.                                               *)
RegisterCheck(role) ==
  /\ registering = None /\ issued < MaximumTokens
  /\ ~ Taken(role)
  /\ registering' = role
  /\ UNCHANGED << accounts, registrations, issued, setupVars, mailVars, watchVars, streamVars >>

(* Second half: ignored when a registration is pending, else stored with   *)
(* its mail.  A Consume may have committed in between.                     *)
RegisterInsert ==
  /\ registering # None /\ Pending = {} /\ issued < MaximumTokens
  /\ issued' = issued + 1
  /\ registrations' = Stored(registrations, issued',
                             [token |-> issued', role |-> registering, consumed |-> FALSE,
                              expired |-> FALSE, recent |-> TRUE])
  /\ registering' = None
  /\ insertEmailOutbox(issued')
  /\ UNCHANGED << accounts, sending, setupVars, watchVars, streamVars >>

(* The registration is ignored, or its transaction is rolled back. *)
RegisterIgnored ==
  /\ registering # None
  /\ registering' = None
  /\ UNCHANGED << accounts, registrations, issued, setupVars, mailVars, watchVars, streamVars >>

(* Fault: the token is replaced also within the cooldown, without a mail.  *)
RotateForResendUnmailed ==
  \E r \in Pending :
    /\ issued < MaximumTokens
    /\ issued' = issued + 1
    /\ registrations' = [registrations EXCEPT ![r] = [@ EXCEPT !.token = issued', !.expired = FALSE, !.recent = TRUE]]
    /\ IF registrations[r].recent THEN UNCHANGED mails ELSE insertEmailOutbox(issued')
    /\ UNCHANGED << accounts, registering, sending, setupVars, watchVars, streamVars >>

RotateForResend ==
  \E r \in Pending :
    /\ issued < MaximumTokens
    /\ ~ registrations[r].recent
    /\ issued' = issued + 1
    /\ registrations' = [registrations EXCEPT ![r] = [@ EXCEPT !.token = issued', !.expired = FALSE, !.recent = TRUE]]
    /\ insertEmailOutbox(issued')
    /\ UNCHANGED << accounts, registering, sending, setupVars, watchVars, streamVars >>

(* The registration a mailed token still opens. *)
Opens(t) == {r \in Pending : registrations[r].token = t /\ ~ registrations[r].expired}

(* Fault: the reapplication looks for the librarian's account in whatever status. *)
reappliesAny(role) == IF role = "librarian" THEN Holding(role) ELSE {}

(* The rejected account a librarian's new application reopens. *)
reapplies(role) ==
  IF role = "librarian" THEN {u \in Holding(role) : accounts[u].status = "rejected"} ELSE {}

(* Consume: the account is created, or the rejected one reopened with the  *)
(* new profile; a unique violation leaves the token unused.                *)
Consume(t) ==
  \E r \in Opens(t) :
    LET role   == registrations[r].role
        status == IF role = "librarian" THEN "pending" ELSE "active"
    IN /\ mails[t].sent
       /\ \/ \E u \in reapplies(role) :
               accounts' = [accounts EXCEPT ![u] = [@ EXCEPT !.status = "pending", !.by = t]]
          \/ /\ reapplies(role) = {} /\ Holding(role) = {}
             /\ accounts' = Stored(accounts, t, [role |-> role, status |-> status, erased |-> FALSE, by |-> t])
       /\ registrations' = [registrations EXCEPT ![r].consumed = TRUE]
       /\ IF role = "librarian" THEN notifyPendingLibrariansChanged ELSE UNCHANGED << watchVars, streamVars >>
       /\ UNCHANGED << registering, issued, setupVars, mailVars >>

(* The token's lifetime, the resend cooldown: time passes. *)
VerificationExpires(r) ==
  /\ r \in Pending /\ ~ registrations[r].expired
  /\ registrations' = [registrations EXCEPT ![r].expired = TRUE]
  /\ UNCHANGED << accounts, registering, issued, setupVars, mailVars, watchVars, streamVars >>

CooldownEnds(r) ==
  /\ r \in Pending /\ registrations[r].recent
  /\ registrations' = [registrations EXCEPT ![r].recent = FALSE]
  /\ UNCHANGED << accounts, registering, issued, setupVars, mailVars, watchVars, streamVars >>

(* CleanupExpired: consumed and expired rows go once a retention passed.   *)
CleanupVerifications ==
  LET over == {r \in DOMAIN registrations : registrations[r].consumed \/ registrations[r].expired}
  IN \E gone \in SUBSET over :
       /\ gone # {}
       /\ registrations' = [r \in DOMAIN registrations \ gone |-> registrations[r]]
       /\ UNCHANGED << accounts, registering, issued, setupVars, mailVars, watchVars, streamVars >>

-----------------------------------------------------------------------------
(* The administrator. *)

(* CreateAdmin: the transaction's snapshot is older than the lock it waits *)
(* for, so the second of two finds no administrator and meets the unique   *)
(* index instead.                                                          *)
BootstrapBegin ==
  /\ admins = 0 /\ setups < MaximumSetups
  /\ setups' = setups + 1
  /\ UNCHANGED << admins, rows, mailVars, watchVars, streamVars >>

CreateAdmin ==
  /\ setups > 0
  /\ setups' = setups - 1
  /\ admins' = IF admins = 0 THEN 1 ELSE admins
  /\ UNCHANGED << rows, mailVars, watchVars, streamVars >>

(* Decide: one update, of an account that still waits; such an account has *)
(* no session to revoke.  validateActor asks for a live session of an      *)
(* active administrator; here any administrator there is may decide, which *)
(* allows more than the code does.                                         *)
Decide(u, status) ==
  /\ admins > 0
  /\ accounts[u].role = "librarian" /\ accounts[u].status = "pending"
  /\ accounts' = [accounts EXCEPT ![u].status = status]
  /\ notifyPendingLibrariansChanged
  /\ UNCHANGED << registrations, registering, issued, setupVars, mailVars >>

(* CleanupRejected, a retention after the decision. *)
CleanupRejected(u) ==
  /\ accounts[u].status = "rejected" /\ ~ accounts[u].erased
  /\ accounts' = [accounts EXCEPT ![u].erased = TRUE]
  /\ UNCHANGED << registrations, registering, issued, setupVars, mailVars, watchVars, streamVars >>

-----------------------------------------------------------------------------
(* Delivery of the mails: deliverEmailBatch. *)

Claimable == {m \in DOMAIN mails : /\ ~ mails[m].delivered /\ mails[m].attempts < AttemptLimit
                                   /\ mails[m].due /\ ~ mails[m].leased}

(* Fault: a claim does not count as an attempt. *)
ClaimUncounted(w) ==
  /\ sending[w] = << >>
  /\ \E batch \in SUBSET Claimable :
       /\ Cardinality(batch) = (IF Cardinality(Claimable) < ClaimBatchSize THEN Cardinality(Claimable) ELSE ClaimBatchSize)
       /\ batch # {}
       /\ mails' = [m \in DOMAIN mails |-> IF m \in batch THEN [mails[m] EXCEPT !.leased = TRUE] ELSE mails[m]]
       /\ sending' = [sending EXCEPT ![w] = [m \in batch |-> mails[m].attempts + 1]]
  /\ UNCHANGED << rows, setupVars, watchVars, streamVars >>

(* Claim: a batch of due mails is leased and each counts an attempt. *)
Claim(w) ==
  /\ sending[w] = << >>
  /\ \E batch \in SUBSET Claimable :
       /\ Cardinality(batch) = (IF Cardinality(Claimable) < ClaimBatchSize THEN Cardinality(Claimable) ELSE ClaimBatchSize)
       /\ batch # {}
       /\ mails' = [m \in DOMAIN mails |->
                      IF m \in batch THEN [mails[m] EXCEPT !.leased = TRUE, !.attempts = @ + 1] ELSE mails[m]]
       /\ sending' = [sending EXCEPT ![w] = [m \in batch |-> mails[m].attempts + 1]]
  /\ UNCHANGED << rows, setupVars, watchVars, streamVars >>

(* The rest of the worker's batch. *)
Rest(w, m) == sending' = [sending EXCEPT ![w] = [n \in DOMAIN sending[w] \ {m} |-> sending[w][n]]]

(* Delivered, of a mail nobody marked before; Failed, for good or to be    *)
(* tried again.                                                            *)
markDelivered(mail) == IF mail.delivered THEN mail ELSE [mail EXCEPT !.delivered = TRUE, !.leased = FALSE]

markFailed(mail, terminal) ==
  IF terminal THEN [mail EXCEPT !.attempts = AttemptLimit, !.leased = FALSE]
  ELSE IF mail.delivered THEN mail
  ELSE [mail EXCEPT !.due = FALSE, !.leased = FALSE]

(* The message is sent and marked, or the mark fails. *)
Send(w, m) ==
  /\ LET sent == [mails[m] EXCEPT !.sent = TRUE]
     IN \E marked \in BOOLEAN : mails' = [mails EXCEPT ![m] = IF marked THEN markDelivered(sent) ELSE sent]
  /\ Rest(w, m)
  /\ UNCHANGED << rows, setupVars, watchVars, streamVars >>

(* The send fails: the attempts the claim returned decide what is recorded. *)
SendFails(w, m) ==
  /\ mails' = [mails EXCEPT ![m] = markFailed(@, sending[w][m] >= RetryMaxAttempts)]
  /\ Rest(w, m)
  /\ UNCHANGED << rows, setupVars, watchVars, streamVars >>

(* The failure could not be recorded, or the process stopped: the lease    *)
(* runs out.                                                               *)
Dropped(w, m) ==
  /\ Rest(w, m)
  /\ UNCHANGED << mails, rows, setupVars, watchVars, streamVars >>

LeaseEnds(m) ==
  /\ mails[m].leased
  /\ mails' = [mails EXCEPT ![m].leased = FALSE]
  /\ UNCHANGED << sending, rows, setupVars, watchVars, streamVars >>

RetryDue(m) ==
  /\ ~ mails[m].due
  /\ mails' = [mails EXCEPT ![m].due = TRUE]
  /\ UNCHANGED << sending, rows, setupVars, watchVars, streamVars >>

-----------------------------------------------------------------------------
(* The watch of the waiting list and the streams of the administrators. *)

(* LISTEN and the stream of WatchPendingLibrarians are up. *)
Watch ==
  /\ ~ watching
  /\ watching' = TRUE
  /\ UNCHANGED << notified, changes, rows, setupVars, mailVars, streamVars >>

(* The stream breaks: both channels go with it, and so does what they held. *)
WatchBreaks ==
  /\ watching
  /\ watching' = FALSE /\ notified' = FALSE /\ changes' = FALSE
  /\ interrupted' = IF notified \/ changes THEN interrupted \cup stale ELSE interrupted
  /\ UNCHANGED << subscribers, signal, stale, rows, setupVars, mailVars >>

(* A notification crosses to Edge; a full channel coalesces it. *)
Forward ==
  /\ notified
  /\ notified' = FALSE /\ changes' = TRUE
  /\ UNCHANGED << watching, rows, setupVars, mailVars, streamVars >>

(* Publish: every subscriber's channel holds a change. *)
Publish ==
  /\ changes
  /\ changes' = FALSE
  /\ signal' = subscribers
  /\ UNCHANGED << watching, notified, subscribers, stale, interrupted, rows, setupVars, mailVars >>

(* A stream opens, within the limit of the process, and its page loads the *)
(* list.  The limits per session and per address only refuse more streams; *)
(* BookStatusStream models such counters.                                  *)
Subscribe(s) ==
  /\ s \notin subscribers /\ Cardinality(subscribers) < MaxSubscribers
  /\ subscribers' = subscribers \cup {s}
  /\ UNCHANGED << signal, stale, interrupted, watchVars, rows, setupVars, mailVars >>

(* An event is written; the page fetches the list again. *)
Tell(s) ==
  /\ s \in signal
  /\ signal' = signal \ {s}
  /\ stale' = stale \ {s} /\ interrupted' = interrupted \ {s}
  /\ UNCHANGED << subscribers, watchVars, rows, setupVars, mailVars >>

(* The stream ends: the browser leaves, its time is up, a frame fails, or  *)
(* the session is no longer an administrator's.                            *)
Unsubscribe(s) ==
  /\ s \in subscribers
  /\ subscribers' = subscribers \ {s} /\ signal' = signal \ {s}
  /\ stale' = stale \ {s} /\ interrupted' = interrupted \ {s}
  /\ UNCHANGED << watchVars, rows, setupVars, mailVars >>

-----------------------------------------------------------------------------
WorkerStep(w) == Claim(w) \/ \E m \in DOMAIN sending[w] : Send(w, m) \/ SendFails(w, m) \/ Dropped(w, m)

AccountNext ==
  \/ \E role \in Roles : RegisterCheck(role)
  \/ RegisterInsert \/ RegisterIgnored \/ RotateForResend \/ CleanupVerifications
  \/ \E t \in DOMAIN mails : Consume(t) \/ LeaseEnds(t) \/ RetryDue(t)
  \/ \E r \in DOMAIN registrations : VerificationExpires(r) \/ CooldownEnds(r)
  \/ BootstrapBegin \/ CreateAdmin
  \/ \E u \in DOMAIN accounts : CleanupRejected(u) \/ \E status \in {"active", "rejected"} : Decide(u, status)
  \/ \E w \in Workers : WorkerStep(w)
  \/ Watch \/ WatchBreaks \/ Forward \/ Publish
  \/ \E s \in Streams : Subscribe(s) \/ Tell(s) \/ Unsubscribe(s)

(* The ticker runs the worker again and again, and time passes. *)
AccountFairness ==
  /\ \A w \in Workers : WF_accountVars(WorkerStep(w))
  /\ \A m \in Tokens : /\ WF_accountVars(m \in DOMAIN mails /\ LeaseEnds(m))
                       /\ WF_accountVars(m \in DOMAIN mails /\ RetryDue(m))

AccountSpec == AccountInit /\ [][AccountNext]_accountVars /\ AccountFairness

-----------------------------------------------------------------------------
(* The rows are well formed, at most one administrator and one account of  *)
(* each role exist, and at most one registration is pending.               *)
AccountTypeOK ==
  /\ \A u \in DOMAIN accounts : accounts[u] \in Account
  /\ \A r \in DOMAIN registrations : registrations[r] \in Registration
  /\ \A m \in DOMAIN mails : mails[m] \in Mail
  /\ admins =< 1 /\ Cardinality(Pending) =< 1
  /\ \A role \in Roles : Cardinality(Holding(role)) =< 1

(* The token in the row of a pending registration is the token of a mail   *)
(* of the outbox: waiting, delivered, or given up after its attempts, when *)
(* only a resend helps (MailSettles says that one of the last two comes).  *)
TokenMailed == \A r \in Pending : registrations[r].token \in DOMAIN mails

(* A stream shows the waiting list as it is, or an event for it is on the  *)
(* way through the channels, unless the change fell into a break of the    *)
(* watch, which nothing makes up for.                                      *)
ChangesTold ==
  \A s \in stale : notified \/ changes \/ s \in signal \/ s \in interrupted

(* What the applicant and the administrators have to learn is on its way   *)
(* or has reached them, with two exceptions: the mail of the pending       *)
(* registration's token may have been given up after its attempts, and a   *)
(* change of the waiting list that falls into a break of Edge's watch is   *)
(* never told to the streams that are open then (interrupted).             *)
NothingUntold == AccountTypeOK /\ TokenMailed /\ ChangesTold

(* A decision on an application is final: an active account is never       *)
(* touched by a later registration, an account that waits keeps the        *)
(* profile it was verified with, and only a newly verified application     *)
(* reopens a rejected one, even when two registrations of one role pass    *)
(* their checks before either is verified.                                 *)
DecisionsFinal ==
  [][\A u \in DOMAIN accounts :
       /\ u \in DOMAIN accounts'
       /\ accounts[u].status = "active" => accounts'[u] = accounts[u]
       /\ accounts[u].status = "pending" => accounts'[u].by = accounts[u].by
       /\ accounts[u].status = "rejected" /\ accounts'[u].status # "rejected" =>
            accounts'[u].status = "pending" /\ accounts'[u].by # accounts[u].by
    ]_accountVars

(* Every mail is delivered, or given up after a bounded number of attempts, *)
(* whatever sends and marks fail and however leases overlap.               *)
MailSettles ==
  <>[](\A m \in DOMAIN mails : mails[m].delivered \/ mails[m].attempts = AttemptLimit)
=============================================================================
