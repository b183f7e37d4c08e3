--------------------------- MODULE Identity_proofs ---------------------------
(***************************************************************************)
(* Accounts.  The token of a pending registration is in a mail and opened  *)
(* no account yet (FreshInv), so that a verification opens a new account   *)
(* or reopens a rejected one under a token no account had; and what is     *)
(* stale for a stream is on its way to it (StreamsInv).                    *)
(*                                                                         *)
(* Sessions.  For any number of accounts, refreshes, logins and resets     *)
(* under way, the refresh tokens of a session form one chain, a revocation *)
(* is final, a code is compared a bounded number of times, a grant changes *)
(* one password once, and no session outlives the reset of its password.   *)
(* The argument is about locks: what a rotation read of its token and its  *)
(* session is still true when it commits (RotationInv), because whoever    *)
(* changes one of the two rows waits for its lock; and a grant is unused   *)
(* until the transaction that holds its challenge commits (GrantInv).      *)
(***************************************************************************)
EXTENDS IdentityAccount, IdentitySession, FiniteSetTheorems, TLAPS

-----------------------------------------------------------------------------
(* Accounts *)

(* The types of the rows and of the channels. *)
AccountTyped ==
  /\ issued \in 0..MaximumTokens /\ registering \in Roles \cup {None}
  /\ admins \in {0, 1}
  /\ watching \in BOOLEAN /\ notified \in BOOLEAN /\ changes \in BOOLEAN
  /\ \A u \in DOMAIN accounts : u \in 1..issued /\ accounts[u] \in Account /\ accounts[u].by <= issued
  /\ \A r \in DOMAIN registrations : r \in 1..issued /\ registrations[r] \in Registration
  /\ \A m \in DOMAIN mails : m \in 1..issued /\ mails[m] \in Mail

(* At most one registration is pending and one account holds a role. *)
SingleInv ==
  /\ \A r, q \in Pending : r = q
  /\ \A role \in Roles : \A u, v \in Holding(role) : u = v

(* The token of the pending registration is mailed and opened no account yet. *)
FreshInv ==
  \A r \in Pending :
    /\ registrations[r].token \in DOMAIN mails /\ registrations[r].token \notin DOMAIN accounts
    /\ \A u \in DOMAIN accounts : accounts[u].by # registrations[r].token

StreamsInv == stale \subseteq subscribers /\ ChangesTold

AccountInv == AccountTyped /\ SingleInv /\ FreshInv /\ StreamsInv

-----------------------------------------------------------------------------
(* The rows of identity.users and .registration_verifications and what they refer to. *)
RowsInv == AccountTyped /\ SingleInv /\ FreshInv

LEMMA AccountStart == AccountInit => AccountInv
<1> SUFFICES ASSUME AccountInit PROVE AccountInv
  OBVIOUS
<1>1. DOMAIN accounts = {} /\ DOMAIN registrations = {} /\ DOMAIN mails = {}
  BY DEF AccountInit
<1>2. Pending = {} /\ \A role \in Roles : Holding(role) = {}
  BY <1>1 DEF Pending, Holding
<1>3. AccountTyped
  <2>1. issued \in 0..MaximumTokens
    BY AccountAssumption DEF AccountInit
  <2> QED
    BY <1>1, <2>1 DEF AccountInit, AccountTyped
<1> QED
  BY <1>2, <1>3 DEF AccountInit, AccountInv, SingleInv, FreshInv, StreamsInv, ChangesTold

(* A step that leaves the rows and the mails alone. *)
LEMMA RowsSame ==
  ASSUME RowsInv, UNCHANGED << rows, mails, admins >>,
         watching' \in BOOLEAN, notified' \in BOOLEAN, changes' \in BOOLEAN
  PROVE  RowsInv'
BY DEF RowsInv, AccountTyped, SingleInv, FreshInv, Pending, Holding, rows

(* A step that only changes mails. *)
LEMMA MailsMove ==
  ASSUME RowsInv, UNCHANGED << rows, admins, watchVars >>, DOMAIN mails' = DOMAIN mails,
         \A m \in DOMAIN mails : mails'[m] \in Mail
  PROVE  RowsInv'
BY DEF RowsInv, AccountTyped, SingleInv, FreshInv, Pending, Holding, rows, watchVars

(* What the statements make of a mail is a mail. *)
LEMMA MailRows ==
  ASSUME NEW mail \in Mail
  PROVE  /\ mail.attempts < AttemptLimit => [mail EXCEPT !.leased = TRUE, !.attempts = @ + 1] \in Mail
         /\ [mail EXCEPT !.sent = TRUE] \in Mail
         /\ markDelivered(mail) \in Mail
         /\ \A terminal : markFailed(mail, terminal) \in Mail
<1>0. ASSUME NEW n \in 0..AttemptLimit, NEW leased \in BOOLEAN
      PROVE  [mail EXCEPT !.attempts = n, !.leased = leased] \in Mail
  BY DEF Mail
<1>1. ASSUME mail.attempts < AttemptLimit
      PROVE  [mail EXCEPT !.leased = TRUE, !.attempts = @ + 1] \in Mail
  <2>1. mail.attempts + 1 \in 0..AttemptLimit
    BY <1>1, AccountAssumption DEF Mail
  <2>2. [mail EXCEPT !.leased = TRUE, !.attempts = @ + 1]
          = [mail EXCEPT !.attempts = mail.attempts + 1, !.leased = TRUE]
    BY DEF Mail
  <2> QED
    BY <1>0, <2>1, <2>2
<1>2. [mail EXCEPT !.sent = TRUE] \in Mail
  BY DEF Mail
<1>3. markDelivered(mail) \in Mail
  BY DEF Mail, markDelivered
<1>4. ASSUME NEW terminal PROVE markFailed(mail, terminal) \in Mail
  <2>1. AttemptLimit \in 0..AttemptLimit
    BY AccountAssumption
  <2>2. [mail EXCEPT !.attempts = AttemptLimit, !.leased = FALSE] \in Mail
    BY <1>0, <2>1
  <2>3. [mail EXCEPT !.due = FALSE, !.leased = FALSE] \in Mail
    BY DEF Mail
  <2> QED
    BY <2>2, <2>3 DEF markFailed
<1> QED
  BY <1>1, <1>2, <1>3, <1>4

LEMMA MailSteps ==
  ASSUME RowsInv, NEW w \in Workers, WorkerStep(w)
  PROVE  RowsInv'
<1> USE DEF RowsInv
<1>1. CASE Claim(w)
  <2>1. PICK batch \in SUBSET Claimable :
          mails' = [m \in DOMAIN mails |->
                      IF m \in batch THEN [mails[m] EXCEPT !.leased = TRUE, !.attempts = @ + 1]
                                     ELSE mails[m]]
    BY <1>1, Zenon DEF Claim
  <2>2. \A m \in DOMAIN mails : mails'[m] \in Mail
    BY <2>1, MailRows DEF Claimable, AccountTyped
  <2>3. UNCHANGED << rows, admins, watchVars >> /\ DOMAIN mails' = DOMAIN mails
    BY <1>1, <2>1 DEF Claim, setupVars
  <2> QED
    BY <2>2, <2>3, MailsMove
<1>2. ASSUME NEW m \in DOMAIN sending[w], Send(w, m) PROVE RowsInv'
  <2>1. DOMAIN mails' = DOMAIN mails /\ UNCHANGED << rows, admins, watchVars >>
    BY <1>2 DEF Send, setupVars
  <2>2. \A n \in DOMAIN mails : mails'[n] \in Mail
    BY <1>2, MailRows DEF Send, AccountTyped
  <2> QED
    BY <2>1, <2>2, MailsMove
<1>3. ASSUME NEW m \in DOMAIN sending[w], SendFails(w, m) PROVE RowsInv'
  <2>1. DOMAIN mails' = DOMAIN mails /\ UNCHANGED << rows, admins, watchVars >>
    BY <1>3 DEF SendFails, setupVars
  <2>2. \A n \in DOMAIN mails : mails'[n] \in Mail
    BY <1>3, MailRows DEF SendFails, AccountTyped
  <2> QED
    BY <2>1, <2>2, MailsMove
<1>4. ASSUME NEW m \in DOMAIN sending[w], Dropped(w, m) PROVE RowsInv'
  BY <1>4, RowsSame DEF Dropped, setupVars, watchVars, AccountTyped
<1> QED
  BY <1>1, <1>2, <1>3, <1>4 DEF WorkerStep

LEMMA TimeSteps ==
  ASSUME RowsInv, NEW m \in DOMAIN mails, LeaseEnds(m) \/ RetryDue(m)
  PROVE  RowsInv'
<1>1. DOMAIN mails' = DOMAIN mails /\ UNCHANGED << rows, admins, watchVars >>
  BY DEF LeaseEnds, RetryDue, setupVars
<1>2. \A n \in DOMAIN mails : mails'[n] \in Mail
  <2>1. \A n \in DOMAIN mails : mails[n] \in Mail
    BY DEF RowsInv, AccountTyped
  <2>2. \A n \in DOMAIN mails : n # m => mails'[n] = mails[n]
    BY DEF LeaseEnds, RetryDue
  <2>3. mails'[m] = [mails[m] EXCEPT !.leased = FALSE] \/ mails'[m] = [mails[m] EXCEPT !.due = TRUE]
    BY DEF LeaseEnds, RetryDue
  <2>4. \A x \in Mail : [x EXCEPT !.leased = FALSE] \in Mail /\ [x EXCEPT !.due = TRUE] \in Mail
    BY DEF Mail
  <2>5. mails'[m] \in Mail
    BY <2>1, <2>3, <2>4
  <2> QED
    BY <2>1, <2>2, <2>5
<1> QED
  BY <1>1, <1>2, MailsMove

(* Registrations that stay keep their token, and none becomes pending again. *)
LEMMA RegistrationsMove ==
  ASSUME RowsInv, UNCHANGED << accounts, issued, mails, admins, watchVars >>,
         registering' \in Roles \cup {None},
         DOMAIN registrations' \subseteq DOMAIN registrations,
         \A r \in DOMAIN registrations' :
           /\ registrations'[r] \in Registration
           /\ registrations'[r].token = registrations[r].token
           /\ registrations[r].consumed => registrations'[r].consumed
  PROVE  RowsInv'
<1>1. Pending' \subseteq Pending
  BY DEF Pending
<1>2. AccountTyped'
  BY DEF RowsInv, AccountTyped, watchVars
<1>3. SingleInv'
  BY <1>1 DEF RowsInv, SingleInv, Holding
<1>4. \A r \in Pending' : r \in DOMAIN registrations'
  BY DEF Pending
<1>5. FreshInv'
  BY <1>1, <1>4 DEF RowsInv, FreshInv
<1> QED
  BY <1>2, <1>3, <1>5 DEF RowsInv

LEMMA RegistrationSteps ==
  ASSUME RowsInv,
         \/ \E role \in Roles : RegisterCheck(role)
         \/ RegisterIgnored \/ CleanupVerifications
         \/ \E r \in DOMAIN registrations : VerificationExpires(r) \/ CooldownEnds(r)
  PROVE  RowsInv'
<1> USE DEF setupVars, mailVars
<1>0. \A r \in DOMAIN registrations : registrations[r] \in Registration
  BY DEF RowsInv, AccountTyped
<1>1. CASE RegisterIgnored \/ \E role \in Roles : RegisterCheck(role)
  BY <1>0, <1>1, RegistrationsMove DEF RegisterCheck, RegisterIgnored, None
<1>2. CASE CleanupVerifications
  <2>1. PICK gone : registrations' = [r \in DOMAIN registrations \ gone |-> registrations[r]]
    BY <1>2 DEF CleanupVerifications
  <2>2. UNCHANGED << accounts, issued, mails, admins, watchVars, registering >>
    BY <1>2 DEF CleanupVerifications
  <2>3. registering \in Roles \cup {None}
    BY DEF RowsInv, AccountTyped
  <2> QED
    BY <1>0, <2>1, <2>2, <2>3, RegistrationsMove
<1>3. ASSUME NEW r \in DOMAIN registrations, VerificationExpires(r) \/ CooldownEnds(r)
      PROVE  RowsInv'
  <2>1. UNCHANGED << accounts, issued, mails, admins, watchVars, registering >>
    BY <1>3 DEF VerificationExpires, CooldownEnds
  <2>2. registering \in Roles \cup {None}
    BY DEF RowsInv, AccountTyped
  <2>3. DOMAIN registrations' = DOMAIN registrations
    BY <1>3 DEF VerificationExpires, CooldownEnds
  <2>4. /\ [registrations[r] EXCEPT !.expired = TRUE] \in Registration
        /\ [registrations[r] EXCEPT !.recent = FALSE] \in Registration
    BY <1>0 DEF Registration
  <2>5. \A q \in DOMAIN registrations : registrations'[q] \in Registration
    BY <1>0, <1>3, <2>4 DEF VerificationExpires, CooldownEnds
  <2>6. \A q \in DOMAIN registrations :
          /\ registrations'[q].token = registrations[q].token
          /\ registrations'[q].consumed = registrations[q].consumed
    BY <1>0, <1>3 DEF VerificationExpires, CooldownEnds, Registration
  <2> QED
    BY <2>1, <2>2, <2>3, <2>5, <2>6, RegistrationsMove
<1> QED
  BY <1>1, <1>2, <1>3

(* A new mail keeps the mails and their types. *)
LEMMA NewMail ==
  ASSUME RowsInv, issued < MaximumTokens, issued' = issued + 1, insertEmailOutbox(issued')
  PROVE  /\ issued' \in 0..MaximumTokens /\ issued' \in Tokens
         /\ DOMAIN mails' = DOMAIN mails \cup {issued'}
         /\ \A m \in DOMAIN mails' : m \in 1..issued' /\ mails'[m] \in Mail
<1>1. issued' \in 0..MaximumTokens /\ issued' \in Tokens
  BY AccountAssumption DEF RowsInv, AccountTyped, Tokens
<1>2. [attempts |-> 0, leased |-> FALSE, due |-> TRUE, delivered |-> FALSE, sent |-> FALSE] \in Mail
  BY AccountAssumption DEF Mail
<1>3. DOMAIN mails' = DOMAIN mails \cup {issued'}
  BY DEF insertEmailOutbox, Stored
<1>4. \A m \in DOMAIN mails' : m \in 1..issued'
  BY <1>3, AccountAssumption DEF RowsInv, AccountTyped
<1>5. \A m \in DOMAIN mails' : mails'[m] \in Mail
  BY <1>2, <1>3 DEF insertEmailOutbox, Stored, RowsInv, AccountTyped
<1> QED
  BY <1>1, <1>3, <1>4, <1>5

(* No account knows the next token. *)
LEMMA AccountsBelow ==
  ASSUME RowsInv, NEW u \in DOMAIN accounts
  PROVE  /\ u # issued + 1 /\ accounts[u].by # issued + 1
         /\ u \in 1..(issued + 1) /\ accounts[u].by <= issued + 1
<1>1. issued \in Nat /\ u \in 1..issued /\ accounts[u].by <= issued /\ accounts[u].by \in Int
  BY AccountAssumption DEF RowsInv, AccountTyped, Account, Tokens
<1> QED
  BY <1>1

LEMMA InsertStep ==
  ASSUME RowsInv, RegisterInsert
  PROVE  RowsInv'
<1> DEFINE row == [token |-> issued', role |-> registering, consumed |-> FALSE,
                   expired |-> FALSE, recent |-> TRUE]
<1> USE DEF RowsInv
<1>1. /\ issued < MaximumTokens /\ issued' = issued + 1 /\ insertEmailOutbox(issued')
      /\ UNCHANGED << accounts, admins, watchVars >> /\ registering' = None
      /\ registrations' = Stored(registrations, issued', row)
      /\ Pending = {} /\ registering \in Roles
  BY DEF RegisterInsert, setupVars, AccountTyped
<1>2. /\ issued' \in 0..MaximumTokens /\ issued' \in Tokens
      /\ DOMAIN mails' = DOMAIN mails \cup {issued'}
      /\ \A m \in DOMAIN mails' : m \in 1..issued' /\ mails'[m] \in Mail
  BY <1>1, NewMail
<1>3. row \in Registration /\ row.token = issued' /\ ~ row.consumed
  BY <1>1, <1>2 DEF Registration
<1> HIDE DEF row
<1>4. /\ DOMAIN registrations' = DOMAIN registrations \cup {issued'}
      /\ registrations'[issued'] = row
      /\ \A r \in DOMAIN registrations : r # issued' => registrations'[r] = registrations[r]
  BY <1>1 DEF Stored
<1>5. \A u \in DOMAIN accounts :
        u # issued' /\ accounts[u].by # issued' /\ u \in 1..issued' /\ accounts[u].by <= issued'
  BY <1>1, AccountsBelow
<1>6. issued \in Nat /\ issued' \in 1..issued'
  BY <1>1, AccountAssumption DEF AccountTyped
<1>7. \A r \in DOMAIN registrations' : r \in 1..issued' /\ registrations'[r] \in Registration
  <2>1. \A r \in DOMAIN registrations : r \in 1..issued' /\ r # issued' /\ registrations[r] \in Registration
    BY <1>1, <1>6 DEF AccountTyped
  <2> QED
    BY <1>3, <1>4, <1>6, <2>1
<1>8. AccountTyped'
  BY <1>1, <1>2, <1>5, <1>7 DEF AccountTyped, watchVars
<1>9. Pending' = {issued'}
  BY <1>1, <1>3, <1>4 DEF Pending
<1>10. SingleInv'
  BY <1>1, <1>9 DEF SingleInv, Holding
<1>11. FreshInv'
  BY <1>1, <1>2, <1>3, <1>4, <1>5, <1>9 DEF FreshInv
<1> QED
  BY <1>8, <1>10, <1>11

LEMMA ResendStep ==
  ASSUME RowsInv, RotateForResend
  PROVE  RowsInv'
<1> USE DEF RowsInv
<1>1. PICK r \in Pending :
        /\ issued < MaximumTokens /\ issued' = issued + 1 /\ insertEmailOutbox(issued')
        /\ registrations' = [registrations EXCEPT ![r] =
                               [@ EXCEPT !.token = issued', !.expired = FALSE, !.recent = TRUE]]
        /\ UNCHANGED << accounts, registering, admins, watchVars >>
  BY DEF RotateForResend, setupVars
<1> DEFINE row == [registrations[r] EXCEPT !.token = issued', !.expired = FALSE, !.recent = TRUE]
<1>2. /\ issued' \in 0..MaximumTokens /\ issued' \in Tokens
      /\ DOMAIN mails' = DOMAIN mails \cup {issued'}
      /\ \A m \in DOMAIN mails' : m \in 1..issued' /\ mails'[m] \in Mail
  BY <1>1, NewMail
<1>3. r \in DOMAIN registrations /\ registrations[r] \in Registration
  BY DEF Pending, AccountTyped
<1>4. row \in Registration /\ row.token = issued'
  BY <1>2, <1>3 DEF Registration
<1>5. /\ DOMAIN registrations' = DOMAIN registrations
      /\ registrations'[r] = row
      /\ \A q \in DOMAIN registrations : q # r => registrations'[q] = registrations[q]
  BY <1>1, <1>3
<1>6. row.consumed = registrations[r].consumed
  BY <1>3 DEF Registration
<1> HIDE DEF row
<1>7. \A u \in DOMAIN accounts :
        u # issued' /\ accounts[u].by # issued' /\ u \in 1..issued' /\ accounts[u].by <= issued'
  BY <1>1, AccountsBelow
<1>8. \A q \in DOMAIN registrations' : q \in 1..issued' /\ registrations'[q] \in Registration
  <2>1. \A q \in DOMAIN registrations : q \in 1..issued' /\ registrations[q] \in Registration
    BY <1>1, AccountAssumption DEF AccountTyped
  <2> QED
    BY <1>4, <1>5, <2>1
<1>9. AccountTyped'
  BY <1>1, <1>2, <1>7, <1>8 DEF AccountTyped, watchVars
<1>10. Pending' = {r}
  BY <1>1, <1>5, <1>6 DEF Pending, SingleInv
<1>11. SingleInv'
  BY <1>1, <1>10 DEF SingleInv, Holding
<1>12. FreshInv'
  BY <1>1, <1>2, <1>4, <1>5, <1>7, <1>10 DEF FreshInv
<1> QED
  BY <1>9, <1>11, <1>12

(* Accounts that keep their role and their token; none returns from its erasure. *)
LEMMA AccountsMove ==
  ASSUME RowsInv, UNCHANGED << registrations, registering, issued, admins, mails >>,
         watching' \in BOOLEAN, notified' \in BOOLEAN, changes' \in BOOLEAN,
         DOMAIN accounts' = DOMAIN accounts,
         \A u \in DOMAIN accounts :
           /\ accounts'[u] \in Account
           /\ accounts'[u].role = accounts[u].role /\ accounts'[u].by = accounts[u].by
           /\ accounts[u].erased => accounts'[u].erased
  PROVE  RowsInv'
<1> USE DEF RowsInv
<1>1. AccountTyped'
  BY DEF AccountTyped
<1>2. Pending' = Pending /\ \A role \in Roles : Holding(role)' \subseteq Holding(role)
  BY DEF Pending, Holding
<1>3. SingleInv'
  BY <1>2 DEF SingleInv
<1>4. FreshInv'
  BY <1>2 DEF FreshInv
<1> QED
  BY <1>1, <1>3, <1>4

LEMMA DecisionSteps ==
  ASSUME RowsInv, NEW u \in DOMAIN accounts,
         CleanupRejected(u) \/ \E status \in {"active", "rejected"} : Decide(u, status)
  PROVE  RowsInv'
<1> USE DEF setupVars, mailVars, watchVars, streamVars
<1>1. \A v \in DOMAIN accounts : accounts[v] \in Account
  BY DEF RowsInv, AccountTyped
<1>2. watching \in BOOLEAN /\ notified \in BOOLEAN /\ changes \in BOOLEAN
  BY DEF RowsInv, AccountTyped
<1>3. CASE CleanupRejected(u)
  <2>1. /\ [accounts[u] EXCEPT !.erased = TRUE] \in Account
        /\ accounts' = [accounts EXCEPT ![u] = [accounts[u] EXCEPT !.erased = TRUE]]
    BY <1>1, <1>3 DEF CleanupRejected, Account
  <2>2. \A v \in DOMAIN accounts :
           /\ accounts'[v] \in Account
           /\ accounts'[v].role = accounts[v].role /\ accounts'[v].by = accounts[v].by
           /\ accounts[v].erased => accounts'[v].erased
    BY <1>1, <2>1 DEF Account
  <2> QED
    BY <1>2, <1>3, <2>1, <2>2, AccountsMove DEF CleanupRejected
<1>4. ASSUME NEW status \in {"active", "rejected"}, Decide(u, status) PROVE RowsInv'
  <2>1. /\ [accounts[u] EXCEPT !.status = status] \in Account
        /\ accounts' = [accounts EXCEPT ![u] = [accounts[u] EXCEPT !.status = status]]
    BY <1>1, <1>4 DEF Decide, Account
  <2>2. \A v \in DOMAIN accounts :
           /\ accounts'[v] \in Account
           /\ accounts'[v].role = accounts[v].role /\ accounts'[v].by = accounts[v].by
           /\ accounts[v].erased => accounts'[v].erased
    BY <1>1, <2>1 DEF Account
  <2> QED
    BY <1>2, <1>4, <2>1, <2>2, AccountsMove DEF Decide, notifyPendingLibrariansChanged
<1> QED
  BY <1>3, <1>4

(* What a verification changes: it opens an account or reopens a rejected  *)
(* one, under a token no account had.                                      *)
LEMMA ConsumeEffect ==
  ASSUME RowsInv, NEW t \in DOMAIN mails, Consume(t)
  PROVE  /\ Pending' = {} /\ t \notin DOMAIN accounts
         /\ \A u \in DOMAIN accounts : accounts[u].by # t
         /\ DOMAIN registrations' = DOMAIN registrations
         /\ \A q \in DOMAIN registrations : registrations'[q] \in Registration
         /\ \E role \in Roles :
              \/ /\ Holding(role) = {} /\ DOMAIN accounts' = DOMAIN accounts \cup {t}
                 /\ \A u \in DOMAIN accounts : accounts'[u] = accounts[u]
                 /\ accounts'[t] \in Account /\ accounts'[t].role = role /\ accounts'[t].by = t
              \/ \E u \in DOMAIN accounts :
                   /\ DOMAIN accounts' = DOMAIN accounts /\ accounts[u].status = "rejected"
                   /\ \A v \in DOMAIN accounts : v # u => accounts'[v] = accounts[v]
                   /\ accounts'[u] \in Account /\ accounts'[u].status = "pending"
                   /\ accounts'[u].role = accounts[u].role /\ accounts'[u].by = t
                   /\ accounts'[u].erased = accounts[u].erased
<1> USE DEF RowsInv
<1>1. PICK r \in Opens(t) :
        /\ \/ \E u \in reapplies(registrations[r].role) :
                accounts' = [accounts EXCEPT ![u] = [@ EXCEPT !.status = "pending", !.by = t]]
           \/ /\ Holding(registrations[r].role) = {}
              /\ accounts' = Stored(accounts, t,
                   [role |-> registrations[r].role,
                    status |-> IF registrations[r].role = "librarian" THEN "pending" ELSE "active",
                    erased |-> FALSE, by |-> t])
        /\ registrations' = [registrations EXCEPT ![r].consumed = TRUE]
  BY DEF Consume
<1>2. r \in Pending /\ registrations[r].token = t
  BY DEF Opens
<1>3. t \notin DOMAIN accounts /\ \A u \in DOMAIN accounts : accounts[u].by # t
  BY <1>2 DEF FreshInv
<1>4. t \in Tokens
  BY AccountAssumption DEF AccountTyped, Tokens
<1>5. r \in DOMAIN registrations /\ registrations[r] \in Registration /\ registrations[r].role \in Roles
  BY <1>2 DEF Pending, AccountTyped, Registration
<1>6. [registrations[r] EXCEPT !.consumed = TRUE] \in Registration
  BY <1>5 DEF Registration
<1>7. /\ DOMAIN registrations' = DOMAIN registrations
      /\ \A q \in DOMAIN registrations : registrations'[q] \in Registration
  BY <1>1, <1>5, <1>6 DEF AccountTyped
<1>8. Pending' = {}
  <2>1. registrations'[r].consumed /\ \A q \in DOMAIN registrations : q # r => registrations'[q] = registrations[q]
    BY <1>1, <1>5 DEF Registration
  <2> QED
    BY <1>2, <1>7, <2>1 DEF Pending, SingleInv
<1>9. CASE \E u \in reapplies(registrations[r].role) :
             accounts' = [accounts EXCEPT ![u] = [@ EXCEPT !.status = "pending", !.by = t]]
  <2>1. PICK u \in reapplies(registrations[r].role) :
          accounts' = [accounts EXCEPT ![u] = [@ EXCEPT !.status = "pending", !.by = t]]
    BY <1>9
  <2>2. u \in DOMAIN accounts /\ accounts[u].status = "rejected" /\ accounts[u] \in Account
    BY DEF reapplies, Holding, AccountTyped
  <2> DEFINE row == [accounts[u] EXCEPT !.status = "pending", !.by = t]
  <2>3. /\ row \in Account /\ row.status = "pending" /\ row.role = accounts[u].role
        /\ row.by = t /\ row.erased = accounts[u].erased
    BY <1>4, <2>2 DEF Account
  <2>4. /\ DOMAIN accounts' = DOMAIN accounts /\ accounts'[u] = row
        /\ \A v \in DOMAIN accounts : v # u => accounts'[v] = accounts[v]
    BY <2>1, <2>2
  <2> HIDE DEF row
  <2> QED
    BY <1>3, <1>5, <1>7, <1>8, <2>2, <2>3, <2>4
<1>10. CASE /\ Holding(registrations[r].role) = {}
            /\ accounts' = Stored(accounts, t,
                 [role |-> registrations[r].role,
                  status |-> IF registrations[r].role = "librarian" THEN "pending" ELSE "active",
                  erased |-> FALSE, by |-> t])
  <2> DEFINE row == [role |-> registrations[r].role,
                     status |-> IF registrations[r].role = "librarian" THEN "pending" ELSE "active",
                     erased |-> FALSE, by |-> t]
  <2>1. row \in Account /\ row.role = registrations[r].role /\ row.by = t
    BY <1>4, <1>5 DEF Account
  <2> HIDE DEF row
  <2>2. accounts' = Stored(accounts, t, row)
    BY <1>10 DEF row
  <2>3. /\ DOMAIN accounts' = DOMAIN accounts \cup {t} /\ accounts'[t] = row
        /\ \A u \in DOMAIN accounts : accounts'[u] = accounts[u]
    BY <1>3, <2>2 DEF Stored
  <2> QED
    BY <1>3, <1>5, <1>7, <1>8, <1>10, <2>1, <2>3
<1> QED
  BY <1>1, <1>9, <1>10

LEMMA ConsumeStep ==
  ASSUME RowsInv, NEW t \in DOMAIN mails, Consume(t)
  PROVE  RowsInv'
<1> USE DEF RowsInv
<1>1. UNCHANGED << registering, issued, admins, mails >>
  BY DEF Consume, setupVars, mailVars
<1>2. watching' \in BOOLEAN /\ notified' \in BOOLEAN /\ changes' \in BOOLEAN
  BY DEF Consume, notifyPendingLibrariansChanged, watchVars, AccountTyped
<1>3. /\ t \in 1..issued /\ t <= issued
      /\ \A u \in DOMAIN accounts : u \in 1..issued /\ accounts[u] \in Account /\ accounts[u].by <= issued
  BY AccountAssumption DEF AccountTyped
<1>4. /\ \A u \in DOMAIN accounts' : u \in 1..issued /\ accounts'[u] \in Account /\ accounts'[u].by <= issued
      /\ \A role \in Roles : \A u, v \in Holding(role)' : u = v
  <2>1. PICK role \in Roles :
          \/ /\ Holding(role) = {} /\ DOMAIN accounts' = DOMAIN accounts \cup {t}
             /\ \A u \in DOMAIN accounts : accounts'[u] = accounts[u]
             /\ accounts'[t] \in Account /\ accounts'[t].role = role /\ accounts'[t].by = t
          \/ \E u \in DOMAIN accounts :
               /\ DOMAIN accounts' = DOMAIN accounts /\ accounts[u].status = "rejected"
               /\ \A v \in DOMAIN accounts : v # u => accounts'[v] = accounts[v]
               /\ accounts'[u] \in Account /\ accounts'[u].status = "pending"
               /\ accounts'[u].role = accounts[u].role /\ accounts'[u].by = t
               /\ accounts'[u].erased = accounts[u].erased
    BY ConsumeEffect
  <2>2. CASE /\ Holding(role) = {} /\ DOMAIN accounts' = DOMAIN accounts \cup {t}
             /\ \A u \in DOMAIN accounts : accounts'[u] = accounts[u]
             /\ accounts'[t] \in Account /\ accounts'[t].role = role /\ accounts'[t].by = t
    <3>1. \A other \in Roles : Holding(other)' \subseteq IF other = role THEN {t} ELSE Holding(other)
      BY <2>2 DEF Holding
    <3> QED
      BY <1>3, <2>2, <3>1 DEF SingleInv
  <2>3. CASE \E u \in DOMAIN accounts :
               /\ DOMAIN accounts' = DOMAIN accounts /\ accounts[u].status = "rejected"
               /\ \A v \in DOMAIN accounts : v # u => accounts'[v] = accounts[v]
               /\ accounts'[u] \in Account /\ accounts'[u].status = "pending"
               /\ accounts'[u].role = accounts[u].role /\ accounts'[u].by = t
               /\ accounts'[u].erased = accounts[u].erased
    <3>1. \A other \in Roles : Holding(other)' \subseteq Holding(other)
      BY <2>3 DEF Holding
    <3> QED
      BY <1>3, <2>3, <3>1 DEF SingleInv
  <2> QED
    BY <2>1, <2>2, <2>3
<1>5. /\ Pending' = {} /\ DOMAIN registrations' = DOMAIN registrations
      /\ \A q \in DOMAIN registrations : registrations'[q] \in Registration
  BY ConsumeEffect
<1>6. AccountTyped'
  BY <1>1, <1>2, <1>4, <1>5 DEF AccountTyped
<1> QED
  BY <1>4, <1>5, <1>6 DEF SingleInv, FreshInv

-----------------------------------------------------------------------------
(* The streams of the administrators. *)

(* A change of the waiting list is stale for every stream and told or lost. *)
LEMMA NotifyStreams ==
  ASSUME AccountInv, notifyPendingLibrariansChanged
  PROVE  StreamsInv'
BY DEF AccountInv, AccountTyped, StreamsInv, ChangesTold, notifyPendingLibrariansChanged

LEMMA StreamsSame ==
  ASSUME StreamsInv, UNCHANGED << watchVars, streamVars >>
  PROVE  StreamsInv'
BY DEF StreamsInv, ChangesTold, watchVars, streamVars

LEMMA StreamSteps ==
  ASSUME AccountInv,
         \/ Watch \/ WatchBreaks \/ Forward \/ Publish
         \/ \E s \in Streams : Subscribe(s) \/ Tell(s) \/ Unsubscribe(s)
  PROVE  RowsInv' /\ StreamsInv'
<1> USE DEF AccountInv, StreamsInv, ChangesTold
<1>1. UNCHANGED << rows, mails, admins >>
  BY DEF Watch, WatchBreaks, Forward, Publish, Subscribe, Tell, Unsubscribe, setupVars, mailVars
<1>2. watching' \in BOOLEAN /\ notified' \in BOOLEAN /\ changes' \in BOOLEAN
  BY DEF Watch, WatchBreaks, Forward, Publish, Subscribe, Tell, Unsubscribe, watchVars, AccountTyped
<1>3. RowsInv'
  BY <1>1, <1>2, RowsSame DEF RowsInv
<1>4. CASE Watch
  BY <1>3, <1>4 DEF Watch, streamVars
<1>5. CASE WatchBreaks
  BY <1>3, <1>5 DEF WatchBreaks
<1>6. CASE Forward
  BY <1>3, <1>6 DEF Forward, streamVars
<1>7. CASE Publish
  BY <1>3, <1>7 DEF Publish
<1>8. ASSUME NEW s \in Streams, Subscribe(s) PROVE StreamsInv'
  BY <1>8 DEF Subscribe, watchVars
<1>9. ASSUME NEW s \in Streams, Tell(s) \/ Unsubscribe(s) PROVE StreamsInv'
  BY <1>9 DEF Tell, Unsubscribe, watchVars
<1> QED
  BY <1>3, <1>4, <1>5, <1>6, <1>7, <1>8, <1>9

-----------------------------------------------------------------------------
LEMMA AccountStep ==
  ASSUME AccountInv, AccountNext
  PROVE  AccountInv'
<1>0. RowsInv /\ StreamsInv
  BY DEF AccountInv, RowsInv
<1>1. (RowsInv' /\ StreamsInv') => AccountInv'
  BY DEF AccountInv, RowsInv
<1>2. CASE \/ \E role \in Roles : RegisterCheck(role)
           \/ RegisterIgnored \/ CleanupVerifications
           \/ \E r \in DOMAIN registrations : VerificationExpires(r) \/ CooldownEnds(r)
  <2>1. UNCHANGED << watchVars, streamVars >>
    BY <1>2 DEF RegisterCheck, RegisterIgnored, CleanupVerifications, VerificationExpires, CooldownEnds
  <2> QED
    BY <1>0, <1>1, <1>2, <2>1, RegistrationSteps, StreamsSame
<1>3. CASE RegisterInsert
  BY <1>0, <1>1, <1>3, InsertStep, StreamsSame DEF RegisterInsert
<1>4. CASE RotateForResend
  BY <1>0, <1>1, <1>4, ResendStep, StreamsSame DEF RotateForResend
<1>5. ASSUME NEW t \in DOMAIN mails, Consume(t) PROVE AccountInv'
  <2>1. notifyPendingLibrariansChanged \/ UNCHANGED << watchVars, streamVars >>
    BY <1>5 DEF Consume
  <2> QED
    BY <1>0, <1>1, <1>5, <2>1, ConsumeStep, NotifyStreams, StreamsSame
<1>6. ASSUME NEW m \in DOMAIN mails, LeaseEnds(m) \/ RetryDue(m) PROVE AccountInv'
  <2>1. UNCHANGED << watchVars, streamVars >>
    BY <1>6 DEF LeaseEnds, RetryDue
  <2> QED
    BY <1>0, <1>1, <1>6, <2>1, TimeSteps, StreamsSame
<1>7. CASE BootstrapBegin \/ CreateAdmin
  <2>1. UNCHANGED << rows, mailVars, watchVars, streamVars >> /\ admins' \in {0, 1}
    BY <1>0, <1>7 DEF BootstrapBegin, CreateAdmin, RowsInv, AccountTyped
  <2>2. RowsInv'
    BY <1>0, <2>1
       DEF RowsInv, AccountTyped, SingleInv, FreshInv, Pending, Holding, rows, mailVars, watchVars
  <2> QED
    BY <1>0, <1>1, <2>1, <2>2, StreamsSame
<1>8. ASSUME NEW u \in DOMAIN accounts,
             CleanupRejected(u) \/ \E status \in {"active", "rejected"} : Decide(u, status)
      PROVE  AccountInv'
  <2>1. notifyPendingLibrariansChanged \/ UNCHANGED << watchVars, streamVars >>
    BY <1>8 DEF CleanupRejected, Decide
  <2> QED
    BY <1>0, <1>1, <1>8, <2>1, DecisionSteps, NotifyStreams, StreamsSame
<1>9. ASSUME NEW w \in Workers, WorkerStep(w) PROVE AccountInv'
  <2>1. UNCHANGED << watchVars, streamVars >>
    BY <1>9 DEF WorkerStep, Claim, Send, SendFails, Dropped
  <2> QED
    BY <1>0, <1>1, <1>9, <2>1, MailSteps, StreamsSame
<1>10. CASE \/ Watch \/ WatchBreaks \/ Forward \/ Publish
            \/ \E s \in Streams : Subscribe(s) \/ Tell(s) \/ Unsubscribe(s)
  BY <1>1, <1>10, StreamSteps
<1> QED
  BY <1>2, <1>3, <1>4, <1>5, <1>6, <1>7, <1>8, <1>9, <1>10 DEF AccountNext

LEMMA AccountStutter == AccountInv /\ UNCHANGED accountVars => AccountInv'
<1> SUFFICES ASSUME AccountInv, UNCHANGED accountVars PROVE AccountInv'
  OBVIOUS
<1>1. UNCHANGED << rows, mails, admins, watchVars, streamVars >>
  BY DEF accountVars, setupVars, mailVars
<1>2. RowsInv'
  BY <1>1, RowsSame DEF AccountInv, RowsInv, AccountTyped, watchVars
<1> QED
  BY <1>1, <1>2, StreamsSame DEF AccountInv, RowsInv

(***************************************************************************)
(* The inductive invariant of the rows of an address and of the watch of   *)
(* its waiting list, for any number of tokens, mail workers, bootstraps    *)
(* and streams.                                                            *)
(***************************************************************************)
THEOREM AccountInvariant == AccountSpec => []AccountInv
<1>1. AccountInv /\ [AccountNext]_accountVars => AccountInv'
  BY AccountStep, AccountStutter
<1> QED
  BY AccountStart, <1>1, PTL DEF AccountSpec

LEMMA AtMostOne ==
  ASSUME NEW S, \A x, y \in S : x = y
  PROVE  Cardinality(S) <= 1
<1>1. CASE S = {}
  BY <1>1, FS_EmptySet
<1>2. ASSUME NEW x \in S PROVE Cardinality(S) <= 1
  <2>1. S = {x}
    OBVIOUS
  <2> QED
    BY <2>1, FS_Singleton
<1> QED
  BY <1>1, <1>2

(***************************************************************************)
(* At most one registration is pending and one account holds a role; the   *)
(* token of the pending registration is in a mail; and a stream that shows *)
(* an old waiting list has an event on its way or met a break of the       *)
(* watch.                                                                  *)
(***************************************************************************)
THEOREM ChangesReachEveryone == AccountSpec => []NothingUntold
<1>1. AccountInv => NothingUntold
  <2> SUFFICES ASSUME AccountInv PROVE NothingUntold
    OBVIOUS
  <2>1. Cardinality(Pending) =< 1 /\ \A role \in Roles : Cardinality(Holding(role)) =< 1
    BY AtMostOne DEF AccountInv, SingleInv
  <2>2. admins =< 1
    BY DEF AccountInv, AccountTyped
  <2> QED
    BY <2>1, <2>2
       DEF AccountInv, AccountTyped, FreshInv, StreamsInv, NothingUntold, AccountTypeOK, TokenMailed
<1> QED
  BY AccountInvariant, <1>1, PTL

(***************************************************************************)
(* A decision is final: no registration, verification or clean-up touches  *)
(* an active account, changes the profile of one that waits, or reopens a  *)
(* rejected one without a newly verified application.                      *)
(***************************************************************************)
THEOREM DecisionsStand == AccountSpec => DecisionsFinal
<1> DEFINE A == \A u \in DOMAIN accounts :
                  /\ u \in DOMAIN accounts'
                  /\ accounts[u].status = "active" => accounts'[u] = accounts[u]
                  /\ accounts[u].status = "pending" => accounts'[u].by = accounts[u].by
                  /\ accounts[u].status = "rejected" /\ accounts'[u].status # "rejected" =>
                       accounts'[u].status = "pending" /\ accounts'[u].by # accounts[u].by
<1>1. ASSUME AccountInv, [AccountNext]_accountVars PROVE A \/ UNCHANGED accountVars
  <2>0. RowsInv /\ \A u \in DOMAIN accounts : accounts[u] \in Account
    BY <1>1 DEF AccountInv, RowsInv, AccountTyped
  <2>1. CASE UNCHANGED accounts
    BY <2>1
  <2>2. ASSUME NEW t \in DOMAIN mails, Consume(t) PROVE A
    <3>1. /\ t \notin DOMAIN accounts /\ \A u \in DOMAIN accounts : accounts[u].by # t
          /\ DOMAIN accounts \subseteq DOMAIN accounts'
          /\ \A u \in DOMAIN accounts :
               \/ accounts'[u] = accounts[u]
               \/ /\ accounts[u].status = "rejected" /\ accounts'[u].status = "pending"
                  /\ accounts'[u].by = t
      <4>1. RowsInv
        BY <2>0
      <4>2. PICK role \in Roles :
              \/ /\ DOMAIN accounts' = DOMAIN accounts \cup {t}
                 /\ \A u \in DOMAIN accounts : accounts'[u] = accounts[u]
              \/ \E u \in DOMAIN accounts :
                   /\ DOMAIN accounts' = DOMAIN accounts /\ accounts[u].status = "rejected"
                   /\ \A v \in DOMAIN accounts : v # u => accounts'[v] = accounts[v]
                   /\ accounts'[u].status = "pending" /\ accounts'[u].by = t
        BY <2>2, <4>1, ConsumeEffect
      <4>3. t \notin DOMAIN accounts /\ \A u \in DOMAIN accounts : accounts[u].by # t
        BY <2>2, <4>1, ConsumeEffect
      <4> QED
        BY <4>2, <4>3
    <3> QED
      BY <3>1
  <2>3. ASSUME NEW u \in DOMAIN accounts, CleanupRejected(u) PROVE A
    BY <2>0, <2>3 DEF CleanupRejected, Account
  <2>4. ASSUME NEW u \in DOMAIN accounts, NEW status \in {"active", "rejected"}, Decide(u, status)
        PROVE  A
    BY <2>0, <2>4 DEF Decide, Account
  <2> QED
    BY <1>1, <2>1, <2>2, <2>3, <2>4
       DEF AccountNext, RegisterCheck, RegisterInsert, RegisterIgnored, RotateForResend,
           CleanupVerifications, LeaseEnds, RetryDue, VerificationExpires, CooldownEnds,
           BootstrapBegin, CreateAdmin, WorkerStep, Claim, Send, SendFails, Dropped, Watch,
           WatchBreaks, Forward, Publish, Subscribe, Tell, Unsubscribe, rows
<1> QED
  BY AccountInvariant, <1>1, PTL DEF AccountSpec, DecisionsFinal

-----------------------------------------------------------------------------
(* Sessions *)

Token == [session : Nat, consumed : BOOLEAN, replacedBy : Nat]

Begun    == [at : {"begun"}, token : Nat, live : BOOLEAN]
Rotation == [at : {"session", "user"}, token : Nat, live : BOOLEAN, session : Nat,
             user : Users, consumed : BOOLEAN, revoked : BOOLEAN]
Login    == [at : {"found", "hashing"}, left : Int, matches : SUBSET Users]
Reset    == [at : {"hashing", "hashed", "locked"}, grant : Nat, user : Users]
Row      == [attempts : Nat, compared : Nat, expired : BOOLEAN, recent : BOOLEAN,
             grant : Nat, grantExpired : BOOLEAN, consumed : BOOLEAN]

RequestsTyped ==
  /\ refreshes \in [Refreshes -> {Idle} \cup Begun \cup Rotation]
  /\ logins \in [Logins -> {Idle} \cup Login]
  /\ completions \in [Resets -> {Idle} \cup Reset]

RowsTyped ==
  /\ passwords \in [Users -> Nat]
  /\ drawn \in [session : Nat, token : Nat]
  /\ \A s \in DOMAIN sessions : s \in Nat /\ s <= drawn.session /\ sessions[s] \in Session
  /\ \A t \in DOMAIN refreshTokens :
       t \in Nat /\ t # 0 /\ t <= drawn.token /\ refreshTokens[t] \in Token

(* A session is open only under the password it was opened with. *)
OpenInv ==
  \A s \in DOMAIN sessions : ~ sessions[s].revoked => sessions[s].since = passwords[sessions[s].user]

(* The unused token of a session. *)
Unused(t, s) == refreshTokens[t].session = s /\ ~ refreshTokens[t].consumed

(* Every token has its session and every used one its successor. *)
ChainInv ==
  /\ \A t \in DOMAIN refreshTokens :
       /\ refreshTokens[t].session \in DOMAIN sessions
       /\ refreshTokens[t].replacedBy <= drawn.token
       /\ ~ refreshTokens[t].consumed => refreshTokens[t].replacedBy = 0
       /\ refreshTokens[t].consumed =>
            /\ refreshTokens[t].replacedBy \in DOMAIN refreshTokens
            /\ refreshTokens[refreshTokens[t].replacedBy].session = refreshTokens[t].session
  /\ \A t, m \in DOMAIN refreshTokens :
       refreshTokens[t].consumed /\ refreshTokens[m].replacedBy = refreshTokens[t].replacedBy => m = t

UnusedInv ==
  /\ \A s \in DOMAIN sessions : \E t \in DOMAIN refreshTokens : Unused(t, s)
  /\ \A t, m \in DOMAIN refreshTokens, s \in DOMAIN sessions :
       Unused(t, s) /\ Unused(m, s) => t = m

(* What a rotation read under its locks is still so. *)
Faithful(r) ==
  /\ refreshes[r].token \in DOMAIN refreshTokens
  /\ refreshes[r].session \in DOMAIN sessions
  /\ refreshTokens[refreshes[r].token].session = refreshes[r].session
  /\ refreshTokens[refreshes[r].token].consumed = refreshes[r].consumed
  /\ sessions[refreshes[r].session].revoked = refreshes[r].revoked

RotationInv ==
  /\ \A r \in Refreshes : HoldsToken(r) => Faithful(r)
  /\ \A r, q \in Refreshes :
       HoldsToken(r) /\ HoldsToken(q) /\ refreshes[r].session = refreshes[q].session => r = q

SessionInv == RequestsTyped /\ RowsTyped /\ OpenInv /\ ChainInv /\ UnusedInv /\ RotationInv

(* A grant is used by the transaction that holds its challenge. *)
GrantInv ==
  /\ grants \in Nat /\ grants <= MaximumGrants
  /\ uses \in [1..MaximumGrants -> Nat]
  /\ \A g \in 1..MaximumGrants : uses[g] <= 1 /\ (g > grants => uses[g] = 0)
  /\ \A c \in Resets : completions[c] # Idle =>
       completions[c].grant # 0 /\ completions[c].grant <= grants
  /\ \A c, d \in Resets : completions[c].at = "locked" /\ completions[d].at = "locked" => c = d

ChallengeInv ==
  /\ challenge # Absent =>
       /\ challenge \in Row
       /\ challenge.compared = challenge.attempts /\ challenge.attempts <= CodeAttempts
       /\ challenge.grant <= grants
       /\ ~ challenge.consumed /\ challenge.grant # 0 => uses[challenge.grant] = 0
  /\ \A c \in Resets : completions[c].at = "locked" =>
       challenge # Absent /\ challenge.grant = completions[c].grant /\ ~ challenge.consumed

ResetInv == GrantInv /\ ChallengeInv

-----------------------------------------------------------------------------
(* Requests and their locks *)

LEMMA IdleAt == Idle.at = "idle"
  BY DEF Idle

LEMMA RefreshShape ==
  ASSUME RequestsTyped, NEW r \in Refreshes
  PROVE  /\ refreshes[r].at = "begun" => refreshes[r] \in Begun
         /\ HoldsToken(r) <=> refreshes[r] \in Rotation
         /\ refreshes[r].at \in {"session", "user"} <=> HoldsToken(r)
<1>1. refreshes[r] \in {Idle} \cup Begun \cup Rotation
  BY DEF RequestsTyped
<1> QED
  BY <1>1, IdleAt DEF HoldsToken, Begun, Rotation

LEMMA ResetShape ==
  ASSUME RequestsTyped, NEW c \in Resets
  PROVE  completions[c].at \in {"hashing", "hashed", "locked"} => completions[c] \in Reset
<1>1. completions[c] \in {Idle} \cup Reset
  BY DEF RequestsTyped
<1> QED
  BY <1>1, IdleAt DEF Reset

LEMMA LoginShape ==
  ASSUME RequestsTyped, NEW l \in Logins
  PROVE  logins[l].at \in {"found", "hashing"} => logins[l] \in Login
<1>1. logins[l] \in {Idle} \cup Login
  BY DEF RequestsTyped
<1> QED
  BY <1>1, IdleAt DEF Login

LEMMA Locked ==
  ASSUME NEW r \in Refreshes, HoldsToken(r)
  PROVE  refreshes[r].session \in LockedSessions /\ refreshes[r].token \in LockedTokens
  BY DEF LockedSessions, LockedTokens

(* The rotations under way have the locks they had and no further ones. *)
RotationsKept ==
  \A r \in Refreshes : HoldsToken(r)' =>
    /\ HoldsToken(r)
    /\ refreshes'[r].token = refreshes[r].token /\ refreshes'[r].session = refreshes[r].session
    /\ refreshes'[r].consumed = refreshes[r].consumed
    /\ refreshes'[r].revoked = refreshes[r].revoked

LEMMA RefreshesSame ==
  ASSUME UNCHANGED refreshes
  PROVE  RotationsKept
  BY DEF RotationsKept, HoldsToken

(* A request that has no lock, any more or yet. *)
LEMMA WithoutLock ==
  ASSUME RequestsTyped, NEW r \in Refreshes, NEW d \in {Idle} \cup Begun,
         refreshes' = [refreshes EXCEPT ![r] = d]
  PROVE  RotationsKept /\ refreshes' \in [Refreshes -> {Idle} \cup Begun \cup Rotation]
<1>1. d.at \notin {"session", "user"}
  BY IdleAt DEF Begun
<1>2. refreshes \in [Refreshes -> {Idle} \cup Begun \cup Rotation]
  BY DEF RequestsTyped
<1>3. refreshes'[r] = d /\ \A q \in Refreshes : q # r => refreshes'[q] = refreshes[q]
  BY <1>2
<1>4. RotationsKept
  BY <1>1, <1>3 DEF RotationsKept, HoldsToken
<1> QED
  BY <1>2, <1>4

-----------------------------------------------------------------------------
(* Steps on the sessions *)

(***************************************************************************)
(* The sessions are the same ones, and none that a rotation holds is       *)
(* revoked under it.                                                       *)
(***************************************************************************)
LEMMA StepSessions ==
  ASSUME SessionInv, RequestsTyped', RotationsKept, UNCHANGED << refreshTokens, drawn >>,
         passwords' \in [Users -> Nat], DOMAIN sessions' = DOMAIN sessions,
         \A s \in DOMAIN sessions : sessions'[s] \in Session,
         OpenInv',
         \A r \in Refreshes : HoldsToken(r)' =>
           sessions'[refreshes[r].session].revoked = sessions[refreshes[r].session].revoked
  PROVE  SessionInv'
<1>1. RowsTyped'
  BY DEF SessionInv, RowsTyped
<1>2. ChainInv'
  BY DEF SessionInv, ChainInv
<1>3. UnusedInv'
  BY DEF SessionInv, UnusedInv, Unused
<1>4. RotationInv'
  BY DEF SessionInv, RotationInv, RotationsKept, Faithful
<1> QED
  BY <1>1, <1>2, <1>3, <1>4 DEF SessionInv

LEMMA SameSessions ==
  ASSUME SessionInv, RequestsTyped', RotationsKept, UNCHANGED << passwords, sessionRows >>
  PROVE  SessionInv' /\ RevocationStays
<1>1. UNCHANGED << passwords, sessions, refreshTokens, drawn >>
  BY DEF sessionRows
<1>2. OpenInv' /\ passwords' \in [Users -> Nat]
  BY <1>1 DEF SessionInv, OpenInv, RowsTyped
<1>3. \A s \in DOMAIN sessions : sessions'[s] \in Session
  BY <1>1 DEF SessionInv, RowsTyped
<1>4. SessionInv'
  BY <1>1, <1>2, <1>3, StepSessions
<1> QED
  BY <1>1, <1>4 DEF RevocationStays

(* Requests move without a row. *)
LEMMA RequestSteps ==
  ASSUME SessionInv
  PROVE  /\ \A r \in Refreshes, t \in DOMAIN refreshTokens :
              Refresh(r, t) => SessionInv' /\ RevocationStays
         /\ \A r \in Refreshes : RotateAbort(r) => SessionInv' /\ RevocationStays
         /\ \A r \in Refreshes : RotateLockUser(r) => SessionInv' /\ RevocationStays
         /\ \A l \in Logins, p \in 0..MaximumGrants :
              FindByEmailRoles(l, p) => SessionInv' /\ RevocationStays
         /\ \A l \in Logins : CompareAcquire(l) \/ CompareRelease(l) \/ LoginEnds(l)
              => SessionInv' /\ RevocationStays
<1>0. RequestsTyped
  BY DEF SessionInv
<1>1. ASSUME NEW r \in Refreshes, NEW t \in DOMAIN refreshTokens, Refresh(r, t)
      PROVE  SessionInv' /\ RevocationStays
  <2> DEFINE d == [at |-> "begun", token |-> t,
                   live |-> ~ sessions[refreshTokens[t].session].expired]
  <2>1. d \in Begun
    BY DEF SessionInv, RowsTyped, Begun
  <2>2. refreshes' = [refreshes EXCEPT ![r] = d]
    BY <1>1 DEF Refresh
  <2> HIDE DEF d
  <2>3. RotationsKept /\ RequestsTyped'
    BY <1>0, <1>1, <2>1, <2>2, WithoutLock DEF Refresh, RequestsTyped
  <2> QED
    BY <1>1, <2>3, SameSessions DEF Refresh
<1>2. ASSUME NEW r \in Refreshes, RotateAbort(r)
      PROVE  SessionInv' /\ RevocationStays
  <2>1. RotationsKept /\ RequestsTyped'
    BY <1>0, <1>2, WithoutLock DEF RotateAbort, RequestsTyped
  <2> QED
    BY <1>2, <2>1, SameSessions DEF RotateAbort
<1>3. ASSUME NEW r \in Refreshes, RotateLockUser(r)
      PROVE  SessionInv' /\ RevocationStays
  <2> DEFINE d == [refreshes[r] EXCEPT !.at = "user"]
  <2>1. refreshes[r] \in Rotation /\ HoldsToken(r)
    BY <1>0, <1>3, RefreshShape DEF RotateLockUser
  <2>2. /\ d \in Rotation /\ d.at = "user" /\ d.token = refreshes[r].token
        /\ d.session = refreshes[r].session /\ d.consumed = refreshes[r].consumed
        /\ d.revoked = refreshes[r].revoked
    BY <2>1 DEF Rotation
  <2>3. refreshes' = [refreshes EXCEPT ![r] = d]
    BY <1>3 DEF RotateLockUser
  <2> HIDE DEF d
  <2>4. refreshes'[r] = d /\ \A q \in Refreshes : q # r => refreshes'[q] = refreshes[q]
    BY <1>0, <2>3 DEF RequestsTyped
  <2>5. RotationsKept
    BY <2>1, <2>2, <2>4 DEF RotationsKept, HoldsToken
  <2>6. RequestsTyped'
    BY <1>0, <1>3, <2>2, <2>3 DEF RequestsTyped, RotateLockUser
  <2> QED
    BY <1>3, <2>5, <2>6, SameSessions DEF RotateLockUser
<1>4. ASSUME NEW l \in Logins, NEW d \in {Idle} \cup Login, logins' = [logins EXCEPT ![l] = d],
             UNCHANGED << passwords, sessionRows, refreshes, completions >>
      PROVE  SessionInv' /\ RevocationStays
  <2>1. RotationsKept
    BY <1>4, RefreshesSame
  <2>2. RequestsTyped'
    BY <1>0, <1>4 DEF RequestsTyped
  <2> QED
    BY <1>4, <2>1, <2>2, SameSessions
<1>5. ASSUME NEW l \in Logins, NEW p \in 0..MaximumGrants, FindByEmailRoles(l, p)
      PROVE  SessionInv' /\ RevocationStays
  <2> DEFINE d == [at |-> "found", left |-> Cardinality(Users),
                   matches |-> {u \in Users : passwords[u] = p}]
  <2>1. Cardinality(Users) \in Int
    BY SessionAssumption, FS_CardinalityType
  <2>2. d \in Login
    <3> DEFINE n == Cardinality(Users)
               found == {u \in Users : passwords[u] = p}
    <3>1. n \in Int /\ found \in SUBSET Users
      BY <2>1
    <3>2. d = [at |-> "found", left |-> n, matches |-> found]
      OBVIOUS
    <3> HIDE DEF n, found
    <3> QED
      BY <3>1, <3>2 DEF Login
  <2>3. logins' = [logins EXCEPT ![l] = d]
    BY <1>5 DEF FindByEmailRoles
  <2> HIDE DEF d
  <2> QED
    BY <1>4, <1>5, <2>2, <2>3 DEF FindByEmailRoles
<1>6. ASSUME NEW l \in Logins, CompareAcquire(l)
      PROVE  SessionInv' /\ RevocationStays
  <2> DEFINE d == [logins[l] EXCEPT !.at = "hashing"]
  <2>1. d \in Login
    BY <1>0, <1>6, LoginShape DEF CompareAcquire, Login
  <2>2. logins' = [logins EXCEPT ![l] = d]
    BY <1>6 DEF CompareAcquire
  <2> HIDE DEF d
  <2> QED
    BY <1>4, <1>6, <2>1, <2>2 DEF CompareAcquire
<1>7. ASSUME NEW l \in Logins, CompareRelease(l)
      PROVE  SessionInv' /\ RevocationStays
  <2> DEFINE n == logins[l].left - 1
             d == [logins[l] EXCEPT !.at = "found", !.left = n]
  <2>1. logins[l] \in Login
    BY <1>0, <1>7, LoginShape DEF CompareRelease
  <2>2. n \in Int
    BY <2>1 DEF Login
  <2>3. logins' = [logins EXCEPT ![l] = d]
    BY <1>7 DEF CompareRelease
  <2> HIDE DEF n
  <2>4. d \in Login
    BY <2>1, <2>2 DEF Login
  <2> HIDE DEF d
  <2> QED
    BY <1>4, <1>7, <2>3, <2>4 DEF CompareRelease
<1>8. ASSUME NEW l \in Logins, LoginEnds(l)
      PROVE  SessionInv' /\ RevocationStays
  BY <1>4, <1>8 DEF LoginEnds
<1> QED
  BY <1>1, <1>2, <1>3, <1>5, <1>6, <1>7, <1>8

(* A rotation reads its two rows once it has their locks. *)
LEMMA LockStep ==
  ASSUME SessionInv, NEW r \in Refreshes, RotateLockSession(r)
  PROVE  SessionInv' /\ RevocationStays
<1>0. RequestsTyped /\ RowsTyped /\ ChainInv /\ RotationInv
  BY DEF SessionInv
<1> DEFINE t == refreshes[r].token
<1>1. refreshes[r] \in Begun /\ ~ HoldsToken(r)
  BY <1>0, RefreshShape DEF RotateLockSession, HoldsToken
<1>2. UNCHANGED << passwords, sessionRows, logins, completions >>
  BY DEF RotateLockSession
<1>3. CASE t \notin DOMAIN refreshTokens
  <2>1. refreshes' = [refreshes EXCEPT ![r] = Idle]
    BY <1>3 DEF RotateLockSession
  <2>2. RotationsKept /\ RequestsTyped'
    BY <1>0, <1>2, <2>1, WithoutLock DEF RequestsTyped
  <2> QED
    BY <1>2, <2>2, SameSessions
<1>4. CASE t \in DOMAIN refreshTokens
  <2> DEFINE s == refreshTokens[t].session
             d == [at |-> "session", token |-> t, live |-> refreshes[r].live, session |-> s,
                   user |-> sessions[s].user, consumed |-> refreshTokens[t].consumed,
                   revoked |-> sessions[s].revoked]
  <2>1. refreshes' = [refreshes EXCEPT ![r] = d] /\ s \notin LockedSessions
    BY <1>4 DEF RotateLockSession
  <2>2. s \in DOMAIN sessions /\ refreshTokens[t] \in Token /\ sessions[s] \in Session /\ t \in Nat
    BY <1>0, <1>4 DEF ChainInv, RowsTyped
  <2>3. /\ s \in Nat /\ refreshTokens[t].consumed \in BOOLEAN
        /\ sessions[s].revoked \in BOOLEAN /\ sessions[s].user \in Users
        /\ refreshes[r].live \in BOOLEAN
    BY <1>1, <2>2 DEF Token, Session, Begun
  <2>4. /\ d \in Rotation /\ d.at = "session" /\ d.token = t /\ d.session = s
        /\ d.consumed = refreshTokens[t].consumed /\ d.revoked = sessions[s].revoked
    BY <2>2, <2>3 DEF Rotation
  <2>5. UNCHANGED << passwords, sessions, refreshTokens, drawn >>
    BY <1>2 DEF sessionRows
  <2> HIDE DEF d, s, t
  <2>6. refreshes'[r] = d /\ \A q \in Refreshes : q # r => refreshes'[q] = refreshes[q]
    BY <1>0, <2>1 DEF RequestsTyped
  <2>7. RequestsTyped'
    BY <1>0, <1>2, <2>1, <2>4 DEF RequestsTyped
  <2>8. \A q \in Refreshes : q # r => (HoldsToken(q)' <=> HoldsToken(q))
    BY <2>6 DEF HoldsToken
  <2>9. \A q \in Refreshes : HoldsToken(q)' => Faithful(q)'
    <3> SUFFICES ASSUME NEW q \in Refreshes, HoldsToken(q)' PROVE Faithful(q)'
      OBVIOUS
    <3>1. CASE q = r
      BY <1>4, <2>2, <2>4, <2>5, <2>6, <3>1 DEF Faithful, s
    <3>2. CASE q # r
      BY <1>0, <2>5, <2>6, <2>8, <3>2 DEF Faithful, RotationInv
    <3> QED
      BY <3>1, <3>2
  <2>10. ASSUME NEW p \in Refreshes, NEW q \in Refreshes, HoldsToken(p)', HoldsToken(q)',
                refreshes'[p].session = refreshes'[q].session
         PROVE  p = q
    <3>1. CASE p = r /\ q # r
      BY <2>1, <2>4, <2>6, <2>8, <2>10, <3>1, Locked
    <3>2. CASE p # r /\ q = r
      BY <2>1, <2>4, <2>6, <2>8, <2>10, <3>2, Locked
    <3>3. CASE p # r /\ q # r
      BY <1>0, <2>6, <2>8, <2>10, <3>3 DEF RotationInv
    <3> QED
      BY <3>1, <3>2, <3>3
  <2>11. RotationInv'
    BY <2>9, <2>10 DEF RotationInv
  <2>12. RowsTyped' /\ OpenInv' /\ ChainInv'
    BY <2>5 DEF SessionInv, RowsTyped, OpenInv, ChainInv
  <2>13. UnusedInv'
    BY <2>5 DEF SessionInv, UnusedInv, Unused
  <2> QED
    BY <2>5, <2>7, <2>11, <2>12, <2>13 DEF SessionInv, RevocationStays
<1> QED
  BY <1>3, <1>4

(* Logout and expiry: one session, which no rotation holds if it is revoked. *)
LEMMA OneSession ==
  ASSUME SessionInv, RequestsTyped', RotationsKept, UNCHANGED << passwords, refreshTokens, drawn >>,
         NEW s, NEW d \in Session, sessions' = [sessions EXCEPT ![s] = d],
         s \in DOMAIN sessions,
         d.user = sessions[s].user, d.since = sessions[s].since,
         sessions[s].revoked => d.revoked,
         d.revoked # sessions[s].revoked =>
           \A r \in Refreshes : HoldsToken(r)' => refreshes[r].session # s
  PROVE  SessionInv' /\ RevocationStays
<1>1. /\ DOMAIN sessions' = DOMAIN sessions /\ sessions'[s] = d
      /\ \A x \in DOMAIN sessions : x # s => sessions'[x] = sessions[x]
  OBVIOUS
<1>2. \A x \in DOMAIN sessions : sessions[x] \in Session
  BY DEF SessionInv, RowsTyped
<1>3. \A x \in DOMAIN sessions : sessions'[x] \in Session
  BY <1>1, <1>2
<1>4. OpenInv'
  <2>1. OpenInv
    BY DEF SessionInv
  <2>2. sessions[s].revoked \in BOOLEAN /\ d.revoked \in BOOLEAN
    BY <1>2 DEF Session
  <2> QED
    BY <1>1, <2>1, <2>2 DEF OpenInv
<1>5. ASSUME NEW r \in Refreshes, HoldsToken(r)'
      PROVE  sessions'[refreshes[r].session].revoked = sessions[refreshes[r].session].revoked
  <2>1. refreshes[r].session \in DOMAIN sessions
    BY <1>5 DEF SessionInv, RotationInv, RotationsKept, Faithful
  <2> QED
    BY <1>1, <1>5, <2>1
<1>6. passwords' \in [Users -> Nat]
  BY DEF SessionInv, RowsTyped
<1>7. SessionInv'
  BY <1>1, <1>3, <1>4, <1>5, <1>6, StepSessions
<1>8. RevocationStays
  BY <1>1 DEF RevocationStays
<1> QED
  BY <1>7, <1>8

LEMMA LogoutStep ==
  ASSUME SessionInv, NEW s \in DOMAIN sessions
  PROVE  Logout(s) \/ SessionExpires(s) => SessionInv' /\ RevocationStays
<1>0. sessions[s] \in Session
  BY DEF SessionInv, RowsTyped
<1>1. ASSUME Logout(s) PROVE SessionInv' /\ RevocationStays
  <2> DEFINE d == [sessions[s] EXCEPT !.revoked = TRUE]
  <2>1. d \in Session /\ d.user = sessions[s].user /\ d.since = sessions[s].since /\ d.revoked
    BY <1>0 DEF Session
  <2>2. sessions' = [sessions EXCEPT ![s] = d]
    BY <1>1 DEF Logout
  <2>3. RequestsTyped' /\ RotationsKept /\ UNCHANGED << passwords, refreshTokens, drawn >>
    BY <1>1, RefreshesSame DEF Logout, SessionInv, RequestsTyped
  <2>4. \A r \in Refreshes : HoldsToken(r)' => refreshes[r].session # s
    BY <1>1, <2>3, Locked DEF Logout, RotationsKept
  <2> HIDE DEF d
  <2> QED
    BY <2>1, <2>2, <2>3, <2>4, OneSession
<1>2. ASSUME SessionExpires(s) PROVE SessionInv' /\ RevocationStays
  <2> DEFINE d == [sessions[s] EXCEPT !.expired = TRUE]
  <2>1. /\ d \in Session /\ d.user = sessions[s].user /\ d.since = sessions[s].since
        /\ d.revoked = sessions[s].revoked
    BY <1>0 DEF Session
  <2>2. sessions' = [sessions EXCEPT ![s] = d]
    BY <1>2 DEF SessionExpires
  <2>3. RequestsTyped' /\ RotationsKept /\ UNCHANGED << passwords, refreshTokens, drawn >>
    BY <1>2, RefreshesSame DEF SessionExpires, SessionInv, RequestsTyped
  <2> HIDE DEF d
  <2> QED
    BY <2>1, <2>2, <2>3, OneSession
<1> QED
  BY <1>1, <1>2

(***************************************************************************)
(* The commit of a rotation: the token it holds is the unused one of its   *)
(* session, so its successor is the only one.                              *)
(***************************************************************************)
LEMMA SucceedStep ==
  ASSUME SessionInv, NEW r \in Refreshes, HoldsToken(r), ~ refreshes[r].consumed,
         ~ refreshes[r].revoked,
         NEW n, n = drawn.token + 1,
         refreshTokens' = Insert([refreshTokens EXCEPT ![refreshes[r].token] =
                                    [@ EXCEPT !.consumed = TRUE, !.replacedBy = n]],
                                 n, NewToken(refreshes[r].session)),
         drawn' = [drawn EXCEPT !.token = n],
         UNCHANGED << passwords, sessions, logins, completions >>,
         refreshes' = [refreshes EXCEPT ![r] = Idle]
  PROVE  SessionInv' /\ RevocationStays
<1>0. RequestsTyped /\ RowsTyped /\ OpenInv /\ ChainInv /\ UnusedInv /\ RotationInv
  BY DEF SessionInv
<1> DEFINE t == refreshes[r].token
           s == refreshes[r].session
           d == [refreshTokens[t] EXCEPT !.consumed = TRUE, !.replacedBy = n]
           old == [refreshTokens EXCEPT ![t] = d]
<1>1. /\ t \in DOMAIN refreshTokens /\ s \in DOMAIN sessions /\ refreshTokens[t].session = s
      /\ ~ refreshTokens[t].consumed /\ ~ sessions[s].revoked
  BY <1>0 DEF RotationInv, Faithful
<1>2. drawn.token \in Nat /\ n \in Nat /\ n # 0 /\ n > drawn.token /\ drawn.session \in Nat
  BY <1>0 DEF RowsTyped
<1>3. drawn'.token = n /\ drawn'.session = drawn.session /\ drawn' \in [session : Nat, token : Nat]
  BY <1>0, <1>2 DEF RowsTyped
<1>4. refreshTokens[t] \in Token /\ s \in Nat
  BY <1>0, <1>1 DEF RowsTyped, Token
<1>5. d \in Token /\ d.session = s /\ d.consumed /\ d.replacedBy = n
  BY <1>1, <1>2, <1>4 DEF Token
<1>6. /\ NewToken(s) \in Token /\ NewToken(s).session = s
      /\ ~ NewToken(s).consumed /\ NewToken(s).replacedBy = 0
  BY <1>4 DEF NewToken, Token
<1>7. n \notin DOMAIN refreshTokens
  BY <1>0, <1>2 DEF RowsTyped
<1>8. /\ DOMAIN old = DOMAIN refreshTokens /\ old[t] = d
      /\ \A m \in DOMAIN refreshTokens : m # t => old[m] = refreshTokens[m]
  BY <1>1
<1>9. refreshTokens' = Insert(old, n, NewToken(s))
  OBVIOUS
<1> HIDE DEF old, d, s, t
<1>10. /\ DOMAIN refreshTokens' = DOMAIN refreshTokens \cup {n}
       /\ refreshTokens'[n] = NewToken(s) /\ refreshTokens'[t] = d
       /\ \A m \in DOMAIN refreshTokens : m # t => refreshTokens'[m] = refreshTokens[m]
  <2> DEFINE new == NewToken(s)
             all == Insert(old, n, new)
  <2>1. /\ DOMAIN all = DOMAIN old \cup {n} /\ all[n] = new
        /\ \A x \in DOMAIN old : x # n => all[x] = old[x]
    BY ONLY TRUE DEF Insert, all
  <2>2. refreshTokens' = all
    BY <1>9
  <2> HIDE DEF new, all
  <2>3. DOMAIN refreshTokens' = DOMAIN refreshTokens \cup {n} /\ refreshTokens'[n] = new
    BY ONLY <1>8, <2>1, <2>2
  <2>4. /\ refreshTokens'[t] = d
        /\ \A m \in DOMAIN refreshTokens : m # t => refreshTokens'[m] = refreshTokens[m]
    BY ONLY <1>1, <1>7, <1>8, <2>1, <2>2
  <2> QED
    BY <2>3, <2>4 DEF new
<1>11. RowsTyped'
  <2>1. \A m \in DOMAIN refreshTokens' :
          m \in Nat /\ m # 0 /\ m <= drawn'.token /\ refreshTokens'[m] \in Token
    <3>1. \A m \in DOMAIN refreshTokens :
            m \in Nat /\ m # 0 /\ m <= drawn.token /\ refreshTokens[m] \in Token
      BY <1>0 DEF RowsTyped
    <3>2. ASSUME NEW m \in DOMAIN refreshTokens'
          PROVE  m \in Nat /\ m # 0 /\ m <= drawn'.token /\ refreshTokens'[m] \in Token
      <4>1. CASE m = n
        BY ONLY <1>2, <1>3, <1>6, <1>10, <4>1
      <4>2. CASE m = t
        BY ONLY <1>1, <1>2, <1>3, <1>5, <1>10, <3>1, <4>2
      <4>3. CASE m # n /\ m # t
        BY ONLY <1>2, <1>3, <1>10, <3>1, <3>2, <4>3
      <4> QED
        BY <4>1, <4>2, <4>3
    <3> QED
      BY <3>2
  <2> QED
    BY <1>0, <1>3, <2>1 DEF RowsTyped
<1>12. OpenInv'
  BY <1>0 DEF OpenInv
<1>13. ASSUME NEW m \in DOMAIN refreshTokens
       PROVE  refreshTokens[m].replacedBy \in Nat /\ refreshTokens[m].replacedBy # n
  BY <1>0, <1>2 DEF RowsTyped, ChainInv, Token
<1>14. ChainInv'
  <2>1. ASSUME NEW m \in DOMAIN refreshTokens'
        PROVE  /\ refreshTokens'[m].session \in DOMAIN sessions'
               /\ refreshTokens'[m].replacedBy <= drawn'.token
               /\ ~ refreshTokens'[m].consumed => refreshTokens'[m].replacedBy = 0
               /\ refreshTokens'[m].consumed =>
                    /\ refreshTokens'[m].replacedBy \in DOMAIN refreshTokens'
                    /\ refreshTokens'[refreshTokens'[m].replacedBy].session = refreshTokens'[m].session
    <3>1. CASE m = n
      BY <1>1, <1>2, <1>3, <1>6, <1>10, <3>1 DEF s, t
    <3>2. CASE m = t
      BY <1>1, <1>2, <1>3, <1>5, <1>6, <1>10, <3>2
    <3>3. CASE m # n /\ m # t
      <4>1. m \in DOMAIN refreshTokens /\ refreshTokens'[m] = refreshTokens[m]
        BY <1>10, <3>3
      <4>2. \A x \in DOMAIN refreshTokens : refreshTokens'[x].session = refreshTokens[x].session
        BY <1>1, <1>5, <1>10
      <4>3. refreshTokens[m].replacedBy <= drawn'.token
        BY <1>0, <1>2, <1>3, <1>13, <4>1 DEF ChainInv
      <4>4. /\ refreshTokens[m].session \in DOMAIN sessions
            /\ ~ refreshTokens[m].consumed => refreshTokens[m].replacedBy = 0
            /\ refreshTokens[m].consumed =>
                 /\ refreshTokens[m].replacedBy \in DOMAIN refreshTokens
                 /\ refreshTokens[refreshTokens[m].replacedBy].session = refreshTokens[m].session
        BY <1>0, <4>1 DEF ChainInv
      <4>5. sessions' = sessions /\ DOMAIN refreshTokens' = DOMAIN refreshTokens \cup {n}
        BY <1>10
      <4> QED
        BY ONLY <4>1, <4>2, <4>3, <4>4, <4>5
    <3> QED
      BY <3>1, <3>2, <3>3
  <2>2. ASSUME NEW x \in DOMAIN refreshTokens', NEW m \in DOMAIN refreshTokens',
               refreshTokens'[x].consumed,
               refreshTokens'[m].replacedBy = refreshTokens'[x].replacedBy
        PROVE  m = x
    <3>1. x # n
      BY <1>6, <1>10, <2>2
    <3>2. refreshTokens'[x].replacedBy \in DOMAIN refreshTokens' /\ refreshTokens'[x].replacedBy # 0
      BY <1>2, <1>11, <2>1, <2>2 DEF RowsTyped
    <3>3. m # n
      <4>1. refreshTokens'[n].replacedBy = 0
        BY ONLY <1>6, <1>10
      <4> QED
        BY ONLY <2>2, <3>2, <4>1
    <3>4. CASE x = t
      BY <1>5, <1>10, <1>13, <2>2, <3>3, <3>4
    <3>5. CASE x # t /\ m = t
      BY <1>5, <1>10, <1>13, <2>2, <3>1, <3>5
    <3>6. CASE x # t /\ m # t
      <4>1. /\ x \in DOMAIN refreshTokens /\ refreshTokens'[x] = refreshTokens[x]
            /\ m \in DOMAIN refreshTokens /\ refreshTokens'[m] = refreshTokens[m]
        BY ONLY <1>10, <2>2, <3>1, <3>3, <3>6
      <4>2. refreshTokens[x].consumed /\ refreshTokens[m].replacedBy = refreshTokens[x].replacedBy
        BY ONLY <2>2, <4>1
      <4> QED
        BY <1>0, <4>1, <4>2 DEF ChainInv
    <3> QED
      BY <3>4, <3>5, <3>6
  <2> QED
    BY <2>1, <2>2 DEF ChainInv
<1>15. UnusedInv'
  <2>1. ASSUME NEW z \in DOMAIN sessions'
        PROVE  \E x \in DOMAIN refreshTokens' : Unused(x, z)'
    <3>1. CASE z = s
      <4>1. Unused(n, z)' /\ n \in DOMAIN refreshTokens'
        BY <1>6, <1>10, <3>1 DEF Unused
      <4> QED
        BY <4>1
    <3>2. CASE z # s
      <4>1. PICK x \in DOMAIN refreshTokens : Unused(x, z)
        BY <1>0 DEF UnusedInv
      <4>2. x # t
        BY <1>1, <3>2, <4>1 DEF Unused, s, t
      <4>3. Unused(x, z)' /\ x \in DOMAIN refreshTokens'
        BY <1>10, <4>1, <4>2 DEF Unused
      <4> QED
        BY <4>3
    <3> QED
      BY <3>1, <3>2
  <2>2. ASSUME NEW x \in DOMAIN refreshTokens', NEW m \in DOMAIN refreshTokens',
               NEW z \in DOMAIN sessions', Unused(x, z)', Unused(m, z)'
        PROVE  x = m
    <3>1. x # t /\ m # t
      BY <1>5, <1>10, <2>2 DEF Unused
    <3>2. ASSUME NEW y \in DOMAIN refreshTokens', y # n, y # t, Unused(y, z)'
          PROVE  y \in DOMAIN refreshTokens /\ Unused(y, z) /\ z # s
      <4>1. y \in DOMAIN refreshTokens /\ Unused(y, z)
        BY <1>10, <3>2 DEF Unused
      <4>2. z = s => y = t
        BY <1>0, <1>1, <4>1 DEF UnusedInv, Unused, s, t
      <4> QED
        BY <3>2, <4>1, <4>2
    <3>3. Unused(n, z)' => z = s
      BY <1>6, <1>10 DEF Unused
    <3> QED
      BY <1>0, <2>2, <3>1, <3>2, <3>3 DEF UnusedInv
  <2> QED
    BY ONLY <2>1, <2>2 DEF UnusedInv, Unused
<1>16. RotationsKept /\ RequestsTyped'
  BY <1>0, WithoutLock DEF RequestsTyped
<1>17. RotationInv'
  <2>1. \A q \in Refreshes : HoldsToken(q)' => q # r
    BY <1>0, IdleAt DEF HoldsToken, RequestsTyped
  <2>2. ASSUME NEW q \in Refreshes, HoldsToken(q)' PROVE Faithful(q)'
    <3>1. /\ HoldsToken(q) /\ q # r /\ refreshes'[q].token = refreshes[q].token
          /\ refreshes'[q].session = refreshes[q].session
          /\ refreshes'[q].consumed = refreshes[q].consumed
          /\ refreshes'[q].revoked = refreshes[q].revoked
      BY <1>16, <2>1, <2>2 DEF RotationsKept
    <3>2. Faithful(q) /\ refreshes[q].session # s
      BY <1>0, <3>1 DEF RotationInv, s
    <3>3. refreshes[q].token # t
      BY <1>1, <3>2 DEF Faithful, s, t
    <3> QED
      BY <1>10, <3>1, <3>2, <3>3 DEF Faithful
  <2>3. \A p, q \in Refreshes :
          HoldsToken(p)' /\ HoldsToken(q)' /\ refreshes'[p].session = refreshes'[q].session => p = q
    BY <1>0, <1>16 DEF RotationInv, RotationsKept
  <2> QED
    BY <2>2, <2>3 DEF RotationInv
<1>18. RevocationStays
  <2>1. ASSUME NEW z \in DOMAIN sessions, sessions[z].revoked,
               NEW m \in DOMAIN refreshTokens', refreshTokens'[m].session = z
        PROVE  m \in DOMAIN refreshTokens
    <3>1. refreshTokens'[n].session # z
      BY ONLY <1>1, <1>6, <1>10, <2>1
    <3> QED
      BY ONLY <1>10, <2>1, <3>1
  <2> QED
    BY <2>1 DEF RevocationStays
<1> QED
  BY <1>11, <1>12, <1>14, <1>15, <1>16, <1>17, <1>18 DEF SessionInv

LEMMA RotateStep ==
  ASSUME SessionInv, NEW r \in Refreshes, Rotate(r)
  PROVE  SessionInv' /\ RevocationStays
<1>0. RequestsTyped /\ RowsTyped /\ RotationInv
  BY DEF SessionInv
<1>1. HoldsToken(r) /\ refreshes[r] \in Rotation
  BY <1>0, RefreshShape DEF Rotate, HoldsToken
<1>2. /\ refreshes[r].consumed \in BOOLEAN /\ refreshes[r].live \in BOOLEAN
      /\ refreshes[r].revoked \in BOOLEAN
  BY <1>1 DEF Rotation
<1>3. RotationsKept /\ RequestsTyped'
  BY <1>0, WithoutLock DEF RequestsTyped, Rotate
<1>4. CASE refreshes[r].consumed
  <2> DEFINE s == refreshes[r].session
             d == [sessions[s] EXCEPT !.revoked = TRUE]
  <2>1. /\ sessions' = [sessions EXCEPT ![s] = d]
        /\ UNCHANGED << passwords, refreshTokens, drawn >>
        /\ refreshes' = [refreshes EXCEPT ![r] = Idle]
    BY <1>4 DEF Rotate
  <2>2. s \in DOMAIN sessions
    BY <1>0, <1>1 DEF RotationInv, Faithful
  <2>3. d \in Session /\ d.user = sessions[s].user /\ d.since = sessions[s].since /\ d.revoked
    BY <1>0, <2>2 DEF RowsTyped, Session
  <2>4. \A q \in Refreshes : HoldsToken(q)' => refreshes[q].session # s
    <3>1. ~ HoldsToken(r)'
      BY <1>0, <2>1, IdleAt DEF HoldsToken, RequestsTyped
    <3> QED
      BY <1>0, <1>1, <1>3, <3>1 DEF RotationInv, RotationsKept
  <2> HIDE DEF d, s
  <2> QED
    BY <1>3, <2>1, <2>2, <2>3, <2>4, OneSession
<1>5. CASE ~ refreshes[r].consumed /\ (~ refreshes[r].live \/ refreshes[r].revoked)
  <2>1. UNCHANGED << passwords, sessionRows >>
    BY <1>2, <1>5 DEF Rotate
  <2> QED
    BY <1>3, <2>1, SameSessions
<1>6. CASE ~ refreshes[r].consumed /\ refreshes[r].live /\ ~ refreshes[r].revoked
  <2> DEFINE n == drawn.token + 1
  <2>1. /\ refreshTokens' = Insert([refreshTokens EXCEPT ![refreshes[r].token] =
                                      [@ EXCEPT !.consumed = TRUE, !.replacedBy = n]],
                                   n, NewToken(refreshes[r].session))
        /\ drawn' = [drawn EXCEPT !.token = n]
        /\ UNCHANGED << passwords, sessions, logins, completions >>
        /\ refreshes' = [refreshes EXCEPT ![r] = Idle]
    BY <1>2, <1>6 DEF Rotate
  <2>2. n = drawn.token + 1
    OBVIOUS
  <2> HIDE DEF n
  <2> QED
    BY <1>1, <1>6, <2>1, <2>2, SucceedStep
<1> QED
  BY <1>2, <1>4, <1>5, <1>6
(* The sessions that expired go with all of their tokens. *)
LEMMA CleanupStep ==
  ASSUME SessionInv, CleanupExpired
  PROVE  SessionInv' /\ RevocationStays
<1>0. RequestsTyped /\ RowsTyped /\ OpenInv /\ ChainInv /\ UnusedInv /\ RotationInv
  BY DEF SessionInv
<1> DEFINE gone == {s \in DOMAIN sessions : sessions[s].expired}
           kept == DOMAIN sessions \ gone
           left == {m \in DOMAIN refreshTokens : refreshTokens[m].session \notin gone}
<1>1. /\ sessions' = [s \in kept |-> sessions[s]] /\ gone \cap LockedSessions = {}
      /\ refreshTokens' = [t \in left |-> refreshTokens[t]]
      /\ UNCHANGED << passwords, drawn, refreshes, logins, completions >>
  BY DEF CleanupExpired
<1>2. /\ \A s \in kept : s \in DOMAIN sessions /\ s \notin gone
      /\ \A s \in DOMAIN sessions : s \notin gone => s \in kept
      /\ \A t \in left : t \in DOMAIN refreshTokens /\ refreshTokens[t].session \notin gone
      /\ \A t \in DOMAIN refreshTokens : refreshTokens[t].session \notin gone => t \in left
  OBVIOUS
<1> HIDE DEF gone, kept, left
<1>3. /\ DOMAIN sessions' = kept /\ DOMAIN refreshTokens' = left
      /\ \A s \in kept : sessions'[s] = sessions[s]
      /\ \A t \in left : refreshTokens'[t] = refreshTokens[t]
  BY <1>1
<1>4. RequestsTyped' /\ RowsTyped' /\ OpenInv'
  BY <1>0, <1>1, <1>2, <1>3 DEF RequestsTyped, RowsTyped, OpenInv
<1>5. ASSUME NEW t \in left, refreshTokens[t].consumed
      PROVE  /\ refreshTokens[t].replacedBy \in left
             /\ refreshTokens[refreshTokens[t].replacedBy].session = refreshTokens[t].session
  BY <1>0, <1>2, <1>5 DEF ChainInv
<1>6. ChainInv'
  <2>1. ASSUME NEW m \in left
        PROVE  /\ refreshTokens[m].session \in kept
               /\ refreshTokens[m].replacedBy <= drawn.token
               /\ ~ refreshTokens[m].consumed => refreshTokens[m].replacedBy = 0
    BY <1>0, <1>2 DEF ChainInv
  <2>2. \A t, m \in left :
          refreshTokens[t].consumed /\ refreshTokens[m].replacedBy = refreshTokens[t].replacedBy => m = t
    BY <1>0, <1>2 DEF ChainInv
  <2> QED
    BY <1>1, <1>3, <1>5, <2>1, <2>2 DEF ChainInv
<1>7. UnusedInv'
  <2>1. ASSUME NEW z \in kept
        PROVE  \E x \in left : Unused(x, z)'
    <3>1. PICK x \in DOMAIN refreshTokens : Unused(x, z)
      BY <1>0, <1>2 DEF UnusedInv
    <3>2. x \in left /\ Unused(x, z)'
      BY <1>2, <1>3, <3>1 DEF Unused
    <3> QED
      BY <3>2
  <2>2. ASSUME NEW x \in left, NEW m \in left, NEW z \in kept, Unused(x, z)', Unused(m, z)'
        PROVE  x = m
    <3>1. Unused(x, z) /\ Unused(m, z)
      BY <1>3, <2>2 DEF Unused
    <3> QED
      BY <1>0, <1>2, <3>1 DEF UnusedInv
  <2> QED
    BY ONLY <1>3, <2>1, <2>2 DEF UnusedInv, Unused
<1>8. RotationInv'
  <2>1. ASSUME NEW r \in Refreshes, HoldsToken(r)'
        PROVE  Faithful(r)'
    <3>1. HoldsToken(r)
      BY <1>1, <2>1 DEF HoldsToken
    <3>2. Faithful(r) /\ refreshes[r].session \notin gone
      BY <1>0, <1>1, <3>1, Locked DEF RotationInv
    <3> QED
      BY <1>1, <1>2, <1>3, <3>2 DEF Faithful
  <2>2. \A p, q \in Refreshes :
          HoldsToken(p)' /\ HoldsToken(q)' /\ refreshes'[p].session = refreshes'[q].session => p = q
    BY <1>0, <1>1 DEF RotationInv, HoldsToken
  <2> QED
    BY <2>1, <2>2 DEF RotationInv
<1>9. RevocationStays
  BY <1>2, <1>3 DEF RevocationStays
<1> QED
  BY <1>4, <1>6, <1>7, <1>8, <1>9 DEF SessionInv

(* A login opens a session under the password the account has. *)
LEMMA CreateStep ==
  ASSUME SessionInv, NEW l \in Logins, createSession(l)
  PROVE  SessionInv' /\ RevocationStays
<1>0. RequestsTyped /\ RowsTyped /\ OpenInv /\ ChainInv /\ UnusedInv /\ RotationInv
  BY DEF SessionInv
<1>1. logins[l] \in Login
  BY <1>0, LoginShape DEF createSession
<1>2. PICK u \in Users : insertSessionAndToken(u)
  BY <1>1 DEF createSession, Login
<1> DEFINE s == drawn.session + 1
           t == drawn.token + 1
           new == [user |-> u, revoked |-> FALSE, expired |-> FALSE, since |-> passwords[u]]
           fresh == NewToken(s)
<1>3. /\ drawn' = [session |-> s, token |-> t]
      /\ sessions' = Insert(sessions, s, new) /\ refreshTokens' = Insert(refreshTokens, t, fresh)
  BY <1>2 DEF insertSessionAndToken
<1>4. /\ s \in Nat /\ s > drawn.session /\ t \in Nat /\ t > drawn.token /\ t # 0
      /\ drawn.session \in Nat /\ drawn.token \in Nat
  BY <1>0 DEF RowsTyped
<1>5. passwords[u] \in Nat
  BY <1>0 DEF RowsTyped
<1>6. /\ new \in Session /\ ~ new.revoked /\ new.user = u /\ new.since = passwords[u]
  BY <1>5 DEF Session
<1> HIDE DEF s, t, new
<1>7. fresh \in Token /\ fresh.session = s /\ ~ fresh.consumed /\ fresh.replacedBy = 0
  BY <1>4 DEF NewToken, Token
<1> HIDE DEF fresh
<1>8. /\ drawn'.session = s /\ drawn'.token = t /\ drawn' \in [session : Nat, token : Nat]
  BY <1>3, <1>4
<1>9. s \notin DOMAIN sessions /\ t \notin DOMAIN refreshTokens
  BY <1>0, <1>4 DEF RowsTyped
<1>10. /\ DOMAIN sessions' = DOMAIN sessions \cup {s} /\ sessions'[s] = new
       /\ \A x \in DOMAIN sessions : sessions'[x] = sessions[x]
  BY ONLY <1>3, <1>9 DEF Insert
<1>11. /\ DOMAIN refreshTokens' = DOMAIN refreshTokens \cup {t} /\ refreshTokens'[t] = fresh
       /\ \A x \in DOMAIN refreshTokens : refreshTokens'[x] = refreshTokens[x]
  BY ONLY <1>3, <1>9 DEF Insert
<1>12. \A m \in DOMAIN refreshTokens : /\ refreshTokens[m].session \in DOMAIN sessions
                                       /\ refreshTokens[m].session # s
  BY <1>0, <1>9 DEF ChainInv
<1>13. UNCHANGED << passwords, refreshes, completions >>
  BY DEF createSession
<1>14. RequestsTyped'
  BY <1>0, <1>13 DEF RequestsTyped, createSession
<1>15. RowsTyped'
  <2>1. ASSUME NEW x \in DOMAIN sessions'
        PROVE  x \in Nat /\ x <= drawn'.session /\ sessions'[x] \in Session
    <3>1. CASE x = s
      BY ONLY <1>4, <1>6, <1>8, <1>10, <3>1
    <3>2. CASE x # s
      <4>1. x \in DOMAIN sessions /\ sessions'[x] = sessions[x]
        BY ONLY <1>10, <2>1, <3>2
      <4>2. x \in Nat /\ x <= drawn.session /\ sessions[x] \in Session
        BY <1>0, <4>1 DEF RowsTyped
      <4> QED
        BY ONLY <1>4, <1>8, <4>1, <4>2
    <3> QED
      BY <3>1, <3>2
  <2>2. ASSUME NEW x \in DOMAIN refreshTokens'
        PROVE  x \in Nat /\ x # 0 /\ x <= drawn'.token /\ refreshTokens'[x] \in Token
    <3>1. CASE x = t
      BY ONLY <1>4, <1>7, <1>8, <1>11, <3>1
    <3>2. CASE x # t
      <4>1. x \in DOMAIN refreshTokens /\ refreshTokens'[x] = refreshTokens[x]
        BY ONLY <1>11, <2>2, <3>2
      <4>2. x \in Nat /\ x # 0 /\ x <= drawn.token /\ refreshTokens[x] \in Token
        BY <1>0, <4>1 DEF RowsTyped
      <4> QED
        BY ONLY <1>4, <1>8, <4>1, <4>2
    <3> QED
      BY <3>1, <3>2
  <2> QED
    BY <1>0, <1>8, <1>13, <2>1, <2>2 DEF RowsTyped
<1>16. OpenInv'
  BY <1>0, <1>6, <1>10, <1>13 DEF OpenInv
<1>17. ChainInv'
  <2>1. ASSUME NEW m \in DOMAIN refreshTokens'
        PROVE  /\ refreshTokens'[m].session \in DOMAIN sessions'
               /\ refreshTokens'[m].replacedBy <= drawn'.token
               /\ ~ refreshTokens'[m].consumed => refreshTokens'[m].replacedBy = 0
               /\ refreshTokens'[m].consumed =>
                    /\ refreshTokens'[m].replacedBy \in DOMAIN refreshTokens'
                    /\ refreshTokens'[refreshTokens'[m].replacedBy].session = refreshTokens'[m].session
    <3>1. CASE m = t
      BY ONLY <1>4, <1>7, <1>8, <1>10, <1>11, <3>1
    <3>2. CASE m # t
      <4>1. m \in DOMAIN refreshTokens /\ refreshTokens'[m] = refreshTokens[m]
        BY ONLY <1>11, <2>1, <3>2
      <4>2. /\ refreshTokens[m].session \in DOMAIN sessions
            /\ refreshTokens[m].replacedBy <= drawn.token /\ refreshTokens[m] \in Token
            /\ ~ refreshTokens[m].consumed => refreshTokens[m].replacedBy = 0
            /\ refreshTokens[m].consumed =>
                 /\ refreshTokens[m].replacedBy \in DOMAIN refreshTokens
                 /\ refreshTokens[refreshTokens[m].replacedBy].session = refreshTokens[m].session
        BY <1>0, <4>1 DEF ChainInv, RowsTyped
      <4>3. refreshTokens[m].replacedBy <= drawn'.token
        BY ONLY <1>4, <1>8, <4>2 DEF Token
      <4> QED
        BY ONLY <1>10, <1>11, <4>1, <4>2, <4>3
    <3> QED
      BY <3>1, <3>2
  <2>2. ASSUME NEW x \in DOMAIN refreshTokens', NEW m \in DOMAIN refreshTokens',
               refreshTokens'[x].consumed,
               refreshTokens'[m].replacedBy = refreshTokens'[x].replacedBy
        PROVE  m = x
    <3>1. x \in DOMAIN refreshTokens /\ refreshTokens'[x] = refreshTokens[x]
      BY ONLY <1>7, <1>11, <2>2
    <3>2. refreshTokens[x].replacedBy # 0
      BY <1>0, <2>2, <3>1 DEF ChainInv, RowsTyped
    <3>3. m \in DOMAIN refreshTokens /\ refreshTokens'[m] = refreshTokens[m]
      BY ONLY <1>7, <1>11, <2>2, <3>1, <3>2
    <3>4. refreshTokens[x].consumed /\ refreshTokens[m].replacedBy = refreshTokens[x].replacedBy
      BY ONLY <2>2, <3>1, <3>3
    <3> QED
      BY <1>0, <3>1, <3>3, <3>4 DEF ChainInv
  <2> QED
    BY <2>1, <2>2 DEF ChainInv
<1>18. UnusedInv'
  <2>1. ASSUME NEW z \in DOMAIN sessions'
        PROVE  \E x \in DOMAIN refreshTokens' : Unused(x, z)'
    <3>1. CASE z = s
      <4>1. /\ t \in DOMAIN refreshTokens'
            /\ refreshTokens'[t].session = z /\ ~ refreshTokens'[t].consumed
        BY ONLY <1>7, <1>11, <3>1
      <4> QED
        BY ONLY <4>1 DEF Unused
    <3>2. CASE z # s
      <4>1. PICK x \in DOMAIN refreshTokens : Unused(x, z)
        BY <1>0, <1>10, <3>2 DEF UnusedInv
      <4>2. Unused(x, z)' /\ x \in DOMAIN refreshTokens'
        BY ONLY <1>11, <4>1 DEF Unused
      <4> QED
        BY <4>2
    <3> QED
      BY <3>1, <3>2
  <2>2. ASSUME NEW x \in DOMAIN refreshTokens', NEW m \in DOMAIN refreshTokens',
               NEW z \in DOMAIN sessions', Unused(x, z)', Unused(m, z)'
        PROVE  x = m
    <3>1. CASE z = s
      BY ONLY <1>11, <1>12, <2>2, <3>1 DEF Unused
    <3>2. CASE z # s
      <4>1. /\ x \in DOMAIN refreshTokens /\ Unused(x, z)
            /\ m \in DOMAIN refreshTokens /\ Unused(m, z)
        BY ONLY <1>7, <1>11, <2>2, <3>2 DEF Unused
      <4>2. z \in DOMAIN sessions
        BY ONLY <1>10, <2>2, <3>2
      <4> QED
        BY <1>0, <4>1, <4>2 DEF UnusedInv
    <3> QED
      BY <3>1, <3>2
  <2> QED
    BY ONLY <2>1, <2>2 DEF UnusedInv, Unused
<1>19. RotationInv'
  <2>1. ASSUME NEW r \in Refreshes, HoldsToken(r)'
        PROVE  Faithful(r)'
    <3>1. HoldsToken(r)
      BY <1>13, <2>1 DEF HoldsToken
    <3>2. Faithful(r)
      BY <1>0, <3>1 DEF RotationInv
    <3> QED
      BY ONLY <1>10, <1>11, <1>13, <3>2 DEF Faithful
  <2>2. \A p, q \in Refreshes :
          HoldsToken(p)' /\ HoldsToken(q)' /\ refreshes'[p].session = refreshes'[q].session => p = q
    BY <1>0, <1>13 DEF RotationInv, HoldsToken
  <2> QED
    BY <2>1, <2>2 DEF RotationInv
<1>20. RevocationStays
  <2>1. ASSUME NEW z \in DOMAIN sessions, NEW m \in DOMAIN refreshTokens', refreshTokens'[m].session = z
        PROVE  m \in DOMAIN refreshTokens
    BY ONLY <1>7, <1>9, <1>11, <2>1
  <2> QED
    BY <1>10, <2>1 DEF RevocationStays
<1> QED
  BY <1>14, <1>15, <1>16, <1>17, <1>18, <1>19, <1>20 DEF SessionInv

(***************************************************************************)
(* A reset closes the open sessions of its account; it waited for the      *)
(* rotations that hold one of them.                                        *)
(***************************************************************************)
LEMMA CompleteStep ==
  ASSUME SessionInv, NEW c \in Resets, CompletePasswordReset(c)
  PROVE  SessionInv' /\ RevocationStays
<1>0. RequestsTyped /\ RowsTyped /\ OpenInv /\ RotationInv
  BY DEF SessionInv
<1> DEFINE u == completions[c].user
           open == {s \in DOMAIN sessions : sessions[s].user = u /\ ~ sessions[s].revoked}
<1>1. u \in Users
  BY <1>0, ResetShape DEF CompletePasswordReset, Reset
<1>2. /\ open \cap LockedSessions = {}
      /\ passwords' = [passwords EXCEPT ![u] = @ + 1]
      /\ sessions' = [s \in DOMAIN sessions |->
                        IF s \in open THEN [sessions[s] EXCEPT !.revoked = TRUE] ELSE sessions[s]]
  BY DEF CompletePasswordReset
<1>3. UNCHANGED << refreshTokens, drawn, refreshes, logins >>
  BY DEF CompletePasswordReset
<1>4. completions' = [completions EXCEPT ![c] = Idle]
  BY DEF CompletePasswordReset
<1>5. RequestsTyped' /\ RotationsKept
  BY <1>0, <1>3, <1>4, RefreshesSame DEF RequestsTyped
<1>6. \A s \in DOMAIN sessions : s \in open <=> sessions[s].user = u /\ ~ sessions[s].revoked
  OBVIOUS
<1> HIDE DEF open, u
<1>7. \A s \in DOMAIN sessions : sessions[s] \in Session
  BY <1>0 DEF RowsTyped
<1>8. DOMAIN sessions' = DOMAIN sessions
  BY <1>2
<1>9. ASSUME NEW s \in DOMAIN sessions
      PROVE  /\ sessions'[s] \in Session /\ sessions'[s].user = sessions[s].user
             /\ sessions'[s].since = sessions[s].since
             /\ s \in open => sessions'[s].revoked
             /\ s \notin open => sessions'[s] = sessions[s]
  <2>1. sessions[s] \in Session
    BY <1>7
  <2>2. CASE s \in open
    BY ONLY <1>2, <2>1, <2>2, <1>9 DEF Session
  <2>3. CASE s \notin open
    BY ONLY <1>2, <2>1, <2>3, <1>9
  <2> QED
    BY <2>2, <2>3
<1>10. passwords' \in [Users -> Nat] /\ \A x \in Users : x # u => passwords'[x] = passwords[x]
  BY <1>0, <1>1, <1>2 DEF RowsTyped
<1>11. OpenInv'
  <2>1. ASSUME NEW s \in DOMAIN sessions, ~ sessions'[s].revoked
        PROVE  sessions'[s].since = passwords'[sessions'[s].user]
    <3>1. s \notin open /\ sessions'[s] = sessions[s]
      BY <1>9, <2>1
    <3>2. ~ sessions[s].revoked /\ sessions[s].user # u /\ sessions[s].user \in Users
      BY <1>6, <1>7, <2>1, <3>1 DEF Session
    <3>3. sessions[s].since = passwords[sessions[s].user]
      BY <1>0, <3>2 DEF OpenInv
    <3> QED
      BY ONLY <1>10, <3>1, <3>2, <3>3
  <2> QED
    BY <1>8, <2>1 DEF OpenInv
<1>12. ASSUME NEW r \in Refreshes, HoldsToken(r)'
       PROVE  sessions'[refreshes[r].session].revoked = sessions[refreshes[r].session].revoked
  <2>1. HoldsToken(r)
    BY <1>5, <1>12 DEF RotationsKept
  <2>2. refreshes[r].session \in DOMAIN sessions /\ refreshes[r].session \notin open
    BY <1>0, <1>2, <2>1, Locked DEF RotationInv, Faithful
  <2> QED
    BY <1>9, <2>2
<1>13. SessionInv'
  BY <1>3, <1>5, <1>8, <1>9, <1>10, <1>11, <1>12, StepSessions
<1>14. RevocationStays
  BY <1>3, <1>6, <1>8, <1>9 DEF RevocationStays
<1> QED
  BY <1>13, <1>14
-----------------------------------------------------------------------------
(* Codes and grants *)

LEMMA RowPresent ==
  ASSUME NEW x \in Row
  PROVE  x # Absent
  BY DEF Row, Absent

LEMMA NoneLocked ==
  ASSUME Completing = {}, NEW c \in Resets
  PROVE  completions[c].at # "locked"
  BY DEF Completing

(* A completion moves; one that takes its locks finds its grant usable. *)
LEMMA CompletionMoves ==
  ASSUME SessionInv, ResetInv, NEW c \in Resets, NEW d \in {Idle} \cup Reset,
         completions' = [completions EXCEPT ![c] = d],
         UNCHANGED << passwords, sessionRows, refreshes, logins, resetRows >>,
         d # Idle => d.grant # 0 /\ d.grant <= grants,
         d.at = "locked" =>
           Completing = {} /\ challenge # Absent /\ challenge.grant = d.grant /\ ~ challenge.consumed
  PROVE  SessionInv' /\ RevocationStays /\ ResetInv'
<1>1. completions \in [Resets -> {Idle} \cup Reset]
  BY DEF SessionInv, RequestsTyped
<1>2. completions'[c] = d /\ \A x \in Resets : x # c => completions'[x] = completions[x]
  BY <1>1
<1>3. SessionInv' /\ RevocationStays
  <2>1. RotationsKept
    BY RefreshesSame
  <2>2. RequestsTyped'
    BY DEF SessionInv, RequestsTyped
  <2> QED
    BY <2>1, <2>2, SameSessions
<1>4. UNCHANGED << challenge, grants, uses >>
  BY DEF resetRows
<1>5. GrantInv'
  <2>1. \A x \in Resets : completions'[x] # Idle =>
          completions'[x].grant # 0 /\ completions'[x].grant <= grants
    BY <1>2 DEF ResetInv, GrantInv
  <2>2. ASSUME NEW x \in Resets, NEW y \in Resets,
               completions'[x].at = "locked", completions'[y].at = "locked"
        PROVE  x = y
    <3>1. CASE d.at = "locked"
      BY <1>2, <2>2, <3>1, NoneLocked
    <3>2. CASE d.at # "locked"
      BY <1>2, <2>2, <3>2 DEF ResetInv, GrantInv
    <3> QED
      BY <3>1, <3>2
  <2>3. /\ grants \in Nat /\ grants <= MaximumGrants /\ uses \in [1..MaximumGrants -> Nat]
        /\ \A g \in 1..MaximumGrants : uses[g] <= 1 /\ (g > grants => uses[g] = 0)
    BY DEF ResetInv, GrantInv
  <2> QED
    BY ONLY <1>4, <2>1, <2>2, <2>3 DEF GrantInv
<1>6. ChallengeInv'
  <2>1. \A x \in Resets : completions'[x].at = "locked" =>
          challenge # Absent /\ challenge.grant = completions'[x].grant /\ ~ challenge.consumed
    BY <1>2 DEF ResetInv, ChallengeInv
  <2>2. challenge # Absent =>
          /\ challenge \in Row
          /\ challenge.compared = challenge.attempts /\ challenge.attempts <= CodeAttempts
          /\ challenge.grant <= grants
          /\ ~ challenge.consumed /\ challenge.grant # 0 => uses[challenge.grant] = 0
    BY DEF ResetInv, ChallengeInv
  <2> QED
    BY ONLY <1>4, <2>1, <2>2 DEF ChallengeInv
<1> QED
  BY <1>3, <1>5, <1>6 DEF ResetInv

LEMMA CompletionSteps ==
  ASSUME SessionInv, ResetInv, NEW c \in Resets
  PROVE  /\ \A g \in 1..grants, u \in Users :
              CompleteHash(c, g, u) => SessionInv' /\ RevocationStays /\ ResetInv'
         /\ CompleteBegin(c) \/ CompleteLock(c) \/ CompleteAbort(c) =>
              SessionInv' /\ RevocationStays /\ ResetInv'
<1>0. RequestsTyped /\ GrantInv
  BY DEF SessionInv, ResetInv
<1>1. ASSUME NEW g \in 1..grants, NEW u \in Users, CompleteHash(c, g, u)
      PROVE  SessionInv' /\ RevocationStays /\ ResetInv'
  <2> DEFINE d == [at |-> "hashing", grant |-> g, user |-> u]
  <2>1. g \in Nat /\ g # 0 /\ g <= grants
    BY <1>0 DEF GrantInv
  <2>2. d \in Reset /\ d.at # "locked" /\ d.grant = g
    BY <2>1 DEF Reset
  <2>3. completions' = [completions EXCEPT ![c] = d]
    BY <1>1 DEF CompleteHash
  <2> HIDE DEF d
  <2> QED
    BY <1>1, <2>1, <2>2, <2>3, CompletionMoves DEF CompleteHash
<1>2. ASSUME CompleteBegin(c) PROVE SessionInv' /\ RevocationStays /\ ResetInv'
  <2> DEFINE d == [completions[c] EXCEPT !.at = "hashed"]
  <2>1. completions[c] \in Reset /\ completions[c] # Idle
    BY <1>0, <1>2, ResetShape, IdleAt DEF CompleteBegin
  <2>2. d \in Reset /\ d.at # "locked" /\ d.grant = completions[c].grant
    BY <2>1 DEF Reset
  <2>3. d.grant # 0 /\ d.grant <= grants
    BY <1>0, <2>1, <2>2 DEF GrantInv
  <2>4. completions' = [completions EXCEPT ![c] = d]
    BY <1>2 DEF CompleteBegin
  <2> HIDE DEF d
  <2> QED
    BY <1>2, <2>2, <2>3, <2>4, CompletionMoves DEF CompleteBegin
<1>3. ASSUME CompleteLock(c) PROVE SessionInv' /\ RevocationStays /\ ResetInv'
  <2> DEFINE usable == /\ challenge # Absent /\ challenge.grant = completions[c].grant
                       /\ ~ challenge.grantExpired /\ ~ challenge.consumed
  <2>1. completions[c] \in Reset /\ completions[c] # Idle
    BY <1>0, <1>3, ResetShape, IdleAt DEF CompleteLock
  <2>2. CASE usable
    <3> DEFINE d == [completions[c] EXCEPT !.at = "locked"]
    <3>1. d \in Reset /\ d.grant = completions[c].grant
      BY <2>1 DEF Reset
    <3>2. d.grant # 0 /\ d.grant <= grants
      BY <1>0, <2>1, <3>1 DEF GrantInv
    <3>3. completions' = [completions EXCEPT ![c] = d] /\ Completing = {}
      BY <1>3, <2>2 DEF CompleteLock
    <3> HIDE DEF d
    <3> QED
      BY <1>3, <2>2, <3>1, <3>2, <3>3, CompletionMoves DEF CompleteLock
  <2>3. CASE ~ usable
    <3>1. completions' = [completions EXCEPT ![c] = Idle]
      BY <1>3, <2>3 DEF CompleteLock
    <3> QED
      BY <1>3, <3>1, IdleAt, CompletionMoves DEF CompleteLock
  <2> QED
    BY <2>2, <2>3
<1>4. ASSUME CompleteAbort(c) PROVE SessionInv' /\ RevocationStays /\ ResetInv'
  BY <1>4, IdleAt, CompletionMoves DEF CompleteAbort
<1> QED
  BY <1>1, <1>2, <1>3, <1>4

(* The transaction that holds the challenge uses the grant, once. *)
LEMMA UseStep ==
  ASSUME SessionInv, ResetInv, NEW c \in Resets, CompletePasswordReset(c)
  PROVE  ResetInv'
<1>0. RequestsTyped /\ GrantInv /\ ChallengeInv
  BY DEF SessionInv, ResetInv
<1> DEFINE g == completions[c].grant
<1>1. completions[c] \in Reset /\ completions[c] # Idle /\ completions[c].at = "locked"
  BY <1>0, ResetShape, IdleAt DEF CompletePasswordReset
<1>2. g \in Nat /\ g # 0 /\ g <= grants /\ grants \in Nat /\ grants <= MaximumGrants
  BY <1>0, <1>1 DEF GrantInv, Reset
<1>3. g \in 1..MaximumGrants
  BY <1>2, SessionAssumption
<1>4. challenge # Absent /\ challenge.grant = g /\ ~ challenge.consumed
  BY <1>0, <1>1 DEF ChallengeInv
<1>5. challenge \in Row /\ uses[g] = 0
  BY <1>0, <1>2, <1>4 DEF ChallengeInv
<1>6. /\ uses' = [uses EXCEPT ![g] = @ + 1]
      /\ challenge' = [challenge EXCEPT !.consumed = TRUE]
      /\ completions' = [completions EXCEPT ![c] = Idle] /\ UNCHANGED grants
  BY DEF CompletePasswordReset
<1>7. completions \in [Resets -> {Idle} \cup Reset] /\ uses \in [1..MaximumGrants -> Nat]
  BY <1>0 DEF RequestsTyped, GrantInv
<1> HIDE DEF g
<1>8. /\ uses' \in [1..MaximumGrants -> Nat] /\ uses'[g] = 1
      /\ \A x \in 1..MaximumGrants : x # g => uses'[x] = uses[x]
  BY ONLY <1>3, <1>5, <1>6, <1>7
<1>9. completions'[c] = Idle /\ \A x \in Resets : x # c => completions'[x] = completions[x]
  BY <1>6, <1>7
<1>10. \A x \in Resets : completions'[x].at # "locked"
  BY <1>0, <1>1, <1>9, IdleAt DEF GrantInv
<1>11. GrantInv'
  <2>1. \A x \in Resets : completions'[x] # Idle =>
          completions'[x].grant # 0 /\ completions'[x].grant <= grants'
    BY <1>0, <1>6, <1>9 DEF GrantInv
  <2>2. \A x \in 1..MaximumGrants : uses'[x] <= 1 /\ (x > grants' => uses'[x] = 0)
    BY <1>0, <1>2, <1>6, <1>8 DEF GrantInv
  <2> QED
    BY ONLY <1>2, <1>6, <1>8, <1>10, <2>1, <2>2 DEF GrantInv
<1>12. ChallengeInv'
  <2>1. /\ challenge' \in Row /\ challenge'.consumed /\ challenge'.grant = challenge.grant
        /\ challenge'.compared = challenge.compared /\ challenge'.attempts = challenge.attempts
    BY ONLY <1>5, <1>6 DEF Row
  <2>2. /\ challenge.compared = challenge.attempts /\ challenge.attempts <= CodeAttempts
        /\ challenge.grant <= grants
    BY <1>0, <1>4 DEF ChallengeInv
  <2> QED
    BY ONLY <1>6, <1>10, <2>1, <2>2 DEF ChallengeInv
<1> QED
  BY <1>11, <1>12 DEF ResetInv

(* A new code, a comparison, time and the cleaner. *)
LEMMA ChallengeSteps ==
  ASSUME SessionInv, ResetInv
  PROVE  /\ RequestPasswordReset => SessionInv' /\ RevocationStays /\ ResetInv'
         /\ \A right \in BOOLEAN :
              VerifyPasswordReset(right) => SessionInv' /\ RevocationStays /\ ResetInv'
         /\ ChallengeAges => SessionInv' /\ RevocationStays /\ ResetInv'
         /\ CleanupPasswordResetChallenges => SessionInv' /\ RevocationStays /\ ResetInv'
<1>0. GrantInv /\ ChallengeInv
  BY DEF ResetInv
<1>1. ASSUME UNCHANGED << passwords, sessionRows, refreshes, logins, completions >>
      PROVE  SessionInv' /\ RevocationStays
  <2>1. RequestsTyped' /\ RotationsKept
    BY <1>1, RefreshesSame DEF SessionInv, RequestsTyped
  <2> QED
    BY <1>1, <2>1, SameSessions
<1>2. ASSUME RequestPasswordReset PROVE SessionInv' /\ RevocationStays /\ ResetInv'
  <2>1. UNCHANGED << passwords, sessionRows, refreshes, logins, completions, grants, uses >>
    BY <1>2 DEF RequestPasswordReset
  <2>2. \A c \in Resets : completions'[c].at # "locked"
    BY <1>2, <2>1, NoneLocked DEF RequestPasswordReset
  <2>3. /\ challenge' \in Row /\ challenge'.compared = 0 /\ challenge'.attempts = 0
        /\ challenge'.grant = 0
    BY <1>2 DEF RequestPasswordReset, Row
  <2>4. ChallengeInv'
    BY <1>0, <2>1, <2>2, <2>3, SessionAssumption DEF ChallengeInv, GrantInv
  <2>5. GrantInv'
    BY <1>0, <2>1 DEF GrantInv
  <2> QED
    BY <1>1, <2>1, <2>4, <2>5 DEF ResetInv
<1>3. ASSUME NEW right \in BOOLEAN, VerifyPasswordReset(right)
      PROVE  SessionInv' /\ RevocationStays /\ ResetInv'
  <2>1. UNCHANGED << passwords, sessionRows, refreshes, logins, completions, uses >>
    BY <1>3 DEF VerifyPasswordReset
  <2>2. \A c \in Resets : completions'[c].at # "locked"
    BY <1>3, <2>1, NoneLocked DEF VerifyPasswordReset
  <2>3. challenge # Absent /\ ~ challenge.consumed /\ challenge.attempts < CodeAttempts
    BY <1>3 DEF VerifyPasswordReset, Verifiable
  <2>4. /\ challenge \in Row /\ challenge.compared = challenge.attempts
        /\ challenge.grant <= grants /\ challenge.grant \in Nat
        /\ challenge.grant # 0 => uses[challenge.grant] = 0
    BY <1>0, <2>3 DEF ChallengeInv, Row
  <2> DEFINE n == challenge.attempts + 1
             m == challenge.compared + 1
  <2>5. n \in Nat /\ m \in Nat /\ m = n /\ n <= CodeAttempts
    BY <2>3, <2>4, SessionAssumption DEF Row
  <2>6. grants \in Nat /\ grants <= MaximumGrants
    BY <1>0 DEF GrantInv
  <2>7. CASE right
    <3>1. grants' = grants + 1 /\ grants < MaximumGrants
      BY <1>3, <2>7 DEF VerifyPasswordReset
    <3>2. grants' \in Nat /\ grants' # 0 /\ grants' <= MaximumGrants
      BY <2>6, <3>1, SessionAssumption
    <3>3. challenge' = [challenge EXCEPT !.attempts = n, !.compared = m, !.grant = grants',
                                         !.grantExpired = FALSE]
      BY <1>3, <2>7 DEF VerifyPasswordReset
    <3> HIDE DEF n, m
    <3>4. /\ challenge' \in Row /\ challenge'.attempts = n /\ challenge'.compared = m
          /\ challenge'.grant = grants'
      BY ONLY <2>4, <2>5, <3>2, <3>3 DEF Row
    <3>5. uses[grants'] = 0
      BY <1>0, <2>6, <3>1, <3>2 DEF GrantInv
    <3>6. ChallengeInv'
      BY ONLY <2>1, <2>2, <2>5, <3>2, <3>4, <3>5 DEF ChallengeInv
    <3>7. GrantInv'
      <4>1. ASSUME NEW x \in 1..MaximumGrants
            PROVE  uses[x] <= 1 /\ (x > grants' => uses[x] = 0)
        BY <1>0, <2>6, <3>1 DEF GrantInv
      <4>2. ASSUME NEW c \in Resets, completions[c] # Idle
            PROVE  completions[c].grant # 0 /\ completions[c].grant <= grants'
        <5>1. completions[c] \in Reset
          BY <4>2 DEF SessionInv, RequestsTyped
        <5> QED
          BY <1>0, <2>6, <3>1, <4>2, <5>1 DEF GrantInv, Reset
      <4>3. uses \in [1..MaximumGrants -> Nat]
        BY <1>0 DEF GrantInv
      <4> QED
        BY ONLY <2>1, <2>2, <3>2, <4>1, <4>2, <4>3 DEF GrantInv
    <3> QED
      BY <1>1, <2>1, <3>6, <3>7 DEF ResetInv
  <2>8. CASE ~ right
    <3>1. /\ challenge' = [challenge EXCEPT !.attempts = n, !.compared = m] /\ UNCHANGED grants
      BY <1>3, <2>8 DEF VerifyPasswordReset
    <3> HIDE DEF n, m
    <3>2. /\ challenge' \in Row /\ challenge'.attempts = n /\ challenge'.compared = m
          /\ challenge'.grant = challenge.grant
      BY ONLY <2>4, <2>5, <3>1 DEF Row
    <3>3. ChallengeInv'
      BY ONLY <2>1, <2>2, <2>4, <2>5, <3>1, <3>2 DEF ChallengeInv
    <3>4. GrantInv'
      BY <1>0, <2>1, <3>1 DEF GrantInv
    <3> QED
      BY <1>1, <2>1, <3>3, <3>4 DEF ResetInv
  <2> QED
    BY <2>7, <2>8
<1>4. ASSUME ChallengeAges PROVE SessionInv' /\ RevocationStays /\ ResetInv'
  <2>1. UNCHANGED << passwords, sessionRows, refreshes, logins, completions, grants, uses >>
    BY <1>4 DEF ChallengeAges
  <2>2. challenge # Absent /\ challenge \in Row
    BY <1>0, <1>4 DEF ChallengeAges, ChallengeInv
  <2>3. /\ challenge' \in Row /\ challenge'.attempts = challenge.attempts
        /\ challenge'.compared = challenge.compared /\ challenge'.grant = challenge.grant
        /\ challenge'.consumed = challenge.consumed
    BY <1>4, <2>2 DEF ChallengeAges, Row
  <2>4. challenge' # Absent
    BY <2>3, RowPresent
  <2>5. ChallengeInv'
    BY <1>0, <2>1, <2>2, <2>3, <2>4 DEF ChallengeInv
  <2>6. GrantInv'
    BY <1>0, <2>1 DEF GrantInv
  <2> QED
    BY <1>1, <2>1, <2>5, <2>6 DEF ResetInv
<1>5. ASSUME CleanupPasswordResetChallenges PROVE SessionInv' /\ RevocationStays /\ ResetInv'
  <2>1. UNCHANGED << passwords, sessionRows, refreshes, logins, completions, grants, uses >>
    BY <1>5 DEF CleanupPasswordResetChallenges
  <2>2. challenge' = Absent /\ \A c \in Resets : completions'[c].at # "locked"
    BY <1>5, <2>1, NoneLocked DEF CleanupPasswordResetChallenges
  <2>3. ChallengeInv'
    BY <2>2 DEF ChallengeInv
  <2>4. GrantInv'
    BY <1>0, <2>1 DEF GrantInv
  <2> QED
    BY <1>1, <2>1, <2>3, <2>4 DEF ResetInv
<1> QED
  BY <1>2, <1>3, <1>4, <1>5

(* The other requests touch neither codes nor completions. *)
LEMMA ResetsSame ==
  ASSUME ResetInv, UNCHANGED << completions, resetRows >>
  PROVE  ResetInv'
<1>1. UNCHANGED << completions, challenge, grants, uses >>
  BY DEF resetRows
<1>2. GrantInv'
  BY <1>1 DEF ResetInv, GrantInv
<1>3. ChallengeInv'
  BY <1>1 DEF ResetInv, ChallengeInv
<1> QED
  BY <1>2, <1>3 DEF ResetInv

-----------------------------------------------------------------------------
(* The module's steps, and what they keep *)

LEMMA Initially ==
  ASSUME SessionInit
  PROVE  SessionInv /\ ResetInv
<1>1. RequestsTyped
  BY DEF SessionInit, RequestsTyped
<1>2. DOMAIN sessions = {} /\ DOMAIN refreshTokens = {}
  BY DEF SessionInit
<1>3. RowsTyped
  BY <1>2 DEF SessionInit, RowsTyped
<1>4. OpenInv /\ ChainInv /\ UnusedInv
  BY <1>2 DEF OpenInv, ChainInv, UnusedInv
<1>5. RotationInv
  BY IdleAt DEF SessionInit, RotationInv, HoldsToken
<1>6. GrantInv
  BY IdleAt, SessionAssumption DEF SessionInit, GrantInv
<1>7. ChallengeInv
  BY IdleAt DEF SessionInit, ChallengeInv
<1> QED
  BY <1>1, <1>3, <1>4, <1>5, <1>6, <1>7 DEF SessionInv, ResetInv

LEMMA Step ==
  ASSUME SessionInv, ResetInv, SessionNext
  PROVE  SessionInv' /\ ResetInv' /\ RevocationStays
<1>1. ASSUME NEW r \in Refreshes, RefreshStep(r) \/ \E t \in DOMAIN refreshTokens : Refresh(r, t)
      PROVE  SessionInv' /\ ResetInv' /\ RevocationStays
  <2>1. UNCHANGED << completions, resetRows >>
    BY <1>1 DEF RefreshStep, Refresh, RotateLockSession, RotateLockUser, Rotate, RotateAbort
  <2>2. SessionInv' /\ RevocationStays
    BY <1>1, RequestSteps, LockStep, RotateStep DEF RefreshStep
  <2> QED
    BY <2>1, <2>2, ResetsSame
<1>2. ASSUME NEW s \in DOMAIN sessions, Logout(s) \/ SessionExpires(s)
      PROVE  SessionInv' /\ ResetInv' /\ RevocationStays
  <2>1. UNCHANGED << completions, resetRows >>
    BY <1>2 DEF Logout, SessionExpires
  <2> QED
    BY <1>2, <2>1, LogoutStep, ResetsSame
<1>3. ASSUME CleanupExpired
      PROVE  SessionInv' /\ ResetInv' /\ RevocationStays
  <2>1. UNCHANGED << completions, resetRows >>
    BY <1>3 DEF CleanupExpired
  <2> QED
    BY <1>3, <2>1, CleanupStep, ResetsSame
<1>4. ASSUME NEW l \in Logins,
             LoginStep(l) \/ \E p \in 0..MaximumGrants : FindByEmailRoles(l, p)
      PROVE  SessionInv' /\ ResetInv' /\ RevocationStays
  <2>1. UNCHANGED << completions, resetRows >>
    BY <1>4
       DEF LoginStep, FindByEmailRoles, CompareAcquire, CompareRelease, createSession,
           LoginEnds
  <2>2. SessionInv' /\ RevocationStays
    BY <1>4, RequestSteps, CreateStep DEF LoginStep
  <2> QED
    BY <2>1, <2>2, ResetsSame
<1>5. ASSUME NEW c \in Resets,
             ResetStep(c) \/ \E g \in 1..grants, u \in Users : CompleteHash(c, g, u)
      PROVE  SessionInv' /\ ResetInv' /\ RevocationStays
  <2>1. CASE CompletePasswordReset(c)
    BY <2>1, CompleteStep, UseStep
  <2>2. CASE ~ CompletePasswordReset(c)
    BY <1>5, <2>2, CompletionSteps DEF ResetStep
  <2> QED
    BY <2>1, <2>2
<1>6. ASSUME \/ RequestPasswordReset \/ ChallengeAges \/ CleanupPasswordResetChallenges
             \/ \E right \in BOOLEAN : VerifyPasswordReset(right)
      PROVE  SessionInv' /\ ResetInv' /\ RevocationStays
  BY <1>6, ChallengeSteps
<1> QED
  BY <1>1, <1>2, <1>3, <1>4, <1>5, <1>6 DEF SessionNext

LEMMA Stutter ==
  ASSUME SessionInv, ResetInv, UNCHANGED sessionVars
  PROVE  SessionInv' /\ ResetInv' /\ RevocationStays
<1>1. UNCHANGED << passwords, sessionRows, refreshes, logins, completions, resetRows >>
  BY DEF sessionVars
<1>2. RequestsTyped' /\ RotationsKept
  BY <1>1, RefreshesSame DEF SessionInv, RequestsTyped
<1> QED
  BY <1>1, <1>2, SameSessions, ResetsSame

(***************************************************************************)
(* What the rows of sessions, tokens, codes and grants and the open        *)
(* transactions satisfy in every state: the inductive invariant.           *)
(***************************************************************************)
THEOREM SessionInvariant == SessionSpec => [](SessionInv /\ ResetInv)
<1>1. SessionInit => SessionInv /\ ResetInv
  BY Initially
<1>2. SessionInv /\ ResetInv /\ [SessionNext]_sessionVars => SessionInv' /\ ResetInv'
  BY Step, Stutter
<1> QED
  BY <1>1, <1>2, PTL DEF SessionSpec

LEMMA Safe ==
  ASSUME SessionInv, ResetInv
  PROVE  CredentialsSafe
<1>1. ASSUME NEW s \in DOMAIN sessions
      PROVE  Cardinality({t \in TokensOf(s) : ~ refreshTokens[t].consumed}) = 1
  <2>1. PICK t \in DOMAIN refreshTokens : Unused(t, s)
    BY DEF SessionInv, UnusedInv
  <2>2. \A m \in DOMAIN refreshTokens : Unused(m, s) => m = t
    BY <2>1 DEF SessionInv, UnusedInv
  <2>3. {m \in TokensOf(s) : ~ refreshTokens[m].consumed} = {t}
    BY <2>1, <2>2 DEF TokensOf, Unused
  <2> QED
    BY <2>3, FS_Singleton
<1>2. \A s \in DOMAIN sessions : sessions[s] \in Session
  BY DEF SessionInv, RowsTyped
<1>3. ASSUME NEW t \in DOMAIN refreshTokens, refreshTokens[t].consumed
      PROVE  /\ refreshTokens[t].replacedBy \in TokensOf(refreshTokens[t].session)
             /\ \A m \in DOMAIN refreshTokens :
                  refreshTokens[m].replacedBy = refreshTokens[t].replacedBy => m = t
  BY <1>3 DEF SessionInv, ChainInv, TokensOf
<1>4. TokensLinear
  BY <1>1, <1>2, <1>3 DEF TokensLinear
<1>5. ResetSafe
  BY DEF SessionInv, OpenInv, ResetInv, GrantInv, ChallengeInv, ResetSafe
<1> QED
  BY <1>4, <1>5 DEF CredentialsSafe

(***************************************************************************)
(* What opens an account stays in one hand: the refresh tokens of a        *)
(* session form one chain with one unused token at its end, a code is      *)
(* compared a bounded number of times, a grant changes a password once,    *)
(* and no session outlives the reset of its account's password, whichever  *)
(* refreshes, logins and resets overlap.                                   *)
(***************************************************************************)
THEOREM CredentialsHold == SessionSpec => []CredentialsSafe
  BY SessionInvariant, Safe, PTL

(***************************************************************************)
(* A revoked session is never opened again and gets no further token, also *)
(* when a rotation of it was under way as it was revoked.                  *)
(***************************************************************************)
THEOREM RevocationsFinal == SessionSpec => RevokedFinal
<1>1. SessionInv /\ ResetInv /\ [SessionNext]_sessionVars => [RevocationStays]_sessionVars
  BY Step
<1> QED
  BY <1>1, SessionInvariant, PTL DEF SessionSpec, RevokedFinal
=============================================================================
