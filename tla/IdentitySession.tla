--------------------------- MODULE IdentitySession ---------------------------
(***************************************************************************)
(* Identity: the sessions of the accounts of one address, the rotation of  *)
(* their refresh tokens, and the reset of a password by an e-mailed code.  *)
(*                                                                         *)
(* A transaction that locks rows takes them in several actions, so that    *)
(* two transactions can wait for each other; PostgreSQL then ends one, as  *)
(* a deadline or a crash does (Abort).  A rotation takes the rows of its   *)
(* token and its session in one action and the account's in another:       *)
(* nothing else locks a token, so the first two cannot be part of          *)
(* different waits.  A session is its own family: newSession draws both    *)
(* ids and a rotation keeps them.  Sessions, tokens, codes and grants are  *)
(* numbers in the order of their creation.                                 *)
(***************************************************************************)
EXTENDS Integers, FiniteSets

CONSTANTS Users,             \* the active accounts of the address, one per role
          Refreshes,         \* refresh requests under way
          Logins,            \* login requests under way
          Resets,            \* completions of a reset under way
          Slots,             \* concurrent password hashes
          CodeAttempts,      \* comparisons of one code: 5 in the code
          MaximumSessions, MaximumRefreshTokens, MaximumGrants   \* bounds

ASSUME SessionAssumption ==
  /\ IsFiniteSet(Users)
  /\ CodeAttempts \in Nat /\ MaximumGrants \in Nat

VARIABLES passwords,                \* password_hash of each account, as a version
          sessions, refreshTokens,  \* identity.sessions, identity.refresh_tokens
          drawn,                    \* the last id of a session and of a token
          refreshes, logins,        \* the requests under way
          challenge, completions,   \* the row of password_reset_challenges and the resets under way
          grants, uses              \* grants handed out and how often each changed a password

sessionRows == << sessions, refreshTokens, drawn >>
resetRows   == << challenge, grants, uses >>
sessionVars == << passwords, sessionRows, refreshes, logins, completions, resetRows >>

Absent  == << >>
Idle    == [at |-> "idle"]
Session == [user : Users, revoked : BOOLEAN, expired : BOOLEAN, since : Nat]

(* A row is inserted under a fresh id. *)
Insert(rows, id, row) == [x \in DOMAIN rows \cup {id} |-> IF x = id THEN row ELSE rows[x]]

NewToken(s) == [session |-> s, consumed |-> FALSE, replacedBy |-> 0]

SessionInit ==
  /\ passwords = [u \in Users |-> 0]
  /\ sessions = << >> /\ refreshTokens = << >> /\ drawn = [session |-> 0, token |-> 0]
  /\ refreshes = [r \in Refreshes |-> Idle]
  /\ logins = [l \in Logins |-> Idle]
  /\ challenge = Absent /\ completions = [c \in Resets |-> Idle]
  /\ grants = 0 /\ uses = [g \in 1..MaximumGrants |-> 0]

-----------------------------------------------------------------------------
(* The rows the open transactions hold FOR UPDATE. *)

HoldsToken(r)     == refreshes[r].at \in {"session", "user"}
LockedTokens      == {refreshes[r].token : r \in {q \in Refreshes : HoldsToken(q)}}
LockedSessions    == {refreshes[r].session : r \in {q \in Refreshes : HoldsToken(q)}}
RotatingUsers     == {refreshes[r].user : r \in {q \in Refreshes : refreshes[q].at = "user"}}
Completing        == {c \in Resets : completions[c].at = "locked"}
LockedUsers       == RotatingUsers \cup {completions[c].user : c \in Completing}

-----------------------------------------------------------------------------
(* Rotation of a refresh token. *)

(* Refresh: a client presents a token, perhaps once more; the request's    *)
(* clock is read before the transaction.                                   *)
Refresh(r, t) ==
  /\ refreshes[r] = Idle
  /\ refreshes' = [refreshes EXCEPT ![r] =
                     [at |-> "begun", token |-> t, live |-> ~ sessions[refreshTokens[t].session].expired]]
  /\ UNCHANGED << passwords, sessionRows, logins, completions, resetRows >>

(* Fault: the rows are read without FOR UPDATE. *)
RotateLockSessionUnlocked(r) ==
  /\ refreshes[r].at = "begun"
  /\ LET t == refreshes[r].token
     IN refreshes' = [refreshes EXCEPT ![r] =
          IF t \notin DOMAIN refreshTokens THEN Idle
          ELSE LET s == refreshTokens[t].session
               IN [at |-> "session", token |-> t, live |-> @.live, session |-> s, user |-> sessions[s].user,
                   consumed |-> refreshTokens[t].consumed, revoked |-> sessions[s].revoked]]
  /\ UNCHANGED << passwords, sessionRows, logins, completions, resetRows >>

(* SELECT ... FOR UPDATE OF t,s,u: the token and its session, whose latest *)
(* versions are read once their locks are held ...                         *)
RotateLockSession(r) ==
  /\ refreshes[r].at = "begun"
  /\ LET t == refreshes[r].token
     IN /\ t \in DOMAIN refreshTokens => t \notin LockedTokens /\ refreshTokens[t].session \notin LockedSessions
        /\ refreshes' = [refreshes EXCEPT ![r] =
             IF t \notin DOMAIN refreshTokens THEN Idle
             ELSE LET s == refreshTokens[t].session
                  IN [at |-> "session", token |-> t, live |-> @.live, session |-> s, user |-> sessions[s].user,
                      consumed |-> refreshTokens[t].consumed, revoked |-> sessions[s].revoked]]
  /\ UNCHANGED << passwords, sessionRows, logins, completions, resetRows >>

(* ... and the account's row. *)
RotateLockUser(r) ==
  /\ refreshes[r].at = "session" /\ refreshes[r].user \notin LockedUsers
  /\ refreshes' = [refreshes EXCEPT ![r].at = "user"]
  /\ UNCHANGED << passwords, sessionRows, logins, completions, resetRows >>

(* Fault: the session's revocation is not looked at. *)
RotateOfRevoked(r) ==
  /\ refreshes[r].at = "user"
  /\ LET q == refreshes[r]
         next == drawn.token + 1
     IN IF q.consumed THEN /\ sessions' = [sessions EXCEPT ![q.session].revoked = TRUE]
                           /\ UNCHANGED << refreshTokens, drawn >>
        ELSE IF ~ q.live THEN UNCHANGED sessionRows
        ELSE /\ next =< MaximumRefreshTokens
             /\ refreshTokens' = Insert([refreshTokens EXCEPT ![q.token] =
                                           [@ EXCEPT !.consumed = TRUE, !.replacedBy = next]],
                                        next, NewToken(q.session))
             /\ drawn' = [drawn EXCEPT !.token = next]
             /\ UNCHANGED sessions
  /\ refreshes' = [refreshes EXCEPT ![r] = Idle]
  /\ UNCHANGED << passwords, logins, completions, resetRows >>

(* Rotate decides on what it read under the locks and commits: a replayed  *)
(* token revokes the family, an expired or revoked session refuses it, and *)
(* else its successor takes its place.                                     *)
Rotate(r) ==
  /\ refreshes[r].at = "user"
  /\ LET q == refreshes[r]
         next == drawn.token + 1
     IN IF q.consumed THEN /\ sessions' = [sessions EXCEPT ![q.session].revoked = TRUE]
                           /\ UNCHANGED << refreshTokens, drawn >>
        ELSE IF ~ q.live \/ q.revoked THEN UNCHANGED sessionRows
        ELSE /\ next =< MaximumRefreshTokens
             /\ refreshTokens' = Insert([refreshTokens EXCEPT ![q.token] =
                                           [@ EXCEPT !.consumed = TRUE, !.replacedBy = next]],
                                        next, NewToken(q.session))
             /\ drawn' = [drawn EXCEPT !.token = next]
             /\ UNCHANGED sessions
  /\ refreshes' = [refreshes EXCEPT ![r] = Idle]
  /\ UNCHANGED << passwords, logins, completions, resetRows >>

(* The deadline, a lost connection, a failed prepare, or the victim of a   *)
(* deadlock: the transaction is rolled back.                               *)
RotateAbort(r) ==
  /\ refreshes[r] # Idle
  /\ refreshes' = [refreshes EXCEPT ![r] = Idle]
  /\ UNCHANGED << passwords, sessionRows, logins, completions, resetRows >>

(* Logout: one update, which waits for the session's lock. *)
Logout(s) ==
  /\ ~ sessions[s].revoked /\ s \notin LockedSessions
  /\ sessions' = [sessions EXCEPT ![s].revoked = TRUE]
  /\ UNCHANGED << passwords, refreshTokens, drawn, refreshes, logins, completions, resetRows >>

SessionExpires(s) ==
  /\ ~ sessions[s].expired
  /\ sessions' = [sessions EXCEPT ![s].expired = TRUE]
  /\ UNCHANGED << passwords, refreshTokens, drawn, refreshes, logins, completions, resetRows >>

(* CleanupExpired: the expired sessions go, and their tokens with them. *)
CleanupExpired ==
  LET gone == {s \in DOMAIN sessions : sessions[s].expired}
  IN /\ gone # {} /\ gone \cap LockedSessions = {}
     /\ sessions' = [s \in DOMAIN sessions \ gone |-> sessions[s]]
     /\ refreshTokens' = [t \in {m \in DOMAIN refreshTokens : refreshTokens[m].session \notin gone} |-> refreshTokens[t]]
     /\ UNCHANGED << passwords, drawn, refreshes, logins, completions, resetRows >>

-----------------------------------------------------------------------------
(* Login. *)

Hashing == {l \in Logins : logins[l].at = "hashing"} \cup {c \in Resets : completions[c].at = "hashing"}

(* Login reads the hash of every role of the address; the password given   *)
(* is one the accounts had.                                                *)
FindByEmailRoles(l, password) ==
  /\ logins[l] = Idle
  /\ logins' = [logins EXCEPT ![l] = [at |-> "found", left |-> Cardinality(Users),
                                      matches |-> {u \in Users : passwords[u] = password}]]
  /\ UNCHANGED << passwords, sessionRows, refreshes, completions, resetRows >>

(* Compare, once per role, each with a slot of its own. *)
CompareAcquire(l) ==
  /\ logins[l].at = "found" /\ logins[l].left > 0
  /\ Cardinality(Hashing) < Slots
  /\ logins' = [logins EXCEPT ![l].at = "hashing"]
  /\ UNCHANGED << passwords, sessionRows, refreshes, completions, resetRows >>

CompareRelease(l) ==
  /\ logins[l].at = "hashing"
  /\ logins' = [logins EXCEPT ![l].at = "found", ![l].left = @ - 1]
  /\ UNCHANGED << passwords, sessionRows, refreshes, completions, resetRows >>

(* Create: the session and its first token in one transaction. *)
insertSessionAndToken(u) ==
  LET s == drawn.session + 1
      t == drawn.token + 1
  IN /\ s =< MaximumSessions /\ t =< MaximumRefreshTokens
     /\ drawn' = [session |-> s, token |-> t]
     /\ sessions' = Insert(sessions, s, [user |-> u, revoked |-> FALSE, expired |-> FALSE,
                                         since |-> passwords[u]])
     /\ refreshTokens' = Insert(refreshTokens, t, NewToken(s))

(* createSession of the matching account, the selected one when there are  *)
(* several; the insert waits for the account's row lock of a rotation.     *)
createSession(l) ==
  /\ logins[l].at = "found" /\ logins[l].left = 0
  /\ \E u \in logins[l].matches \ RotatingUsers : insertSessionAndToken(u)
  /\ logins' = [logins EXCEPT ![l] = Idle]
  /\ UNCHANGED << passwords, refreshes, completions, resetRows >>

(* No match, several and none selected, or the request ends early. *)
LoginEnds(l) ==
  /\ logins[l] # Idle
  /\ logins' = [logins EXCEPT ![l] = Idle]
  /\ UNCHANGED << passwords, sessionRows, refreshes, completions, resetRows >>

-----------------------------------------------------------------------------
(* Reset of a password: the code, the grant, the new password. *)

(* RequestPasswordReset: a new code replaces the challenge, unless one was *)
(* sent within the last minute.                                            *)
RequestPasswordReset ==
  /\ Completing = {}
  /\ challenge # Absent => ~ challenge.recent
  /\ grants < MaximumGrants
  /\ challenge' = [attempts |-> 0, compared |-> 0, expired |-> FALSE, recent |-> TRUE,
                   grant |-> 0, grantExpired |-> FALSE, consumed |-> FALSE]
  /\ UNCHANGED << passwords, sessionRows, refreshes, logins, completions, grants, uses >>

(* The challenge takes a code. *)
Verifiable == challenge # Absent /\ ~ challenge.consumed /\ ~ challenge.expired /\ challenge.attempts < CodeAttempts

(* VerifyPasswordReset: the attempt is counted whether or not the code is  *)
(* right; a right one hands out a grant in place of an earlier one.        *)
VerifyPasswordReset(right) ==
  /\ Completing = {} /\ Verifiable
  /\ IF right
     THEN /\ grants < MaximumGrants
          /\ grants' = grants + 1
          /\ challenge' = [challenge EXCEPT !.attempts = @ + 1, !.compared = @ + 1, !.grant = grants', !.grantExpired = FALSE]
     ELSE /\ challenge' = [challenge EXCEPT !.attempts = @ + 1, !.compared = @ + 1]
          /\ UNCHANGED grants
  /\ UNCHANGED << passwords, sessionRows, refreshes, logins, completions, uses >>

(* Complete hashes the new password before its transaction. *)
CompleteHash(c, g, u) ==
  /\ completions[c] = Idle /\ Cardinality(Hashing) < Slots
  /\ completions' = [completions EXCEPT ![c] = [at |-> "hashing", grant |-> g, user |-> u]]
  /\ UNCHANGED << passwords, sessionRows, refreshes, logins, resetRows >>

CompleteBegin(c) ==
  /\ completions[c].at = "hashing"
  /\ completions' = [completions EXCEPT ![c].at = "hashed"]
  /\ UNCHANGED << passwords, sessionRows, refreshes, logins, resetRows >>

(* The grant's challenge and the account are locked, or there is none. *)
CompleteLock(c) ==
  /\ completions[c].at = "hashed" /\ Completing = {}
  /\ LET usable == /\ challenge # Absent /\ challenge.grant = completions[c].grant
                   /\ ~ challenge.grantExpired /\ ~ challenge.consumed
     IN /\ usable => completions[c].user \notin LockedUsers
        /\ completions' = [completions EXCEPT ![c] = IF usable THEN [@ EXCEPT !.at = "locked"] ELSE Idle]
  /\ UNCHANGED << passwords, sessionRows, refreshes, logins, resetRows >>

(* The sessions are revoked, the challenge is consumed, and the password   *)
(* changes with them.                                                      *)
CompletePasswordReset(c) ==
  /\ completions[c].at = "locked"
  /\ LET u == completions[c].user
         open == {s \in DOMAIN sessions : sessions[s].user = u /\ ~ sessions[s].revoked}
     IN /\ open \cap LockedSessions = {}
        /\ passwords' = [passwords EXCEPT ![u] = @ + 1]
        /\ sessions' = [s \in DOMAIN sessions |-> IF s \in open THEN [sessions[s] EXCEPT !.revoked = TRUE] ELSE sessions[s]]
        /\ uses' = [uses EXCEPT ![completions[c].grant] = @ + 1]
  /\ challenge' = [challenge EXCEPT !.consumed = TRUE]
  /\ completions' = [completions EXCEPT ![c] = Idle]
  /\ UNCHANGED << refreshTokens, drawn, refreshes, logins, grants >>

(* The deadline, a crash, or the victim of a deadlock with a rotation.     *)
CompleteAbort(c) ==
  /\ completions[c] # Idle
  /\ completions' = [completions EXCEPT ![c] = Idle]
  /\ UNCHANGED << passwords, sessionRows, refreshes, logins, resetRows >>

(* The lifetimes of the code and the grant, and the minute between codes. *)
ChallengeAges ==
  /\ challenge # Absent
  /\ \/ ~ challenge.expired /\ challenge' = [challenge EXCEPT !.expired = TRUE]
     \/ challenge.recent /\ challenge' = [challenge EXCEPT !.recent = FALSE]
     \/ challenge.grant # 0 /\ ~ challenge.grantExpired /\ challenge' = [challenge EXCEPT !.grantExpired = TRUE]
  /\ UNCHANGED << passwords, sessionRows, refreshes, logins, completions, grants, uses >>

CleanupPasswordResetChallenges ==
  /\ challenge # Absent /\ Completing = {}
  /\ challenge.consumed \/ (challenge.expired /\ (challenge.grant = 0 \/ challenge.grantExpired))
  /\ challenge' = Absent
  /\ UNCHANGED << passwords, sessionRows, refreshes, logins, completions, grants, uses >>

-----------------------------------------------------------------------------
RefreshStep(r) == RotateLockSession(r) \/ RotateLockUser(r) \/ Rotate(r) \/ RotateAbort(r)
LoginStep(l)   == CompareAcquire(l) \/ CompareRelease(l) \/ createSession(l) \/ LoginEnds(l)
ResetStep(c)   == CompleteBegin(c) \/ CompleteLock(c) \/ CompletePasswordReset(c) \/ CompleteAbort(c)

SessionNext ==
  \/ \E r \in Refreshes : RefreshStep(r) \/ \E t \in DOMAIN refreshTokens : Refresh(r, t)
  \/ \E s \in DOMAIN sessions : Logout(s) \/ SessionExpires(s)
  \/ CleanupExpired
  \/ \E l \in Logins : LoginStep(l) \/ \E p \in 0..MaximumGrants : FindByEmailRoles(l, p)
  \/ RequestPasswordReset \/ ChallengeAges \/ CleanupPasswordResetChallenges
  \/ \E right \in BOOLEAN : VerifyPasswordReset(right)
  \/ \E c \in Resets : ResetStep(c) \/ \E g \in 1..grants, u \in Users : CompleteHash(c, g, u)

SessionSpec == SessionInit /\ [][SessionNext]_sessionVars

-----------------------------------------------------------------------------
TokensOf(s) == {t \in DOMAIN refreshTokens : refreshTokens[t].session = s}

(* The tokens of a session form one chain, whoever refreshes at once: at   *)
(* most one is unused, each used one has the one successor that replaced   *)
(* it, and no two share a successor.                                       *)
TokensLinear ==
  /\ \A s \in DOMAIN sessions : sessions[s] \in Session
  /\ \A s \in DOMAIN sessions : Cardinality({t \in TokensOf(s) : ~ refreshTokens[t].consumed}) = 1
  /\ \A t \in DOMAIN refreshTokens :
       refreshTokens[t].consumed =>
         /\ refreshTokens[t].replacedBy \in TokensOf(refreshTokens[t].session)
         /\ \A m \in DOMAIN refreshTokens : refreshTokens[m].replacedBy = refreshTokens[t].replacedBy => m = t

(* A revocation is final: by a logout, a replayed token or a reset, also   *)
(* one that commits between the steps of a rotation.  The session never    *)
(* opens again and gets no further token.                                  *)
RevocationStays ==
  \A s \in DOMAIN sessions :
    sessions[s].revoked /\ s \in DOMAIN sessions' =>
      /\ sessions'[s].revoked
      /\ \A t \in DOMAIN refreshTokens' : refreshTokens'[t].session = s => t \in DOMAIN refreshTokens

(* No step undoes a revocation, whichever transactions overlap it. *)
RevokedFinal == [][RevocationStays]_sessionVars

(* A code is compared a bounded number of times, a grant changes one       *)
(* password once, and a session that was open when its account's password  *)
(* was reset is closed, even when a refresh of it was under way.           *)
ResetSafe ==
  /\ challenge # Absent => challenge.compared =< CodeAttempts
  /\ \A g \in 1..MaximumGrants : uses[g] =< 1
  /\ \A s \in DOMAIN sessions : ~ sessions[s].revoked => sessions[s].since = passwords[sessions[s].user]

(* What opens an account stays in one hand: each refresh token has at most *)
(* one successor, a reset code a bounded number of comparisons, and a      *)
(* session that was open at a reset does not outlive it.                   *)
CredentialsSafe == TokensLinear /\ ResetSafe
=============================================================================
