---------------------------- MODULE EdgeRequests ----------------------------
(***************************************************************************)
(* A request of a browser on its way through the Edge API: the origin      *)
(* check, the rate limit, the authenticator, the handler, the client of    *)
(* the service that owns the operation, and the server of that service.    *)
(*                                                                         *)
(* An error crosses three translations on its way back: the server gives   *)
(* it a gRPC code, the client an error of Edge, and the handler a status.  *)
(* A call may also fail in transport, before or after the service did its  *)
(* work; a service may even do it after the caller gave up.  What a        *)
(* service decides is external here (IdentityAccount, IdentitySession,     *)
(* CatalogBook and RetrievalSearch model it); which errors it can return   *)
(* comes from its server.                                                  *)
(*                                                                         *)
(* A code carries its message where the client reads the message.          *)
(***************************************************************************)
EXTENDS Integers, FiniteSets

CONSTANT Attempts    \* bound on the requests of the browser

VARIABLES op,        \* the operation of the request under way
          step,      \* how far it came
          role,      \* the role of the authenticated principal
          rpc,       \* the call under way
          result,    \* what the service decided, "none" before it has
          late,      \* calls, with their role, a service may still carry out for a caller that gave up
          why,       \* the reason for the response: the result of the last call, or Edge's own
          status,    \* the HTTP status of the response
          took,      \* operations that took effect
          acted,     \* the request under way took effect
          cookie,    \* the refresh cookie of the browser
          current,   \* the cookie holds the newest token of its session
          session,   \* the session of the browser, at Identity
          tries      \* requests sent

rvars == << op, step, role, rpc, result, late, why, status, took, acted, cookie, current, session, tries >>

Dependency == {"canceled", "deadline", "other", "transport"}

(* What each server may answer beside success; a login without a session,  *)
(* because the roles of the account leave a choice, is no error.           *)
dependencyErrors == {"canceled", "deadline", "other"}

accountServer == [register    |-> {"validation"},
                  verifyEmail |-> {"verification"},
                  resend      |-> {}]

sessionServer == [login           |-> {"credentials", "roleSelection"},
                  refresh         |-> {"credentials"},
                  validateSession |-> {"credentials"},
                  logout          |-> {}]

passwordServer == [resetRequest  |-> {},
                   resetVerify   |-> {"reset"},
                   resetComplete |-> {"reset"}]

adminServer == [setupStatus |-> {},
                bootstrap   |-> {"validation", "bootstrapCode", "complete"},
                listPending |-> {"pageToken", "forbidden"},
                decide      |-> {"forbidden", "conflict"}]

bookServer == [upload  |-> {"correlation", "forbidden", "metadata", "invalidBook", "invalidStream", "endOfStream",
                            "tooLarge", "capacity"},
               reindex |-> {"forbidden", "command", "transition", "eventConflict", "notFound"},
               delete  |-> {"forbidden", "command", "transition", "eventConflict", "notFound"},
               list    |-> {"forbidden", "pagination"},
               get     |-> {"forbidden", "notFound"}]

searchServer == [search |-> {"forbidden", "invalidSearch"}]
answerServer == [answer |-> {"forbidden", "invalidSearch"}]

Identity == DOMAIN accountServer \cup DOMAIN sessionServer \cup DOMAIN passwordServer \cup DOMAIN adminServer
Catalog  == DOMAIN bookServer
Rpcs     == Identity \cup Catalog \cup {"search", "answer"}

errorsOf(r) ==
  dependencyErrors \cup
  ( IF r \in DOMAIN accountServer  THEN accountServer[r]
    ELSE IF r \in DOMAIN sessionServer  THEN sessionServer[r]
    ELSE IF r \in DOMAIN passwordServer THEN passwordServer[r]
    ELSE IF r \in DOMAIN adminServer    THEN adminServer[r]
    ELSE IF r \in DOMAIN bookServer     THEN bookServer[r]
    ELSE IF r \in DOMAIN searchServer   THEN searchServer[r]
    ELSE answerServer[r] )

Errors == (UNION {errorsOf(r) : r \in Rpcs}) \cup {"ok"}

-----------------------------------------------------------------------------
(* The codes of the servers. *)

Otherwise(f, x, default) == IF x \in DOMAIN f THEN f[x] ELSE default

toStatus ==
  LET code == [ok |-> "OK", canceled |-> "Canceled", deadline |-> "DeadlineExceeded",
               validation |-> "InvalidArgument", pageToken |-> "InvalidArgument",
               bootstrapCode |-> "Unauthenticated", verification |-> "InvalidArgument",
               reset |-> "InvalidArgument", credentials |-> "Unauthenticated",
               forbidden |-> "PermissionDenied", roleSelection |-> "OK_role_selection",
               complete |-> "FailedPrecondition", conflict |-> "FailedPrecondition"]
  IN [e \in Errors |-> Otherwise(code, e, "Internal")]

catalogStatus ==
  LET code == [ok |-> "OK", deadline |-> "DeadlineExceeded", canceled |-> "Canceled",
               correlation |-> "InvalidArgument", pagination |-> "InvalidArgument_invalid_pagination",
               metadata |-> "InvalidArgument", invalidBook |-> "InvalidArgument",
               invalidStream |-> "InvalidArgument", endOfStream |-> "InvalidArgument",
               command |-> "InvalidArgument", transition |-> "FailedPrecondition",
               eventConflict |-> "Aborted", forbidden |-> "PermissionDenied", tooLarge |-> "ResourceExhausted",
               capacity |-> "ResourceExhausted_upload_capacity", notFound |-> "NotFound"]
  IN [e \in Errors |-> Otherwise(code, e, "Unavailable")]

retrievalStatus ==
  LET code == [ok |-> "OK", forbidden |-> "PermissionDenied", invalidSearch |-> "InvalidArgument",
               canceled |-> "Canceled", deadline |-> "DeadlineExceeded"]
  IN [e \in Errors |-> Otherwise(code, e, "Unavailable")]

answerStatus ==
  LET code == [ok |-> "OK", forbidden |-> "PermissionDenied", invalidSearch |-> "InvalidArgument",
               canceled |-> "Canceled", deadline |-> "DeadlineExceeded"]
  IN [e \in Errors |-> Otherwise(code, e, "Unavailable")]

serverStatus(r) == IF r \in Identity THEN toStatus
                   ELSE IF r \in Catalog THEN catalogStatus
                   ELSE IF r = "search" THEN retrievalStatus ELSE answerStatus

transportCodes == {"Unavailable", "DeadlineExceeded", "Canceled"}

Codes == (UNION {{serverStatus(r)[e] : e \in Errors} : r \in Rpcs}) \cup transportCodes

-----------------------------------------------------------------------------
(* The errors of the clients. *)

mapRegisterError == [c \in Codes |-> Otherwise([OK |-> "ok", AlreadyExists |-> "ok",
    InvalidArgument |-> "ErrInvalidRegistration"], c, "ErrUnavailable")]

VerifyEmailError == [c \in Codes |-> Otherwise([OK |-> "ok",
    InvalidArgument |-> "ErrInvalidVerification"], c, "ErrUnavailable")]

mapPasswordResetError == [c \in Codes |-> Otherwise([OK |-> "ok",
    InvalidArgument |-> "ErrInvalidPasswordReset"], c, "ErrUnavailable")]

mapDependencyError == [c \in Codes |-> Otherwise([OK |-> "ok"], c, "ErrUnavailable")]

mapStateError == [c \in Codes |-> Otherwise([OK |-> "ok",
    PermissionDenied |-> "ErrForbidden", Unauthenticated |-> "ErrForbidden",
    InvalidArgument |-> "ErrInvalidRegistration",
    FailedPrecondition |-> "ErrConflict", AlreadyExists |-> "ErrConflict"], c, "ErrUnavailable")]

(* Fault: every failure of Identity counts as invalid credentials. *)
mapCredentialErrorOfAny == [c \in Codes |-> Otherwise([OK |-> "ok", OK_role_selection |-> "availableRoles"],
    c, "ErrInvalidCredentials")]

mapCredentialError == [c \in Codes |-> Otherwise([OK |-> "ok", OK_role_selection |-> "availableRoles",
    InvalidArgument |-> "ErrInvalidCredentials", Unauthenticated |-> "ErrInvalidCredentials"],
    c, "ErrUnavailable")]

catalogError ==
  [c \in Codes |->
     IF c = "OK" THEN "ok"
     ELSE IF c = "NotFound" THEN "ErrBookNotFound"
     ELSE IF c = "PermissionDenied" THEN "ErrBookUnauthorized"
     ELSE IF c \in {"Aborted", "FailedPrecondition", "AlreadyExists"} THEN "ErrBookLifecycleConflict"
     ELSE IF c = "ResourceExhausted_upload_capacity" THEN "ErrBookCapacityExhausted"
     ELSE IF c = "ResourceExhausted" THEN "ErrBookTooLarge"
     ELSE IF c = "InvalidArgument_invalid_pagination" THEN "ErrInvalidPagination"
     ELSE IF c = "InvalidArgument" THEN "ErrInvalidBookRequest"
     ELSE "raw"]

mapLifecycleError ==
  [c \in Codes |-> IF catalogError[c] = "ErrInvalidBookRequest" THEN "ErrInvalidBookLifecycleRequest"
                   ELSE catalogError[c]]

retrievalError == [c \in Codes |-> Otherwise([OK |-> "ok", InvalidArgument |-> "ErrInvalidSearch",
    PermissionDenied |-> "ErrSearchForbidden", Unauthenticated |-> "ErrSearchForbidden"],
    c, "ErrUnavailable")]

answerError == [c \in Codes |-> Otherwise([OK |-> "ok", InvalidArgument |-> "ErrInvalidSearch",
    PermissionDenied |-> "ErrSearchForbidden", Unauthenticated |-> "ErrSearchForbidden",
    Unavailable |-> "ErrAnswerUnavailable", DeadlineExceeded |-> "ErrAnswerUnavailable",
    ResourceExhausted |-> "ErrAnswerUnavailable"], c, "ErrAnswerFailed")]

(* Which translation each method of the clients applies. *)
clientError(r) ==
  IF r = "register" THEN mapRegisterError
  ELSE IF r = "verifyEmail" THEN VerifyEmailError
  ELSE IF r \in {"resetVerify", "resetComplete"} THEN mapPasswordResetError
  ELSE IF r \in {"resend", "resetRequest", "setupStatus"} THEN mapDependencyError
  ELSE IF r \in {"bootstrap", "listPending", "decide"} THEN mapStateError
  ELSE IF r \in DOMAIN sessionServer THEN mapCredentialError
  ELSE IF r \in {"upload", "list", "get"} THEN catalogError
  ELSE IF r \in {"reindex", "delete"} THEN mapLifecycleError
  ELSE IF r = "search" THEN retrievalError ELSE answerError

-----------------------------------------------------------------------------
(* The statuses of the handlers. *)

Register      == [ok |-> 202, ErrInvalidRegistration |-> 422]
VerifyEmail   == [ok |-> 204, ErrInvalidVerification |-> 400]
ResendVerification    == [ok |-> 202]
RequestPasswordReset  == [ok |-> 202]
VerifyPasswordReset   == [ok |-> 200, ErrInvalidPasswordReset |-> 400]
CompletePasswordReset == [ok |-> 204, ErrInvalidPasswordReset |-> 400]
Login         == [ok |-> 200, availableRoles |-> 200, ErrInvalidCredentials |-> 401]
Refresh       == [ok |-> 200, ErrInvalidCredentials |-> 401]
Logout        == [ok |-> 200, ErrInvalidCredentials |-> 200]
SetupStatus   == [ok |-> 200]
CreateAdmin   == [ok |-> 201, ErrConflict |-> 409, ErrForbidden |-> 401, ErrInvalidRegistration |-> 400]

writeAdminError == [ErrForbidden |-> 403, ErrInvalidRegistration |-> 400, ErrConflict |-> 409]

mapBookError == [ErrBookTooLarge |-> 413, ErrBookUnsupportedMediaType |-> 415,
                 ErrBookCapacityExhausted |-> 429, ErrBookUnauthorized |-> 403,
                 ErrBookNotFound |-> 404, ErrBookLifecycleConflict |-> 409,
                 ErrInvalidBookLifecycleRequest |-> 400, ErrInvalidBookRequest |-> 400]

List == [ok |-> 200, ErrInvalidPagination |-> 400]
Get  == [ok |-> 200, ErrBookNotFound |-> 404]

writeQueryError == [ErrInvalidSearch |-> 422, ErrSearchForbidden |-> 403, ErrAnswerFailed |-> 503]

(* The handler of each operation: the status for an error of its client. *)
respond(o, e) ==
  LET of(f)      == Otherwise(f, e, 503)
      with(s, f) == IF e = "ok" THEN s ELSE of(f)
  IN IF o = "register" THEN of(Register)
     ELSE IF o = "verifyEmail" THEN of(VerifyEmail)
     ELSE IF o = "resend" THEN of(ResendVerification)
     ELSE IF o = "resetRequest" THEN of(RequestPasswordReset)
     ELSE IF o = "resetVerify" THEN of(VerifyPasswordReset)
     ELSE IF o = "resetComplete" THEN of(CompletePasswordReset)
     ELSE IF o = "login" THEN of(Login)
     ELSE IF o = "refresh" THEN of(Refresh)
     ELSE IF o = "logout" THEN of(Logout)
     ELSE IF o = "setupStatus" THEN of(SetupStatus)
     ELSE IF o = "bootstrap" THEN of(CreateAdmin)
     ELSE IF o = "listPending" THEN with(200, writeAdminError)
     ELSE IF o = "decide" THEN with(204, writeAdminError)
     ELSE IF o = "upload" THEN with(201, mapBookError)
     ELSE IF o \in {"reindex", "delete"} THEN with(202, mapBookError)
     ELSE IF o = "list" THEN of(List)
     ELSE IF o = "get" THEN of(Get)
     ELSE with(200, writeQueryError)

(* The routes: who may use an operation, and what the handler refuses      *)
(* before it calls a service.                                              *)
admin      == {"listPending", "decide"}
librarian  == {"upload", "reindex", "delete"}
guarded    == admin \cup librarian \cup {"me", "logout", "list", "get", "search", "answer"}
Operations == (Rpcs \ {"validateSession"}) \cup {"me"}
mutations  == Operations \ {"me", "setupStatus", "listPending", "list", "get"}

(* The roles, those a route admits, and those the service asks of the      *)
(* actor again (CanRead, CanUpload, CanManage, CanSearch, CanAnswer); the  *)
(* other calls carry no role.                                              *)
Roles == {"reader", "librarian", "admin"}

RequireRole(o) == IF o \in admin THEN {"admin"}
                  ELSE IF o \in librarian THEN {"librarian", "admin"} ELSE Roles

CanManage == {"librarian", "admin"}
CanRead   == {"reader", "librarian", "admin"}
CanSearch == {"reader", "librarian", "admin"}
CanAnswer == {"reader", "librarian", "admin"}

allowed(r, p) ==
  /\ r \in admin => p = "admin"
  /\ r \in {"upload", "reindex", "delete"} => p \in CanManage
  /\ r \in {"list", "get"} => p \in CanRead
  /\ r = "search" => p \in CanSearch
  /\ r = "answer" => p \in CanAnswer

limited    == {"register", "verifyEmail", "login", "resend", "resetRequest", "resetVerify", "resetComplete",
               "bootstrap", "upload", "search", "answer"}

(* The refusals of a malformed request; the refresh cookie is missing when *)
(* the browser holds none.                                                 *)
refusals(o) ==
  IF o \in {"me", "logout", "setupStatus"} THEN {}
  ELSE IF o = "refresh" THEN IF cookie = "held" THEN {} ELSE {401}
  ELSE IF o = "upload" THEN {400, 415}
  ELSE IF o \in {"search", "answer"} THEN {400, 422}
  ELSE {400}

-----------------------------------------------------------------------------
Nothing == "none"

RequestInit ==
  /\ op = Nothing /\ step = "idle" /\ role = Nothing /\ rpc = Nothing /\ result = Nothing /\ late = {}
  /\ why = Nothing /\ status = 0 /\ took = {} /\ acted = FALSE
  /\ cookie = "held" /\ current = TRUE /\ session = "live" /\ tries = 0

browser == << cookie, current, session >>

Send(o) ==
  /\ step \in {"idle", "done"} /\ tries < Attempts
  /\ op' = o /\ step' = "admission" /\ tries' = tries + 1
  /\ rpc' = Nothing /\ result' = Nothing /\ why' = Nothing /\ status' = 0 /\ acted' = FALSE
  /\ UNCHANGED << role, late, took, browser >>

(* Edge answers by itself. *)
Answer(s, reason) ==
  /\ step' = "done" /\ status' = s /\ why' = reason /\ role' = Nothing /\ rpc' = Nothing
  /\ UNCHANGED << op, result, late, took, acted, browser, tries >>

Call(r) ==
  /\ step' = "calling" /\ rpc' = r /\ result' = Nothing
  /\ UNCHANGED << op, role, late, why, status, took, acted, browser, tries >>

(* No identifier can be generated for the request. *)
RequestIDFails ==
  /\ step = "admission"
  /\ Answer(503, "requestID")

BrowserMutationGuard ==
  /\ step = "admission" /\ op \in mutations
  /\ Answer(403, "origin")

(* The limit of a route counts what its authenticator and its role check   *)
(* let through.                                                            *)
RateLimited ==
  /\ step = "handler" /\ op \in limited
  /\ Answer(429, "limit")

(* The bearer token is missing, or its signature or its time does not hold. *)
TokenRejected ==
  /\ step = "admission" /\ op \in guarded
  /\ Answer(401, "token")

Authenticator ==
  /\ step = "admission" /\ op \in guarded
  /\ Call("validateSession")

Public ==
  /\ step = "admission" /\ op \notin guarded
  /\ step' = "handler"
  /\ UNCHANGED << op, role, rpc, result, late, why, status, took, acted, browser, tries >>

Refuse ==
  /\ step = "handler"
  /\ \E s \in refusals(op) : Answer(s, "malformed")

Me ==
  /\ step = "handler" /\ op = "me"
  /\ Answer(200, "ok")

(* The handler calls its client; an answer is admitted by a limit of its   *)
(* own, and an upload streams its file first.                              *)
CallService ==
  /\ step = "handler" /\ op \notin {"me", "upload"}
  /\ op = "refresh" => cookie = "held"
  /\ Call(op)

AnswerRefused ==
  /\ step = "handler" /\ op = "answer"
  /\ Answer(429, "limit")

StartUpload ==
  /\ step = "handler" /\ op = "upload"
  /\ step' = "streaming" /\ rpc' = "upload" /\ result' = Nothing
  /\ UNCHANGED << op, role, late, why, status, took, acted, browser, tries >>

(* The multipart body holds a third part, or breaks off: the client leaves *)
(* without closing the stream, so Catalog never sees its end.  A body that *)
(* breaks off is a read error that no translation knows, and the handler   *)
(* says that Catalog is unavailable.                                       *)
BodyFails ==
  /\ step = "streaming"
  /\ \/ Answer(mapBookError.ErrInvalidBookRequest, "malformed")
     \/ Answer(503, "brokenBody")

StreamClosed ==
  /\ step = "streaming" /\ result = Nothing
  /\ step' = "calling"
  /\ UNCHANGED << op, role, rpc, result, late, why, status, took, acted, browser, tries >>

-----------------------------------------------------------------------------
singleUse == {"verifyEmail", "resetComplete", "bootstrap", "decide"}

(* What a service may find wrong with a call of an actor it allows.  Every *)
(* call of Edge carries a valid identifier of Edge's own.                  *)
faults(r) == errorsOf(r) \ {"forbidden", "correlation"}

(* What the service may decide now about r for an actor of role p. *)
decisions(r, p) ==
  dependencyErrors \cup
  ( IF r = "validateSession" THEN IF session = "live" THEN {"ok"} ELSE {"credentials"}
    ELSE IF r = "refresh" THEN IF session = "live" /\ current THEN {"ok"} ELSE {"credentials"}
    ELSE IF ~ allowed(r, p) \/ (r \in admin /\ session # "live") THEN {"forbidden"}
    ELSE IF r \in singleUse /\ r \in took THEN faults(r)
    ELSE IF r \in {"reindex", "delete"} /\ r \in took THEN {"ok"}
    ELSE faults(r) \cup {"ok"} )

(* What a decision changes: a refresh spends the token the cookie holds,   *)
(* one with a spent token ends the session, and so does a logout.          *)
effect(r, e) ==
  /\ took' = IF e = "ok" THEN took \cup {r} ELSE took
  /\ current' = IF r = "refresh" /\ e = "ok" THEN FALSE ELSE current
  /\ session' = IF (r = "logout" /\ e = "ok") \/ (r = "refresh" /\ e = "credentials" /\ ~current)
                THEN "revoked" ELSE session

Serve ==
  /\ step = "calling" /\ result = Nothing
  /\ \E e \in decisions(rpc, role) :
       /\ result' = e
       /\ effect(rpc, e)
       /\ acted' = (e = "ok" /\ rpc # "validateSession")
  /\ UNCHANGED << op, step, role, rpc, late, why, status, cookie, tries >>

(* Catalog refuses an upload before its end. *)
ServeEarly ==
  /\ step = "streaming" /\ result = Nothing
  /\ \E e \in decisions("upload", role) \ {"ok"} : result' = e
  /\ UNCHANGED << op, step, role, rpc, late, why, status, took, acted, browser, tries >>

(* The service works for a caller that gave up. *)
ServeLate(call) ==
  /\ call \in late
  /\ \E e \in decisions(call[1], call[2]) : effect(call[1], e)
  /\ late' = late \ {call}
  /\ UNCHANGED << op, step, role, rpc, result, why, status, acted, cookie, tries >>

(* The authenticator: the principal has a role, which the route admits or  *)
(* not.                                                                    *)
Authenticated(e, reason) ==
  /\ \/ /\ e = "ok" /\ step' = "handler" /\ why' = Nothing /\ UNCHANGED status
        /\ \E p \in RequireRole(op) : role' = p
     \/ /\ e = "ok" /\ RequireRole(op) # Roles
        /\ step' = "done" /\ status' = 403 /\ why' = "role" /\ UNCHANGED role
     \/ /\ e # "ok" /\ step' = "done" /\ why' = reason /\ UNCHANGED role
        /\ status' = IF e = "ErrInvalidCredentials" THEN 401 ELSE 503
  /\ rpc' = Nothing
  /\ UNCHANGED << result, browser >>

setsCookie(e)   == op \in {"login", "refresh"} /\ e = "ok"
clearsCookie(e) == \/ op = "logout" /\ e \in DOMAIN Logout
                   \/ op = "refresh" /\ e = "ErrInvalidCredentials"

Respond(e, reason) ==
  /\ step' = "done" /\ role' = Nothing /\ rpc' = Nothing /\ why' = reason /\ status' = respond(op, e)
  /\ cookie'  = IF setsCookie(e) THEN "held" ELSE IF clearsCookie(e) THEN Nothing ELSE cookie
  /\ current' = (current \/ setsCookie(e))
  /\ session' = IF op = "login" /\ e = "ok" THEN "live" ELSE session
  /\ UNCHANGED result

(* An answer that is unavailable is replaced by a search. *)
fallsBack(e) == rpc = "answer" /\ e = "ErrAnswerUnavailable"

Query(e) ==
  /\ rpc' = "search" /\ result' = Nothing
  /\ UNCHANGED << step, role, why, status, browser >>

(* The error of the client reaches the authenticator or the handler. *)
Continue(e, reason) ==
  /\ \/ rpc = "validateSession" /\ Authenticated(e, reason)
     \/ fallsBack(e) /\ Query(e)
     \/ rpc # "validateSession" /\ ~fallsBack(e) /\ Respond(e, reason)
  /\ UNCHANGED << op, took, acted, tries >>

Deliver ==
  /\ step \in {"calling", "streaming"} /\ result # Nothing
  /\ Continue(clientError(rpc)[serverStatus(rpc)[result]], result)
  /\ UNCHANGED late

(* The deadline of the client passes, or the connection fails, before or   *)
(* after the service did its work.  Catalog never sees the end of an       *)
(* upload that fails while it streams.                                     *)
TransportFails ==
  /\ step \in {"calling", "streaming"}
  /\ \E c \in transportCodes : Continue(clientError(rpc)[c], "transport")
  /\ late' = IF step = "calling" /\ result = Nothing THEN late \cup {<< rpc, role >>} ELSE late

(* Identity ends the session: its lifetime passes, or an administrator or  *)
(* a password reset ends it.                                               *)
Revoke ==
  /\ session = "live"
  /\ session' = "revoked"
  /\ UNCHANGED << op, step, role, rpc, result, late, why, status, took, acted, cookie, current, tries >>

RequestNext ==
  \/ \E o \in Operations : Send(o)
  \/ RequestIDFails \/ BrowserMutationGuard \/ RateLimited \/ TokenRejected \/ Authenticator \/ Public
  \/ Refuse \/ Me \/ CallService \/ AnswerRefused \/ StartUpload \/ BodyFails \/ StreamClosed
  \/ Serve \/ ServeEarly \/ \E call \in late : ServeLate(call)
  \/ Deliver \/ TransportFails \/ Revoke

RequestSpec == RequestInit /\ [][RequestNext]_rvars

-----------------------------------------------------------------------------
(* What is wrong with a request, as Edge or a service found it. *)
Refusals == {"origin", "limit", "token", "role", "malformed"}
            \cup (Errors \ (dependencyErrors \cup {"ok", "roleSelection", "correlation"}))

(* The response tells the browser what happened, over all three            *)
(* translations and any loss between them: a success is only reported when *)
(* the service reported it, or left the choice of a role and did nothing;  *)
(* a request is only blamed for what is wrong with it and then took no     *)
(* effect; the service is only blamed when it, Edge or the way between     *)
(* them failed, never for the role of the caller; and the refresh cookie   *)
(* is only taken away when its token no longer refreshes.  The exception   *)
(* is an upload whose body breaks off: it took no effect, but the response *)
(* blames Catalog for it (catalogclient/client.go:86-88,                   *)
(* books_handler.go:299-300).                                              *)
OutcomesTruthful ==
  /\ step = "done" =>
       /\ status \in 200..299 => \/ why = "ok" /\ (acted \/ op = "me")
                                 \/ why = "roleSelection" /\ op = "login" /\ ~acted
       /\ status \in 400..499 => why \in Refusals /\ ~acted
       /\ status = 503 <=> why \in Dependency \cup {"requestID", "brokenBody"}
       /\ why = "brokenBody" => op = "upload" /\ ~acted
  /\ cookie = Nothing => session = "revoked" \/ ~current
=============================================================================
