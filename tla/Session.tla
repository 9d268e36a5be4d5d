------------------------------ MODULE Session ------------------------------
(***************************************************************************)
(* Accounts and sessions: AuthService and UsersService of the API, the     *)
(* guards every route passes, and lib/api.ts and lib/auth.tsx, of which    *)
(* each front end has its copy.  One e-mail address, the browsers it is    *)
(* used from, and in each browser the contexts (tabs, or the field app's   *)
(* page and its service worker) that share the cookie and nothing else.    *)
(***************************************************************************)
EXTENDS Naturals, FiniteSets

CONSTANTS
  Devices,      \* browsers, each with its cookie jar
  Parts,        \* contexts of a browser that share the jar
  Jtis,         \* ids of refresh tokens (randomUUID): those nobody holds are free
  StaffRoles,   \* of the admin panel
  None

Contexts == Devices \X Parts
Roles == StaffRoles \cup {"customer"}

ASSUME RoleAssumption == "customer" \notin StaffRoles /\ "none" \notin Roles
ASSUME NoneAssumption == None \notin Jtis

VARIABLES
  account,   \* the row of User, role "none" while there is none
  stored,    \* refresh:current:<user> in Redis
  jar,       \* [Devices -> the refresh_token cookie]
  token,     \* [Contexts -> the access token in memory]
  req        \* [Contexts -> the request to /auth in flight]

vars == <<account, stored, jar, token, req>>

Jti == Jtis \cup {None}
Account == [role : Roles \cup {"none"}, active : BOOLEAN]
Token == [state : {"none", "valid", "expired"}, role : Roles \cup {"none"}]
Request ==
  [ at   : {"idle", "get", "del", "hash", "user", "issue", "answered", "refused"},
    kind : {"none", "register", "login", "refresh"},
    jti  : Jti,                      \* presented, or issued once answered
    role : Roles \cup {"none"} ]     \* of the row when it was read

NoToken == [state |-> "none", role |-> "none"]
NoRequest == [at |-> "idle", kind |-> "none", jti |-> None, role |-> "none"]

TypeOK ==
  /\ account \in Account
  /\ stored \in Jti
  /\ jar \in [Devices -> Jti]
  /\ token \in [Contexts -> Token]
  /\ req \in [Contexts -> Request]

Init ==
  /\ account = [role |-> "none", active |-> TRUE]
  /\ stored = None
  /\ jar = [d \in Devices |-> None]
  /\ token = [x \in Contexts |-> NoToken]
  /\ req = [x \in Contexts |-> NoRequest]

Goto(x, at) == req' = [req EXCEPT ![x].at = at]
Refuse(x) == req' = [req EXCEPT ![x] = [NoRequest EXCEPT !.at = "refused", !.kind = req[x].kind]]

-----------------------------------------------------------------------------
(* The screens and the wrapper around fetch *)

(* handleSubmit of the sign-in pages, for a visitor who is not signed in.  *)
Begin(x, kind, at) ==
  /\ req[x].at = "idle" /\ token[x].state = "none"
  /\ req' = [req EXCEPT ![x] = [NoRequest EXCEPT !.kind = kind, !.at = at]]
  /\ UNCHANGED <<account, stored, jar, token>>

BeginLogin(x) == Begin(x, "login", "user")

(* AuthService.register looks for the address first.  "customer" stands    *)
(* for the two roles that register themselves.                             *)
BeginRegister(x) == Begin(x, "register", IF account.role = "none" THEN "hash" ELSE "refused")

(* apiRequest has a token that was answered with 401, or the page has just *)
(* been loaded, or the field app's queue has none.                         *)
NeedsToken(x) == token[x].state # "valid"

(* refreshAccessToken, once at a time in a context.  Without a cookie      *)
(* AuthController.refresh refuses at once.                                 *)
SendRefresh(x) ==
  /\ req[x].at = "idle" /\ NeedsToken(x)
  /\ req' = [req EXCEPT ![x] =
       [ at |-> IF jar[x[1]] = None THEN "refused" ELSE "get",
         kind |-> "refresh", jti |-> jar[x[1]], role |-> "none" ]]
  /\ UNCHANGED <<account, stored, jar, token>>

setAccessToken(x, t) == token' = [token EXCEPT ![x] = t]

(* The answer sets the cookie, whatever the jar holds by now, ...          *)
respondWithTokens(x) == jar' = [jar EXCEPT ![x[1]] = req[x].jti]

(* ... and AuthProvider hears of the access token.                         *)
Receive(x) ==
  /\ req[x].at = "answered"
  /\ respondWithTokens(x)
  /\ setAccessToken(x, [state |-> "valid", role |-> req[x].role])
  /\ req' = [req EXCEPT ![x] = NoRequest]
  /\ UNCHANGED <<account, stored>>

(* A refusal, or no answer at all, to a refresh empties the memory.        *)
GiveUp(x) ==
  /\ setAccessToken(x, IF req[x].kind = "refresh" THEN NoToken ELSE token[x])
  /\ req' = [req EXCEPT ![x] = NoRequest]
  /\ UNCHANGED <<account, stored, jar>>

ReceiveRefusal(x) == req[x].at = "refused" /\ GiveUp(x)

(* The request never arrives, or its answer is lost.                       *)
Lose(x) == req[x].at \in {"get", "hash", "answered"} /\ GiveUp(x)

(* The page is loaded again, the worker stops, or logout is clicked: each  *)
(* of them forgets the access token and leaves the cookie where it is.     *)
Logout(x) ==
  /\ req[x].at = "idle" /\ token[x].state # "none"
  /\ setAccessToken(x, NoToken)
  /\ UNCHANGED <<account, stored, jar, req>>

-----------------------------------------------------------------------------
(* AuthService *)

(* The index on the address decides between two creations.                 *)
CreateUser(x) ==
  /\ req[x].at = "hash"
  /\ IF account.role = "none"
       THEN /\ account' = [role |-> "customer", active |-> TRUE]
            /\ req' = [req EXCEPT ![x].at = "issue", ![x].role = "customer"]
       ELSE Refuse(x) /\ UNCHANGED account
  /\ UNCHANGED <<stored, jar, token>>

(* Mutant of ReadStored: any refresh token that verifies is good.          *)
ReadAnyStored(x) ==
  /\ req[x].at = "get"
  /\ Goto(x, IF stored = None THEN "del" ELSE "user")
  /\ UNCHANGED <<account, stored, jar, token>>

(* refresh reads the id that is current ...                                *)
ReadStored(x) ==
  /\ req[x].at = "get"
  /\ Goto(x, IF stored = req[x].jti THEN "user" ELSE "del")
  /\ UNCHANGED <<account, stored, jar, token>>

(* ... and ends the session when another was presented,                    *)
Revoke(x) ==
  /\ req[x].at = "del"
  /\ stored' = None
  /\ Refuse(x)
  /\ UNCHANGED <<account, jar, token>>

(* Mutant of ReadUser: deletedAt is looked at by login only.               *)
ReadUserEvenDeleted(x) ==
  /\ req[x].at = "user"
  /\ IF account.role # "none" /\ (account.active \/ req[x].kind = "refresh")
       THEN req' = [req EXCEPT ![x].at = "issue", ![x].role = account.role]
       ELSE IF req[x].kind = "refresh" THEN Goto(x, "del") ELSE Refuse(x)
  /\ UNCHANGED <<account, stored, jar, token>>

(* What login and refresh ask of the row; the password is right.           *)
Active == account.role # "none" /\ account.active

(* or reads the row, as login does.                                        *)
ReadUser(x) ==
  /\ req[x].at = "user"
  /\ IF Active
       THEN req' = [req EXCEPT ![x].at = "issue", ![x].role = account.role]
       ELSE IF req[x].kind = "refresh" THEN Goto(x, "del") ELSE Refuse(x)
  /\ UNCHANGED <<account, stored, jar, token>>

InUse == {stored} \cup {jar[d] : d \in Devices} \cup {req[x].jti : x \in Contexts}

(* Mutant of Issue: a session that exists keeps its id.                    *)
IssueStored(x) ==
  /\ req[x].at = "issue" /\ Jtis \ InUse # {}
  /\ LET jti == IF stored # None THEN stored ELSE CHOOSE j \in Jtis \ InUse : TRUE
     IN  /\ stored' = jti
         /\ req' = [req EXCEPT ![x].at = "answered", ![x].jti = jti]
  /\ UNCHANGED <<account, jar, token>>

(* issueTokenPair: the new id replaces whatever id is current by now.      *)
Issue(x) ==
  /\ req[x].at = "issue" /\ Jtis \ InUse # {}
  /\ LET jti == CHOOSE j \in Jtis \ InUse : TRUE
     IN  /\ stored' = jti
         /\ req' = [req EXCEPT ![x].at = "answered", ![x].jti = jti]
  /\ UNCHANGED <<account, jar, token>>

(* 7 days, in Redis and in the browser; 15 minutes.                        *)
StoredExpires ==
  /\ stored # None /\ stored' = None
  /\ UNCHANGED <<account, jar, token, req>>

CookieExpires(d) ==
  /\ jar[d] # None /\ jar' = [jar EXCEPT ![d] = None]
  /\ UNCHANGED <<account, stored, token, req>>

TokenExpires(x) ==
  /\ token[x].state = "valid"
  /\ token' = [token EXCEPT ![x] = [state |-> "expired", role |-> "none"]]
  /\ UNCHANGED <<account, stored, jar, req>>

-----------------------------------------------------------------------------
(* UsersService, asked by some other admin *)

CreateStaff(role) ==
  /\ account.role = "none"
  /\ account' = [role |-> role, active |-> TRUE]
  /\ UNCHANGED <<stored, jar, token, req>>

(* Mutant of UpdateStaff: a form without a role stores none.               *)
UpdateRoleOmitted(role, active) ==
  /\ account.role \in StaffRoles
  /\ account' = [role |-> IF active THEN role ELSE None, active |-> active]
  /\ UNCHANGED <<stored, jar, token, req>>

(* What is written does not depend on what was read but for the guard,     *)
(* and a role never leaves StaffRoles once it is there.                    *)
UpdateStaff(role, active) ==
  /\ account.role \in StaffRoles
  /\ account' = [role |-> role, active |-> active]
  /\ UNCHANGED <<stored, jar, token, req>>

-----------------------------------------------------------------------------
(* The guards: JwtAuthGuard with its strategy, which takes the payload at  *)
(* its word, and RolesGuard.                                               *)
Verified(x) == token[x].state = "valid"
Admitted(x, roles) == Verified(x) /\ token[x].role \in roles

SignIn == \E x \in Contexts : BeginLogin(x) \/ BeginRegister(x)

ApiStep(x) == CreateUser(x) \/ ReadStored(x) \/ Revoke(x) \/ ReadUser(x) \/ Issue(x)

AnswerStep(x) == Receive(x) \/ ReceiveRefusal(x) \/ Lose(x)

Administer ==
  \E role \in StaffRoles :
    CreateStaff(role) \/ \E active \in BOOLEAN : UpdateStaff(role, active)

Next ==
  \/ SignIn
  \/ \E x \in Contexts : SendRefresh(x) \/ Logout(x) \/ TokenExpires(x)
                           \/ ApiStep(x) \/ AnswerStep(x)
  \/ Administer
  \/ StoredExpires
  \/ \E d \in Devices : CookieExpires(d)

Spec == Init /\ [][Next]_vars

(* Handlers finish, answers come or are given up, access tokens run out.   *)
FairSpec ==
  /\ Spec
  /\ \A x \in Contexts : /\ WF_vars(ApiStep(x))
                         /\ WF_vars(AnswerStep(x))
                         /\ WF_vars(TokenExpires(x))

-----------------------------------------------------------------------------
(* Once the admins leave an account alone, no context is admitted with a   *)
(* role it has no longer, or at all when it is disabled, for ever: tokens  *)
(* that say otherwise run out and no refresh renews them, whatever request *)
(* was under way at the decision (auth.service.ts:114-127,                 *)
(* users.service.ts:170-180).                                              *)
DecisionTakesHold ==
  <>[][account' = account]_vars =>
    <>[](\A x \in Contexts, role \in Roles :
           Admitted(x, {role}) => account.active /\ account.role = role)

(* One session for each user: when nobody signs in any more, all that are  *)
(* signed in are in the end contexts of one browser (auth.service.ts:155,  *)
(* HANDOVER.md:174).                                                       *)
OneBrowser ==
  <>[][~SignIn]_vars =>
    <>[](\E d \in Devices : \A x \in Contexts : Verified(x) => x[1] = d)

(* The id the API would accept is with one browser only, in its jar or in  *)
(* a request or an answer of its contexts, however sign-ins, refreshes and *)
(* late answers cross (auth.service.ts:103-112,130-162).                   *)
Holds(d, jti) == jar[d] = jti \/ \E p \in Parts : req[<<d, p>>].jti = jti

OneSession ==
  stored # None =>
    \A d, e \in Devices : Holds(d, stored) /\ Holds(e, stored) => d = e

(* While an account does not have a role, or is disabled, no further       *)
(* context comes to be admitted with that role: only requests that had     *)
(* read the row before still bring a token (auth.service.ts:75-90,114-127).*)
VouchedFor(x, role) ==
  \/ Admitted(x, {role})
  \/ req[x].at \in {"issue", "answered"} /\ req[x].role = role

NobodyNew ==
  [][account' = account =>
       \A x \in Contexts, role \in Roles :
         VouchedFor(x, role)' => VouchedFor(x, role) \/ (account.active /\ account.role = role)]_vars
=============================================================================
