--------------------------- MODULE SessionProofs ---------------------------
(***************************************************************************)
(* Proofs about Session, for any number of browsers, contexts, ids of      *)
(* tokens and roles of the staff.                                          *)
(***************************************************************************)
EXTENDS Session, TLAPS

Places == {"idle", "get", "del", "hash", "user", "issue", "answered", "refused"}
SomeRole == Roles \cup {"none"}

(* A request moves on.                                                     *)
LEMMA Went ==
  ASSUME TypeOK, NEW x \in Contexts, NEW at \in Places, req' = [req EXCEPT ![x].at = at]
  PROVE  req' \in [Contexts -> Request]
<1>1. req[x] \in Request
  BY DEF TypeOK
<1>2. [req[x] EXCEPT !.at = at] \in Request
  BY <1>1 DEF Request, Places
<1>3. req' = [req EXCEPT ![x] = [req[x] EXCEPT !.at = at]]
  OBVIOUS
<1> QED BY <1>2, <1>3 DEF TypeOK

(* It moves on with the role of a row ...                                  *)
LEMMA WentWithRole ==
  ASSUME TypeOK, NEW x \in Contexts, NEW at \in Places, NEW role \in SomeRole,
         req' = [req EXCEPT ![x].at = at, ![x].role = role]
  PROVE  req' \in [Contexts -> Request]
<1> DEFINE moved == [req EXCEPT ![x].at = at]
<1>1. moved = [req EXCEPT ![x] = [req[x] EXCEPT !.at = at]]
  OBVIOUS
<1>2. req[x] \in Request
  BY DEF TypeOK
<1>3. [req[x] EXCEPT !.at = at] \in Request
  BY <1>2 DEF Request, Places
<1>4. moved \in [Contexts -> Request]
  BY <1>1, <1>3 DEF TypeOK
<1>5. req' = [moved EXCEPT ![x].role = role]
  OBVIOUS
<1> HIDE DEF moved
<1>6. moved[x] \in Request
  BY <1>4
<1>7. [moved[x] EXCEPT !.role = role] \in Request
  BY <1>6 DEF Request, SomeRole
<1>8. req' = [moved EXCEPT ![x] = [moved[x] EXCEPT !.role = role]]
  BY <1>5
<1> QED BY <1>4, <1>7, <1>8

(* ... or with a new id.                                                   *)
LEMMA WentWithJti ==
  ASSUME TypeOK, NEW x \in Contexts, NEW at \in Places, NEW jti \in Jti,
         req' = [req EXCEPT ![x].at = at, ![x].jti = jti]
  PROVE  req' \in [Contexts -> Request]
<1> DEFINE moved == [req EXCEPT ![x].at = at]
<1>1. moved = [req EXCEPT ![x] = [req[x] EXCEPT !.at = at]]
  OBVIOUS
<1>2. req[x] \in Request
  BY DEF TypeOK
<1>3. [req[x] EXCEPT !.at = at] \in Request
  BY <1>2 DEF Request, Places
<1>4. moved \in [Contexts -> Request]
  BY <1>1, <1>3 DEF TypeOK
<1>5. req' = [moved EXCEPT ![x].jti = jti]
  OBVIOUS
<1> HIDE DEF moved
<1>6. moved[x] \in Request
  BY <1>4
<1>7. [moved[x] EXCEPT !.jti = jti] \in Request
  BY <1>6 DEF Request
<1>8. req' = [moved EXCEPT ![x] = [moved[x] EXCEPT !.jti = jti]]
  BY <1>5
<1> QED BY <1>4, <1>7, <1>8

LEMMA NewRequest ==
  /\ NoRequest \in Request
  /\ \A at \in Places, kind \in {"none", "register", "login", "refresh"} :
       /\ [NoRequest EXCEPT !.at = at, !.kind = kind] \in Request
       /\ [NoRequest EXCEPT !.kind = kind, !.at = at] \in Request
<1>1. NoRequest \in Request
  BY DEF NoRequest, Request, Jti
<1>2. \A r \in Request, at \in Places : [r EXCEPT !.at = at] \in Request
  BY DEF Request, Places
<1>3. \A r \in Request, kind \in {"none", "register", "login", "refresh"} :
        [r EXCEPT !.kind = kind] \in Request
  BY DEF Request
<1> QED BY <1>1, <1>2, <1>3

LEMMA RefuseTyped ==
  ASSUME TypeOK, NEW x \in Contexts, Refuse(x)
  PROVE  req' \in [Contexts -> Request]
<1>1. req[x] \in Request
  BY DEF TypeOK
<1>2. req[x].kind \in {"none", "register", "login", "refresh"}
  BY <1>1 DEF Request
<1>3. [NoRequest EXCEPT !.at = "refused", !.kind = req[x].kind] \in Request
  BY <1>2, NewRequest DEF Places
<1> QED BY <1>3 DEF Refuse, TypeOK

LEMMA GiveUpTyped ==
  ASSUME TypeOK, NEW x \in Contexts, GiveUp(x)
  PROVE  TypeOK'
<1>1. NoToken \in Token /\ token[x] \in Token
  BY DEF TypeOK, NoToken, Token
<1>2. token' \in [Contexts -> Token]
  BY <1>1 DEF GiveUp, setAccessToken, TypeOK
<1> QED BY <1>2, NewRequest DEF GiveUp, TypeOK

-----------------------------------------------------------------------------
LEMMA BrowserKeepsType ==
  ASSUME TypeOK, NEW x \in Contexts,
         BeginLogin(x) \/ BeginRegister(x) \/ SendRefresh(x) \/ Logout(x) \/ TokenExpires(x)
  PROVE  TypeOK'
<1>1. CASE BeginLogin(x) \/ BeginRegister(x)
  <2>1. PICK kind \in {"register", "login"}, at \in {"user", "hash", "refused"} : Begin(x, kind, at)
    BY <1>1 DEF BeginLogin, BeginRegister
  <2>2. [NoRequest EXCEPT !.kind = kind, !.at = at] \in Request
    BY NewRequest DEF Places
  <2> QED BY <2>1, <2>2 DEF Begin, TypeOK
<1>2. CASE SendRefresh(x)
  <2>1. PICK at \in {"refused", "get"} :
          req' = [req EXCEPT ![x] = [at |-> at, kind |-> "refresh", jti |-> jar[x[1]], role |-> "none"]]
    BY <1>2 DEF SendRefresh
  <2>2. jar[x[1]] \in Jti
    BY DEF TypeOK, Contexts
  <2>3. [at |-> at, kind |-> "refresh", jti |-> jar[x[1]], role |-> "none"] \in Request
    BY <2>2 DEF Request
  <2> QED BY <1>2, <2>1, <2>3 DEF SendRefresh, TypeOK
<1>3. CASE Logout(x) \/ TokenExpires(x)
  <2>1. NoToken \in Token /\ [state |-> "expired", role |-> "none"] \in Token
    BY DEF NoToken, Token
  <2> QED BY <1>3, <2>1 DEF Logout, TokenExpires, setAccessToken, TypeOK
<1> QED BY <1>1, <1>2, <1>3

LEMMA ApiKeepsType ==
  ASSUME TypeOK, NEW x \in Contexts, ApiStep(x)
  PROVE  TypeOK'
<1>1. account \in Account /\ account.role \in SomeRole
  BY DEF TypeOK, Account, SomeRole
<1>2. CASE CreateUser(x)
  <2>1. account' \in Account
    <3>1. account' = account \/ account' = [role |-> "customer", active |-> TRUE]
      BY <1>2 DEF CreateUser
    <3>2. [role |-> "customer", active |-> TRUE] \in Account
      BY DEF Account, Roles
    <3> QED BY <1>1, <3>1, <3>2
  <2>2. req' \in [Contexts -> Request]
    <3>1. CASE account.role = "none"
      BY <1>2, <3>1, WentWithRole DEF CreateUser, Places, SomeRole, Roles
    <3>2. CASE account.role # "none"
      BY <1>2, <3>2, RefuseTyped DEF CreateUser
    <3> QED BY <3>1, <3>2
  <2> QED BY <1>2, <2>1, <2>2 DEF CreateUser, TypeOK
<1>3. CASE ReadStored(x)
  <2>1. req' \in [Contexts -> Request]
    BY <1>3, Went DEF ReadStored, Goto, Places
  <2> QED BY <1>3, <2>1 DEF ReadStored, TypeOK
<1>4. CASE Revoke(x)
  <2>1. req' \in [Contexts -> Request]
    BY <1>4, RefuseTyped DEF Revoke
  <2> QED BY <1>4, <2>1 DEF Revoke, TypeOK, Jti
<1>5. CASE ReadUser(x)
  <2>1. req' \in [Contexts -> Request]
    <3>1. CASE Active
      <4>1. req' = [req EXCEPT ![x].at = "issue", ![x].role = account.role]
        BY <1>5, <3>1 DEF ReadUser
      <4> QED BY <1>1, <4>1, WentWithRole DEF Places
    <3>2. CASE ~Active
      BY <1>5, <3>2, Went, RefuseTyped DEF ReadUser, Goto, Places
    <3> QED BY <3>1, <3>2
  <2> QED BY <1>5, <2>1 DEF ReadUser, TypeOK
<1>6. CASE Issue(x)
  <2> DEFINE jti == CHOOSE j \in Jtis \ InUse : TRUE
  <2>1. jti \in Jti
    BY <1>6 DEF Issue, Jti
  <2>2. stored' = jti /\ req' = [req EXCEPT ![x].at = "answered", ![x].jti = jti]
    BY <1>6 DEF Issue
  <2> HIDE DEF jti
  <2>3. req' \in [Contexts -> Request]
    BY <2>1, <2>2, WentWithJti DEF Places
  <2> QED BY <1>6, <2>1, <2>2, <2>3 DEF Issue, TypeOK
<1> QED BY <1>2, <1>3, <1>4, <1>5, <1>6 DEF ApiStep

LEMMA AnswerKeepsType ==
  ASSUME TypeOK, NEW x \in Contexts, AnswerStep(x)
  PROVE  TypeOK'
<1>1. CASE Receive(x)
  <2>1. req[x] \in Request
    BY DEF TypeOK
  <2>2. req[x].jti \in Jti /\ [state |-> "valid", role |-> req[x].role] \in Token
    BY <2>1 DEF Request, Token
  <2> QED BY <1>1, <2>2, NewRequest DEF Receive, respondWithTokens, setAccessToken, TypeOK
<1>2. CASE ReceiveRefusal(x) \/ Lose(x)
  BY <1>2, GiveUpTyped DEF ReceiveRefusal, Lose
<1> QED BY <1>1, <1>2 DEF AnswerStep

(* Every variable keeps its type.                                          *)
THEOREM SessionTyped == Spec => []TypeOK
<1>1. ASSUME Init PROVE TypeOK
  <2>1. NoToken \in Token
    BY DEF NoToken, Token
  <2> QED BY <1>1, <2>1, NewRequest DEF Init, TypeOK, Account, Jti
<1>2. ASSUME TypeOK, [Next]_vars PROVE TypeOK'
  <2>1. CASE \E x \in Contexts : BeginLogin(x) \/ BeginRegister(x) \/ SendRefresh(x) \/ Logout(x)
                                   \/ TokenExpires(x)
    BY <1>2, <2>1, BrowserKeepsType
  <2>2. CASE \E x \in Contexts : ApiStep(x) \/ AnswerStep(x)
    BY <1>2, <2>2, ApiKeepsType, AnswerKeepsType
  <2>3. CASE Administer
    <3>1. PICK role \in StaffRoles, active \in BOOLEAN :
            account' = [role |-> role, active |-> active] /\ UNCHANGED <<stored, jar, token, req>>
      BY <2>3 DEF Administer, CreateStaff, UpdateStaff
    <3>2. [role |-> role, active |-> active] \in Account
      BY DEF Account, Roles
    <3> QED BY <1>2, <3>1, <3>2 DEF TypeOK
  <2>4. CASE StoredExpires
    BY <1>2, <2>4 DEF StoredExpires, TypeOK, Jti
  <2>5. CASE \E d \in Devices : CookieExpires(d)
    BY <1>2, <2>5 DEF CookieExpires, TypeOK, Jti
  <2>6. CASE UNCHANGED vars
    BY <1>2, <2>6 DEF vars, TypeOK
  <2> QED BY <1>2, <2>1, <2>2, <2>3, <2>4, <2>5, <2>6 DEF Next, SignIn
<1> QED BY <1>1, <1>2, PTL DEF Spec

-----------------------------------------------------------------------------
(* Every id lies with one browser, the one that is current or not.         *)
OneHolder ==
  \A d, e \in Devices, jti \in Jtis : Holds(d, jti) /\ Holds(e, jti) => d = e

(* The request of one context is replaced.                                 *)
LEMMA Replaced ==
  ASSUME TypeOK, NEW x \in Contexts, NEW r, req' = [req EXCEPT ![x] = r]
  PROVE  /\ req'[x] = r
         /\ \A y \in Contexts : y # x => req'[y] = req[y]
BY DEF TypeOK

(* In a step that issues nothing, a browser comes to hold only what it     *)
(* held before, ...                                                        *)
LEMMA HoldsOwn ==
  ASSUME TypeOK, OneHolder,
         \A d \in Devices : jar'[d] \notin Jtis \/ Holds(d, jar'[d]),
         \A x \in Contexts : req'[x].jti \notin Jtis \/ Holds(x[1], req'[x].jti)
  PROVE  OneHolder'
<1>1. ASSUME NEW d \in Devices, NEW jti \in Jtis, Holds(d, jti)' PROVE Holds(d, jti)
  <2>1. CASE jar'[d] = jti
    BY <2>1
  <2>2. ASSUME NEW p \in Parts, req'[<<d, p>>].jti = jti PROVE Holds(d, jti)
    <3>1. <<d, p>> \in Contexts /\ <<d, p>>[1] = d
      BY DEF Contexts
    <3> QED BY <2>2, <3>1
  <2> QED BY <1>1, <2>1, <2>2 DEF Holds
<1> QED BY <1>1 DEF OneHolder

(* ... and a new id is with the browser that asked for it.                 *)
LEMMA HoldsNew ==
  ASSUME TypeOK, OneHolder, NEW x \in Contexts, Issue(x)
  PROVE  OneHolder'
<1> DEFINE new == CHOOSE j \in Jtis \ InUse : TRUE
<1>1. new \in Jtis \ InUse
  BY DEF Issue
<1>2. req' = [req EXCEPT ![x].at = "answered", ![x].jti = new] /\ jar' = jar
  BY DEF Issue
<1> HIDE DEF new
<1>3. /\ req'[x].jti = new
      /\ \A y \in Contexts : y # x => req'[y] = req[y]
  BY <1>2 DEF TypeOK, Request
<1>4. \A d \in Devices : ~Holds(d, new)
  BY <1>1 DEF Holds, InUse, Contexts
<1>5. ASSUME NEW d \in Devices, NEW jti \in Jtis, Holds(d, jti)'
      PROVE  Holds(d, jti) \/ (jti = new /\ d = x[1])
  <2>1. CASE jar'[d] = jti
    BY <1>2, <2>1 DEF Holds
  <2>2. ASSUME NEW p \in Parts, req'[<<d, p>>].jti = jti
        PROVE  Holds(d, jti) \/ (jti = new /\ d = x[1])
    <3>1. <<d, p>> \in Contexts
      BY DEF Contexts
    <3>2. CASE <<d, p>> = x
      BY <1>3, <2>2, <3>2
    <3>3. CASE <<d, p>> # x
      BY <1>3, <2>2, <3>1, <3>3 DEF Holds
    <3> QED BY <3>2, <3>3
  <2> QED BY <1>5, <2>1, <2>2 DEF Holds
<1> QED BY <1>4, <1>5 DEF OneHolder

LEMMA HolderKept ==
  ASSUME TypeOK, OneHolder, [Next]_vars
  PROVE  OneHolder'
<1>1. \A x \in Contexts : x[1] \in Devices /\ Holds(x[1], jar[x[1]]) /\ Holds(x[1], req[x].jti)
  BY DEF Contexts, Holds
<1>2. \A d \in Devices : Holds(d, jar[d])
  BY DEF Holds
<1>3. None \notin Jtis
  BY NoneAssumption
<1>4. CASE UNCHANGED <<jar, req>>
  BY <1>1, <1>2, <1>4, HoldsOwn
<1>5. ASSUME NEW x \in Contexts, NEW r, req' = [req EXCEPT ![x] = r], UNCHANGED jar,
             r.jti = None \/ r.jti = jar[x[1]] \/ r.jti = req[x].jti
      PROVE  OneHolder'
  <2>1. \A y \in Contexts : req'[y].jti \notin Jtis \/ Holds(y[1], req'[y].jti)
    BY <1>1, <1>3, <1>5, Replaced
  <2> QED BY <1>2, <1>5, <2>1, HoldsOwn
<1>6. ASSUME NEW x \in Contexts, BeginLogin(x) \/ BeginRegister(x) PROVE OneHolder'
  <2>1. PICK kind, at : Begin(x, kind, at)
    BY <1>6 DEF BeginLogin, BeginRegister
  <2>2. [NoRequest EXCEPT !.kind = kind, !.at = at].jti = None
    BY DEF NoRequest
  <2> QED BY <1>5, <2>1, <2>2 DEF Begin
<1>7. ASSUME NEW x \in Contexts, SendRefresh(x) PROVE OneHolder'
  <2> DEFINE r == [ at |-> IF jar[x[1]] = None THEN "refused" ELSE "get",
                    kind |-> "refresh", jti |-> jar[x[1]], role |-> "none" ]
  <2>1. r.jti = jar[x[1]] /\ req' = [req EXCEPT ![x] = r] /\ UNCHANGED jar
    BY <1>7 DEF SendRefresh
  <2> HIDE DEF r
  <2> QED BY <1>5, <2>1
<1>8. ASSUME NEW x \in Contexts, Refuse(x), UNCHANGED jar PROVE OneHolder'
  <2>1. [NoRequest EXCEPT !.at = "refused", !.kind = req[x].kind].jti = None
    BY DEF NoRequest
  <2> QED BY <1>5, <1>8, <2>1 DEF Refuse
<1>9. ASSUME NEW x \in Contexts, NEW at, Goto(x, at), UNCHANGED jar PROVE OneHolder'
  <2>1. req' = [req EXCEPT ![x] = [req[x] EXCEPT !.at = at]]
    BY <1>9 DEF Goto
  <2>2. [req[x] EXCEPT !.at = at].jti = req[x].jti
    BY DEF TypeOK, Request
  <2> QED BY <1>5, <1>9, <2>1, <2>2
<1>10. ASSUME NEW x \in Contexts, NEW role, UNCHANGED jar,
              req' = [req EXCEPT ![x].at = "issue", ![x].role = role]
       PROVE  OneHolder'
  <2>1. /\ req'[x].jti = req[x].jti
        /\ \A y \in Contexts : y # x => req'[y] = req[y]
    BY <1>10 DEF TypeOK, Request
  <2>2. \A y \in Contexts : req'[y].jti \notin Jtis \/ Holds(y[1], req'[y].jti)
    BY <1>1, <2>1
  <2> QED BY <1>2, <1>10, <2>2, HoldsOwn
<1>11. ASSUME NEW x \in Contexts, ApiStep(x) PROVE OneHolder'
  <2>1. CASE CreateUser(x)
    BY <1>8, <1>10, <2>1 DEF CreateUser
  <2>2. CASE ReadStored(x)
    BY <1>9, <2>2 DEF ReadStored
  <2>3. CASE Revoke(x)
    BY <1>8, <2>3 DEF Revoke
  <2>4. CASE ReadUser(x)
    BY <1>8, <1>9, <1>10, <2>4 DEF ReadUser
  <2> QED BY <1>11, <2>1, <2>2, <2>3, <2>4, HoldsNew DEF ApiStep
<1>12. ASSUME NEW x \in Contexts, GiveUp(x) PROVE OneHolder'
  <2>1. NoRequest.jti = None
    BY DEF NoRequest
  <2> QED BY <1>5, <1>12, <2>1 DEF GiveUp
<1>13. ASSUME NEW x \in Contexts, Receive(x) PROVE OneHolder'
  <2>1. /\ jar' = [jar EXCEPT ![x[1]] = req[x].jti]
        /\ req' = [req EXCEPT ![x] = NoRequest] /\ NoRequest.jti = None
    BY <1>13 DEF Receive, respondWithTokens, NoRequest
  <2>2. \A d \in Devices : Holds(d, jar'[d])
    BY <1>1, <1>2, <2>1 DEF TypeOK
  <2>3. \A y \in Contexts : req'[y].jti \notin Jtis \/ Holds(y[1], req'[y].jti)
    BY <1>1, <1>3, <2>1, Replaced
  <2> QED BY <2>2, <2>3, HoldsOwn
<1>14. ASSUME NEW d \in Devices, CookieExpires(d) PROVE OneHolder'
  <2>1. \A e \in Devices : jar'[e] \notin Jtis \/ Holds(e, jar'[e])
    BY <1>2, <1>3, <1>14 DEF CookieExpires, TypeOK
  <2>2. UNCHANGED req
    BY <1>14 DEF CookieExpires
  <2> QED BY <1>1, <2>1, <2>2, HoldsOwn
<1> QED
  BY <1>4, <1>6, <1>7, <1>11, <1>12, <1>13, <1>14
  DEF Next, SignIn, Administer, CreateStaff, UpdateStaff, StoredExpires, Logout, TokenExpires,
      AnswerStep, ReceiveRefusal, Lose, vars

(* The id that the API would accept is with one browser at a time, however *)
(* sign-ins, refreshes and late answers cross, for any number of browsers  *)
(* and contexts: the rotation leaves one session (auth.service.ts:103-162).*)
THEOREM OneSessionAlways == Spec => []OneSession
<1>1. Init => OneHolder
  <2>1. Init => \A x \in Contexts : req[x].jti = None
    BY DEF Init, NoRequest
  <2>2. Init => \A d \in Devices : jar[d] = None
    BY DEF Init
  <2> QED BY <2>1, <2>2, NoneAssumption DEF OneHolder, Holds, Contexts
<1>2. TypeOK /\ OneHolder /\ [Next]_vars => OneHolder'
  BY HolderKept
<1>3. TypeOK /\ OneHolder => OneSession
  BY DEF TypeOK, OneHolder, OneSession, Jti
<1> QED BY <1>1, <1>2, <1>3, SessionTyped, PTL DEF Spec

-----------------------------------------------------------------------------
(* An account that lost a role, or was disabled, admits no further context *)
(* with it, whatever refresh or sign-in is under way: a request is vouched *)
(* for only by the row it reads (auth.service.ts:75-90,114-127).           *)
THEOREM NobodyAdmittedAnew == Spec => NobodyNew
<1> DEFINE Same(x) == token'[x] = token[x] /\ req'[x] = req[x]
<1>1. ASSUME TypeOK, [Next]_vars, account' = account,
             NEW x \in Contexts, NEW role \in Roles, VouchedFor(x, role)'
      PROVE  VouchedFor(x, role) \/ (account.active /\ account.role = role)
  <2>1. CASE Same(x)
    BY <1>1, <2>1 DEF VouchedFor, Admitted, Verified
  <2>2. CASE BeginLogin(x) \/ BeginRegister(x)
    <3>1. PICK kind, at : Begin(x, kind, at) /\ at \in {"user", "hash", "refused"}
      BY <2>2 DEF BeginLogin, BeginRegister
    <3>2. token'[x] = token[x] /\ req'[x].at \in {"user", "hash", "refused"}
      BY <1>1, <3>1 DEF Begin, NoRequest, TypeOK
    <3> QED BY <1>1, <3>2 DEF VouchedFor, Admitted, Verified
  <2>3. CASE SendRefresh(x)
    <3>1. token'[x] = token[x] /\ req'[x].at \in {"get", "refused"}
      BY <1>1, <2>3 DEF SendRefresh, TypeOK
    <3> QED BY <1>1, <3>1 DEF VouchedFor, Admitted, Verified
  <2>4. CASE Logout(x) \/ TokenExpires(x)
    <3>1. token'[x].state \in {"none", "expired"} /\ req' = req
      BY <1>1, <2>4 DEF Logout, TokenExpires, setAccessToken, NoToken, TypeOK
    <3> QED BY <1>1, <3>1 DEF VouchedFor, Admitted, Verified
  <2>5. CASE Receive(x)
    <3>1. /\ req[x].at = "answered" /\ req'[x] = NoRequest
          /\ token'[x] = [state |-> "valid", role |-> req[x].role]
      BY <1>1, <2>5 DEF Receive, setAccessToken, TypeOK
    <3>2. NoRequest.at = "idle"
      BY DEF NoRequest
    <3>3. token'[x].role = role
      BY <1>1, <3>1, <3>2 DEF VouchedFor, Admitted, Verified
    <3> QED BY <3>1, <3>3 DEF VouchedFor
  <2>6. CASE GiveUp(x)
    <3>1. /\ req'[x] = NoRequest /\ NoRequest.at = "idle"
          /\ token'[x] = NoToken \/ token'[x] = token[x]
      BY <1>1, <2>6 DEF GiveUp, setAccessToken, NoRequest, TypeOK
    <3> QED BY <1>1, <3>1 DEF VouchedFor, Admitted, Verified, NoToken
  <2>7. CASE CreateUser(x)
    <3>1. account.role # "none"
      BY <1>1, <2>7, RoleAssumption DEF CreateUser, Roles
    <3>2. req'[x].at = "refused" /\ token' = token
      BY <1>1, <2>7, <3>1 DEF CreateUser, Refuse, NoRequest, TypeOK
    <3> QED BY <1>1, <3>2 DEF VouchedFor, Admitted, Verified
  <2>8. CASE ReadStored(x) \/ Revoke(x)
    <3>1. req'[x].at \in {"user", "del", "refused"} /\ token' = token
      BY <1>1, <2>8 DEF ReadStored, Revoke, Goto, Refuse, NoRequest, TypeOK, Request
    <3> QED BY <1>1, <3>1 DEF VouchedFor, Admitted, Verified
  <2>9. CASE ReadUser(x)
    <3>1. CASE Active
      <4>1. req'[x].at = "issue" /\ req'[x].role = account.role /\ token' = token
        BY <1>1, <2>9, <3>1 DEF ReadUser, TypeOK, Request
      <4> QED BY <1>1, <3>1, <4>1 DEF Active, VouchedFor, Admitted, Verified
    <3>2. CASE ~Active
      <4>1. req'[x].at \in {"del", "refused"} /\ token' = token
        BY <1>1, <2>9, <3>2 DEF ReadUser, Goto, Refuse, NoRequest, TypeOK, Request
      <4> QED BY <1>1, <4>1 DEF VouchedFor, Admitted, Verified
    <3> QED BY <3>1, <3>2
  <2>10. CASE Issue(x)
    <3>1. /\ req[x].at = "issue" /\ req'[x].at = "answered"
          /\ req'[x].role = req[x].role /\ token' = token
      BY <1>1, <2>10 DEF Issue, TypeOK, Request
    <3> QED BY <1>1, <3>1 DEF VouchedFor, Admitted, Verified
  <2>11. \/ Same(x)
         \/ BeginLogin(x) \/ BeginRegister(x) \/ SendRefresh(x) \/ Logout(x) \/ TokenExpires(x)
         \/ Receive(x) \/ GiveUp(x) \/ CreateUser(x) \/ ReadStored(x) \/ Revoke(x)
         \/ ReadUser(x) \/ Issue(x)
    <3>1. ASSUME NEW y \in Contexts, y # x,
                 \/ BeginLogin(y) \/ BeginRegister(y) \/ SendRefresh(y) \/ Logout(y)
                 \/ TokenExpires(y) \/ ApiStep(y) \/ Receive(y) \/ GiveUp(y)
          PROVE  Same(x)
      BY <1>1, <3>1
      DEF BeginLogin, BeginRegister, Begin, SendRefresh, Logout, TokenExpires, ApiStep, CreateUser,
          ReadStored, Revoke, ReadUser, Issue, Receive, GiveUp, setAccessToken, Goto, Refuse, TypeOK
    <3>2. CASE Administer \/ StoredExpires \/ (\E d \in Devices : CookieExpires(d)) \/ UNCHANGED vars
      BY <3>2 DEF Administer, CreateStaff, UpdateStaff, StoredExpires, CookieExpires, vars
    <3> QED BY <1>1, <3>1, <3>2 DEF Next, SignIn, ApiStep, AnswerStep, ReceiveRefusal, Lose
  <2> QED BY <2>1, <2>2, <2>3, <2>4, <2>5, <2>6, <2>7, <2>8, <2>9, <2>10, <2>11
<1>2. TypeOK /\ [Next]_vars
        => (account' = account =>
              \A x \in Contexts, role \in Roles :
                VouchedFor(x, role)' =>
                  VouchedFor(x, role) \/ (account.active /\ account.role = role))
  BY <1>1
<1> QED BY <1>2, SessionTyped, PTL DEF Spec, NobodyNew
=============================================================================
