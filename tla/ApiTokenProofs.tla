---------------------------- MODULE ApiTokenProofs ----------------------------
(* Proofs about ApiToken: the types, that a refresh token is never ahead of    *)
(* the access token beside it, and that the stored pair is the latest one.     *)
(* The argument: between a grant and the last write of its pair a run is the   *)
(* only one that writes, for every other one was shown something older, which  *)
(* the server refuses.                                                         *)
EXTENDS ApiToken, FiniteSetTheorems, TLAPS

Access  == ApiAuthByName("access_token")
Refresh == ApiAuthByName("refresh_token")

Writing(p) == pc[p] \in {"update_access", "update_refresh", "delete_access",
                         "delete_refresh", "insert_access", "insert_refresh"}

(* A run that holds a pair which is not in the table yet.                      *)
OnlyWriter(p) ==
    /\ acs[p] = [name |-> "access_token", value |-> granted]
    /\ rfs[p] = [name |-> "refresh_token", value |-> granted]
    /\ redeemed = code
    /\ \A r \in Refresh : r.value < granted
    /\ \A q \in Run \ {p} : ~Writing(q) /\ rfs[q].value < granted

GrantInv ==
    /\ \A r \in Refresh : r.value <= granted /\ (r.live => redeemed = code)
    /\ \A p \in Run : rfs[p].value <= granted /\ (pc[p] = "refresh" => redeemed = code)
    /\ \A p \in Run : Writing(p) => OnlyWriter(p)

OrderInv ==
    /\ Access # {} => \A r \in Refresh : \E a \in Access : a.value >= r.value
    /\ \A p \in Run :
          /\ pc[p] = "update_refresh" => \A a \in Access : a.value = granted
          /\ pc[p] = "insert_refresh" => \E a \in Access : a.value = granted

WholeInv == "answer" \notin happened => GrantInv /\ OrderInv

OneRefresh == \E r \in Refresh : Refresh = {r}

(* The table while nobody writes.                                              *)
Settled ==
    \/ granted = 0 /\ Access = {} /\ Refresh = {}
    \/ /\ granted > 0
       /\ Access # {} /\ \A a \in Access : a.value = granted
       /\ OneRefresh /\ \A r \in Refresh : r.value = granted

(* The table in the middle of a run's writes.                                  *)
Halfway(p) ==
    /\ granted > 0
    /\ pc[p] = "update_access" => Access # {} /\ OneRefresh
    /\ pc[p] = "update_refresh" =>
          /\ Access # {} /\ \A a \in Access : a.value = granted
          /\ OneRefresh
    /\ pc[p] \in {"delete_refresh", "insert_access"} => Access = {}
    /\ pc[p] \in {"insert_access", "insert_refresh"} => Refresh = {}
    /\ pc[p] = "insert_refresh" => Access # {} /\ \A a \in Access : a.value = granted

CleanInv ==
    happened = {} =>
        /\ \A p \in Run : pc[p] = "refresh" => granted > 0
        /\ (\A p \in Run : ~Writing(p)) => Settled
        /\ \A p \in Run : Writing(p) => Halfway(p)

----------------------------------------------------------------------------
(* The statements on API_AUTH *)

(* An UPDATE keeps the rows of other names and gives those of its own name the *)
(* value; without hours to add a row that is live was live before.             *)
LEMMA UpdateRows ==
    ASSUME api_auth \subseteq ApiRow, NEW a \in Auth, NEW h \in Nat, UpdateApiAuth(a, h)
    PROVE  /\ api_auth' \subseteq ApiRow
           /\ \A n : n # a.name => ApiAuthByName(n)' = ApiAuthByName(n)
           /\ \A r \in ApiAuthByName(a.name)' :
                 /\ r.value = a.value
                 /\ h = 0 /\ r.live => \E o \in ApiAuthByName(a.name) : o.live
           /\ \A o : ApiAuthByName(a.name) = {o} => \E r : ApiAuthByName(a.name)' = {r}
           /\ ApiAuthByName(a.name) # {} => ApiAuthByName(a.name)' # {}
<1> DEFINE New(r) == [r EXCEPT !.value = a.value, !.live = IF h > 0 THEN TRUE ELSE @]
<1>1. api_auth' = {r \in api_auth : r.name # a.name} \cup {New(r) : r \in ApiAuthByName(a.name)}
  BY DEF UpdateApiAuth
<1>2. ASSUME NEW r \in ApiAuthByName(a.name)
      PROVE  /\ New(r) \in ApiRow /\ New(r).name = a.name /\ New(r).value = a.value
             /\ h = 0 /\ New(r).live => r.live
  <2>1. r \in ApiRow /\ r.name = a.name /\ a.value \in Nat
    BY DEF ApiAuthByName, Auth
  <2>2. r.live \in BOOLEAN
    BY <2>1 DEF ApiRow
  <2>3. CASE h > 0
    <3> DEFINE n == New(r)
    <3>1. n = [r EXCEPT !.value = a.value, !.live = TRUE]
      BY <2>3, Zenon
    <3>2. h # 0
      BY <2>3
    <3> HIDE DEF n
    <3>3. n \in ApiRow /\ n.name = r.name /\ n.value = a.value
      BY <2>1, <3>1 DEF ApiRow
    <3>4. QED
      BY <2>1, <3>2, <3>3 DEF n
  <2>4. CASE ~(h > 0)
    <3> DEFINE n == New(r)
    <3>1. n = [r EXCEPT !.value = a.value, !.live = r.live]
      BY <2>4, Zenon
    <3> HIDE DEF n
    <3>2. n \in ApiRow /\ n.name = r.name /\ n.value = a.value /\ (n.live => r.live)
      BY <2>1, <2>2, <3>1 DEF ApiRow
    <3>3. QED
      BY <2>1, <3>2 DEF n
  <2>5. QED
    BY <2>3, <2>4
<1>3. api_auth' \subseteq ApiRow
  BY <1>1, <1>2
<1> HIDE DEF New
<1>4. ApiAuthByName(a.name)' = {New(r) : r \in ApiAuthByName(a.name)}
  BY <1>1, <1>2 DEF ApiAuthByName
<1>5. ASSUME NEW n, n # a.name PROVE ApiAuthByName(n)' = ApiAuthByName(n)
  BY <1>1, <1>2, <1>5 DEF ApiAuthByName
<1>6. \A o : ApiAuthByName(a.name) = {o} => ApiAuthByName(a.name)' = {New(o)}
  BY <1>4
<1>7. \A r \in ApiAuthByName(a.name)' :
         r.value = a.value /\ (h = 0 /\ r.live => \E o \in ApiAuthByName(a.name) : o.live)
  BY <1>2, <1>4
<1>8. ApiAuthByName(a.name) # {} => ApiAuthByName(a.name)' # {}
  BY <1>4
<1>9. \A o : ApiAuthByName(a.name) = {o} => \E r : ApiAuthByName(a.name)' = {r}
  BY <1>6
<1>10. QED
  BY <1>3, <1>5, <1>7, <1>8, <1>9

(* An INSERT adds one live row.                                                *)
LEMMA InsertRows ==
    ASSUME api_auth \subseteq ApiRow, NEW a \in Auth, InsertApiAuth(a)
    PROVE  /\ api_auth' \subseteq ApiRow
           /\ \A n : n # a.name => ApiAuthByName(n)' = ApiAuthByName(n)
           /\ ApiAuthByName(a.name)' =
                 ApiAuthByName(a.name) \cup {[name |-> a.name, value |-> a.value, live |-> TRUE]}
<1> DEFINE new == [name |-> a.name, value |-> a.value, live |-> TRUE]
<1>1. new \in ApiRow /\ new.name = a.name
  BY DEF ApiRow, Auth
<1>2. api_auth' = api_auth \cup {new}
  BY DEF InsertApiAuth
<1> HIDE DEF new
<1>3. /\ \A n : n # a.name => ApiAuthByName(n)' = ApiAuthByName(n)
      /\ ApiAuthByName(a.name)' = ApiAuthByName(a.name) \cup {new}
  BY <1>1, <1>2 DEF ApiAuthByName
<1>4. QED
  BY <1>1, <1>2, <1>3 DEF new

----------------------------------------------------------------------------
(* Types *)

(* What a SELECT makes of a row.                                               *)
LEMMA RowAuth ==
    ASSUME NEW r \in ApiRow
    PROVE  /\ [name |-> r.name, value |-> r.value] \in Auth
           /\ r.name \in Name /\ r.value \in Nat
BY DEF ApiRow, Auth

(* A record of a name and a number is an Auth.                                 *)
LEMMA AuthType == \A n \in Name, v \in Nat : [name |-> n, value |-> v] \in Auth
BY DEF Auth

(* The counters of the server are numbers.                                     *)
LEMMA GrantedNat == TokenTypeOK => granted \in Nat /\ granted + 1 \in Nat /\ code \in Nat /\ redeemed \in Nat
BY ApiTokenAssumption DEF TokenTypeOK

(* So is the empty record.                                                     *)
LEMMA NoAuthType == NoAuth \in Auth
BY DEF NoAuth, Auth, Name

(* The first state is typed.                                                   *)
LEMMA TokenTypeInit == TokenInit => TokenTypeOK
<1> SUFFICES ASSUME TokenInit PROVE TokenTypeOK
  OBVIOUS
<1>1. acs \in [Run -> Auth] /\ rfs \in [Run -> Auth]
  BY NoAuthType DEF TokenInit
<1>2. pc \in [Run -> TokenPc] /\ cod \in [Run -> Nat] /\ \A p \in Run : pc[p] = "idle"
  BY DEF TokenInit, TokenPc
<1>3. granted \in 0 .. MaxGrant /\ code \in 0 .. MaxCode /\ redeemed \in 0 .. code
  BY ApiTokenAssumption DEF TokenInit
<1>4. QED
  BY <1>1, <1>2, <1>3 DEF TokenInit, TokenTypeOK

(* A run that ends leaves typed records.                                       *)
LEMMA EndKeepsType ==
    ASSUME TokenTypeOK, NEW p \in Run, End(p), api_auth' \subseteq ApiRow, UNCHANGED code,
           granted' \in 0 .. MaxGrant, redeemed' \in 0 .. code, happened' \subseteq FaultKinds
    PROVE  TokenTypeOK'
<1>1. acs' \in [Run -> Auth] /\ rfs' \in [Run -> Auth]
  BY NoAuthType DEF TokenTypeOK, End
<1>2. pc' \in [Run -> TokenPc] /\ cod' \in [Run -> Nat]
  BY DEF TokenTypeOK, End, Goto, TokenPc
<1>3. pc'[p] = "idle" /\ \A q \in Run \ {p} : pc'[q] = pc[q] /\ acs'[q] = acs[q] /\ rfs'[q] = rfs[q]
  BY DEF TokenTypeOK, End, Goto
<1>4. QED
  BY <1>1, <1>2, <1>3 DEF TokenTypeOK

(* Every step keeps the types.                                                 *)
LEMMA TokenTypeNext == TokenTypeOK /\ [TokenNext]_tokenVars => TokenTypeOK'
<1> SUFFICES ASSUME TokenTypeOK, [TokenNext]_tokenVars PROVE TokenTypeOK'
  OBVIOUS
<1> USE DEF serverVars
<1>1. CASE NewCode
  <2>1. code' \in 0 .. MaxCode /\ redeemed' \in 0 .. code' /\ code + 1 \in Nat
    BY <1>1, ApiTokenAssumption DEF NewCode, TokenTypeOK
  <2>2. [name |-> "auth_code", value |-> code + 1, live |-> TRUE] \in ApiRow
    BY <2>1 DEF ApiRow, Name
  <2>3. api_auth' \subseteq ApiRow
    BY <1>1, <2>2 DEF NewCode, TokenTypeOK
  <2>4. QED
    BY <1>1, <2>1, <2>3 DEF NewCode, TokenTypeOK
<1>2. CASE Expire
  BY <1>2 DEF Expire, TokenTypeOK, ApiRow, ApiAuthByName
<1>3. ASSUME NEW p \in Run, RunStep(p) PROVE TokenTypeOK'
  <2>1. CASE SelectCode(p)
    BY <2>1 DEF SelectCode, Goto, TokenTypeOK, TokenPc, ApiRow, ApiAuthByName
  <2>2. CASE SelectAccess(p)
    <3>1. acs' \in [Run -> Auth] /\ \A q \in Run : acs'[q] = acs[q] \/ (q = p /\ acs'[q].name = "access_token")
      BY <2>2, RowAuth DEF SelectAccess, TokenTypeOK, ApiAuthByName
    <3>2. pc' \in [Run -> TokenPc]
      BY <2>2 DEF SelectAccess, Goto, TokenTypeOK, TokenPc
    <3>3. \A q \in Run : pc'[q] = pc[q] \/ (q = p /\ pc'[q] = "issue")
                          \/ (q = p /\ pc'[q] = "refresh_row" /\ acs'[q].name = "access_token")
      BY <2>2, RowAuth DEF SelectAccess, Goto, TokenTypeOK, ApiAuthByName
    <3>4. \A q \in Run : acs'[q] = acs[q] \/ acs'[q].name = "access_token"
      BY <3>1
    <3>5. QED
      BY <2>2, <3>1, <3>2, <3>3, <3>4 DEF SelectAccess, TokenTypeOK
  <2>3. CASE SelectRefresh(p)
    <3>1. rfs' \in [Run -> Auth] /\ \A q \in Run : rfs'[q] = rfs[q] \/ rfs'[q].name = "refresh_token"
      BY <2>3, RowAuth DEF SelectRefresh, TokenTypeOK, ApiAuthByName
    <3>2. pc' \in [Run -> TokenPc]
      BY <2>3 DEF SelectRefresh, Goto, TokenTypeOK, TokenPc
    <3>3. \A q \in Run : pc'[q] = pc[q] \/ (q = p /\ pc'[q] = "issue")
                          \/ (q = p /\ pc'[q] = "refresh" /\ rfs'[q].name = "refresh_token")
      BY <2>3, RowAuth DEF SelectRefresh, Goto, TokenTypeOK, ApiAuthByName
    <3>4. pc[p] = "refresh_row"
      BY <2>3 DEF SelectRefresh
    <3>5. QED
      BY <2>3, <3>1, <3>2, <3>3, <3>4 DEF SelectRefresh, TokenTypeOK
  <2>4. CASE RefreshAccessToken(p) \/ IssueAccessToken(p)
    <3>1. PICK fields \in AnswerFields : Answer(p, fields)
      BY <2>4 DEF RefreshAccessToken, IssueAccessToken
    <3>a. granted < MaxGrant /\ redeemed' \in {redeemed, code} /\ UNCHANGED <<api_auth, code, cod>>
      BY <2>4 DEF RefreshAccessToken, IssueAccessToken, Refreshable, Redeemable
    <3>b. granted' \in {granted, granted + 1} /\ happened' \subseteq FaultKinds
      BY <3>1 DEF Answer, Fault, TokenTypeOK
    <3>2. granted' \in 0 .. MaxGrant /\ redeemed' \in 0 .. code
      BY <3>a, <3>b, ApiTokenAssumption DEF TokenTypeOK
    <3>3. /\ acs' \in [Run -> Auth]
          /\ \A q \in Run : acs'[q] = acs[q] \/ acs'[q].name = "access_token"
      <4>1. [name |-> "access_token", value |-> granted + 1] \in Auth
        BY GrantedNat, AuthType DEF Name
      <4>2. QED
        BY <3>1, <4>1 DEF Answer, TokenTypeOK
    <3>4. /\ rfs' \in [Run -> Auth]
          /\ \A q \in Run : rfs'[q] = rfs[q] \/ rfs'[q].name = "refresh_token"
      <4>1. [name |-> "refresh_token", value |-> granted + 1] \in Auth
        BY GrantedNat, AuthType DEF Name
      <4>2. QED
        BY <3>1, <4>1 DEF Answer, TokenTypeOK
    <3>5. /\ pc' \in [Run -> TokenPc]
          /\ \A q \in Run : pc'[q] = pc[q] \/ (q = p /\ pc'[q] = "delete_access")
                              \/ (q = p /\ pc[p] = "refresh" /\ pc'[q] = "update_access")
      BY <2>4 DEF RefreshAccessToken, IssueAccessToken, Goto, TokenTypeOK, TokenPc
    <3>6. QED
      BY <3>a, <3>b, <3>2, <3>3, <3>4, <3>5 DEF TokenTypeOK
  <2>5. CASE \/ ExpireTimeUnreadable(p) \/ Refused(p) \/ AnswerLost(p)
             \/ InsertRejected(p) \/ RunFails(p)
    <3>1. /\ End(p) /\ UNCHANGED code /\ api_auth' \subseteq ApiRow
          /\ granted' \in 0 .. MaxGrant /\ redeemed' \in 0 .. code /\ happened' \subseteq FaultKinds
      BY <2>5, ApiTokenAssumption DEF ExpireTimeUnreadable, Refused, AnswerLost, InsertRejected,
                  RunFails, Refreshable, Redeemable, Fault, TokenTypeOK
    <3>2. QED
      BY <3>1, EndKeepsType
  <2>6. CASE UpdateAccess(p)
    <3>1. api_auth' \subseteq ApiRow
      BY <2>6, UpdateRows DEF UpdateAccess, TokenTypeOK
    <3>2. QED
      BY <2>6, <3>1 DEF UpdateAccess, Goto, TokenTypeOK, TokenPc
  <2>7. CASE DeleteAccess(p) \/ DeleteRefresh(p)
    BY <2>7 DEF DeleteAccess, DeleteRefresh, DeleteApiAuthByName, Fault, Goto, TokenTypeOK, TokenPc
  <2>8. CASE InsertAccess(p)
    <3>1. api_auth' \subseteq ApiRow
      BY <2>8, InsertRows DEF InsertAccess, TokenTypeOK
    <3>2. QED
      BY <2>8, <3>1 DEF InsertAccess, Goto, TokenTypeOK, TokenPc
  <2>10. CASE UpdateRefresh(p) \/ InsertRefresh(p)
    <3>1. End(p) /\ UNCHANGED <<serverVars, happened>>
      BY <2>10 DEF UpdateRefresh, InsertRefresh
    <3>2. api_auth' \subseteq ApiRow
      BY <2>10, UpdateRows, InsertRows DEF UpdateRefresh, InsertRefresh, TokenTypeOK
    <3>3. QED
      BY <3>1, <3>2, EndKeepsType DEF TokenTypeOK
  <2>9. QED
    BY <1>3, <2>1, <2>2, <2>3, <2>4, <2>5, <2>6, <2>7, <2>8, <2>10 DEF RunStep
<1>4. CASE UNCHANGED tokenVars
  BY <1>4 DEF tokenVars, TokenTypeOK
<1>5. QED
  BY <1>1, <1>2, <1>3, <1>4 DEF TokenNext

(* Every variable keeps its type, and the records a control point uses have    *)
(* been filled: TokenTypeOK holds for any number of runs, grants and codes.    *)
THEOREM TokenTypeCorrect == TokenSpec => []TokenTypeOK
<1>1. TokenInit => TokenTypeOK
  BY TokenTypeInit
<1>2. TokenTypeOK /\ [TokenNext]_tokenVars => TokenTypeOK'
  BY TokenTypeNext
<1>3. QED
  BY <1>1, <1>2, PTL DEF TokenSpec

----------------------------------------------------------------------------
(* The steps, as far as the invariants tell them apart *)

(* A step of a run leaves the records of the others alone.                     *)
OthersKeep(p) ==
    \A q \in Run \ {p} : pc'[q] = pc[q] /\ acs'[q] = acs[q] /\ rfs'[q] = rfs[q]

SameRows == Access' = Access /\ Refresh' = Refresh

(* A run that reads or stops: it writes nothing and holds nothing new.         *)
QuietStep(p) ==
    /\ SameRows /\ UNCHANGED <<granted, code, redeemed>>
    /\ OthersKeep(p)
    /\ ~Writing(p)' /\ pc'[p] # "refresh" /\ rfs'[p] \in {rfs[p], NoAuth}

(* A run that carries out one of its writes.                                   *)
WriteStep(p) ==
    /\ Writing(p) /\ UNCHANGED <<granted, code, redeemed>>
    /\ OthersKeep(p)
    /\ Writing(p)' => acs'[p] = acs[p]
    /\ pc'[p] # "refresh" /\ rfs'[p] \in {rfs[p], NoAuth}
    /\ Writing(p)' => rfs'[p] = rfs[p]

(* Goto moves one run only.                                                    *)
LEMMA GotoKeeps ==
    ASSUME TokenTypeOK, NEW p \in Run, NEW next, Goto(p, next)
    PROVE  pc'[p] = next /\ \A q \in Run \ {p} : pc'[q] = pc[q]
BY DEF TokenTypeOK, Goto

(* The end of a run empties its records and no other run's.                    *)
LEMMA EndKeeps ==
    ASSUME TokenTypeOK, NEW p \in Run, End(p)
    PROVE  pc'[p] = "idle" /\ rfs'[p] = NoAuth /\ OthersKeep(p)
BY DEF TokenTypeOK, End, Goto, OthersKeep

(* The steps that write no token row are quiet.                                *)
LEMMA QuietSteps ==
    ASSUME TokenTypeOK, NEW p \in Run,
           \/ SelectCode(p) \/ SelectAccess(p) \/ ExpireTimeUnreadable(p)
           \/ Refused(p) \/ InsertRejected(p) \/ RunFails(p)
    PROVE  QuietStep(p)
<1> USE DEF serverVars
<1>1. SameRows /\ UNCHANGED <<granted, code, redeemed>>
  BY DEF SelectCode, SelectAccess, ExpireTimeUnreadable, Refused, InsertRejected, RunFails,
         SameRows, Access, Refresh, ApiAuthByName
<1>2. CASE SelectCode(p)
  BY <1>1, <1>2, GotoKeeps DEF SelectCode, QuietStep, OthersKeep, Writing
<1>3. CASE SelectAccess(p)
  <2>1. rfs' = rfs /\ pc'[p] \in {"issue", "refresh_row"} /\ \A q \in Run \ {p} : pc'[q] = pc[q]
    BY <1>3, GotoKeeps DEF SelectAccess
  <2>2. \A q \in Run \ {p} : acs'[q] = acs[q]
    BY <1>3 DEF SelectAccess, TokenTypeOK
  <2>3. QED
    BY <1>1, <2>1, <2>2 DEF QuietStep, OthersKeep, Writing
<1>4. CASE ExpireTimeUnreadable(p) \/ Refused(p) \/ InsertRejected(p) \/ RunFails(p)
  <2>1. End(p)
    BY <1>4 DEF ExpireTimeUnreadable, Refused, InsertRejected, RunFails
  <2>2. QED
    BY <1>1, <2>1, EndKeeps DEF QuietStep, Writing
<1>5. QED
  BY <1>2, <1>3, <1>4

(* The six writes: what each does to the two kinds of row.                     *)
LEMMA UpdateAccessStep ==
    ASSUME TokenTypeOK, NEW p \in Run, UpdateAccess(p)
    PROVE  /\ WriteStep(p) /\ pc[p] = "update_access" /\ pc'[p] = "update_refresh"
           /\ Refresh' = Refresh
           /\ \A a \in Access' : a.value = acs[p].value
           /\ Access # {} => Access' # {}
           /\ happened' = happened
<1>1. acs[p] \in Auth /\ acs[p].name = "access_token" /\ pc[p] = "update_access"
  BY DEF UpdateAccess, TokenTypeOK
<1>2. UpdateApiAuth(acs[p], 24) /\ api_auth \subseteq ApiRow
  BY DEF UpdateAccess, TokenTypeOK
<1>3. /\ Refresh' = Refresh /\ \A a \in Access' : a.value = acs[p].value
      /\ Access # {} => Access' # {}
  BY <1>1, <1>2, UpdateRows DEF Access, Refresh
<1>4. pc'[p] = "update_refresh" /\ \A q \in Run \ {p} : pc'[q] = pc[q]
  BY GotoKeeps DEF UpdateAccess
<1>5. QED
  BY <1>1, <1>3, <1>4 DEF UpdateAccess, WriteStep, OthersKeep, Writing, serverVars

(* The UPDATE of the refresh token leaves the access token alone.              *)
LEMMA UpdateRefreshStep ==
    ASSUME TokenTypeOK, NEW p \in Run, UpdateRefresh(p)
    PROVE  /\ WriteStep(p) /\ pc[p] = "update_refresh" /\ pc'[p] = "idle"
           /\ Access' = Access
           /\ \A r \in Refresh' : r.value = rfs[p].value
           /\ OneRefresh => OneRefresh'
           /\ happened' = happened
<1>1. rfs[p] \in Auth /\ rfs[p].name = "refresh_token" /\ pc[p] = "update_refresh"
  BY DEF UpdateRefresh, TokenTypeOK
<1>2. UpdateApiAuth(rfs[p], 0) /\ api_auth \subseteq ApiRow
  BY DEF UpdateRefresh, TokenTypeOK
<1>3. Access' = Access /\ \A r \in Refresh' : r.value = rfs[p].value
  BY <1>1, <1>2, UpdateRows DEF Access, Refresh
<1>4. OneRefresh => OneRefresh'
  <2>1. \A o : ApiAuthByName("refresh_token") = {o} => \E r : ApiAuthByName("refresh_token")' = {r}
    BY <1>1, <1>2, UpdateRows
  <2>2. QED
    BY <2>1 DEF OneRefresh, Refresh
<1>5. QED
  BY <1>1, <1>3, <1>4, EndKeeps DEF UpdateRefresh, WriteStep, Writing, serverVars

(* The DELETE of the access token, if it does not fail, leaves none.           *)
LEMMA DeleteAccessStep ==
    ASSUME TokenTypeOK, NEW p \in Run, DeleteAccess(p)
    PROVE  /\ WriteStep(p) /\ pc[p] = "delete_access" /\ pc'[p] = "delete_refresh"
           /\ Refresh' = Refresh
           /\ (Access' = {} /\ happened' = happened) \/ (Access' = Access /\ happened' # {})
<1>1. \/ DeleteApiAuthByName("access_token") /\ happened' = happened
      \/ api_auth' = api_auth /\ happened' # {}
  BY DEF DeleteAccess, Fault
<1>2. /\ Refresh' = Refresh
      /\ (Access' = {} /\ happened' = happened) \/ (Access' = Access /\ happened' # {})
  BY <1>1 DEF DeleteApiAuthByName, Access, Refresh, ApiAuthByName
<1>3. pc'[p] = "delete_refresh" /\ \A q \in Run \ {p} : pc'[q] = pc[q]
  BY GotoKeeps DEF DeleteAccess
<1>4. QED
  BY <1>2, <1>3 DEF DeleteAccess, WriteStep, OthersKeep, Writing, serverVars

(* The DELETE of the refresh token, if it does not fail, leaves none.          *)
LEMMA DeleteRefreshStep ==
    ASSUME TokenTypeOK, NEW p \in Run, DeleteRefresh(p)
    PROVE  /\ WriteStep(p) /\ pc[p] = "delete_refresh" /\ pc'[p] = "insert_access"
           /\ Access' = Access
           /\ (Refresh' = {} /\ happened' = happened) \/ (Refresh' = Refresh /\ happened' # {})
<1>1. \/ DeleteApiAuthByName("refresh_token") /\ happened' = happened
      \/ api_auth' = api_auth /\ happened' # {}
  BY DEF DeleteRefresh, Fault
<1>2. /\ Access' = Access
      /\ (Refresh' = {} /\ happened' = happened) \/ (Refresh' = Refresh /\ happened' # {})
  BY <1>1 DEF DeleteApiAuthByName, Access, Refresh, ApiAuthByName
<1>3. pc'[p] = "insert_access" /\ \A q \in Run \ {p} : pc'[q] = pc[q]
  BY GotoKeeps DEF DeleteRefresh
<1>4. QED
  BY <1>2, <1>3 DEF DeleteRefresh, WriteStep, OthersKeep, Writing, serverVars

(* The INSERT of the access token adds the one the run holds.                  *)
LEMMA InsertAccessStep ==
    ASSUME TokenTypeOK, NEW p \in Run, InsertAccess(p), acs[p].name = "access_token"
    PROVE  /\ WriteStep(p) /\ pc[p] = "insert_access" /\ pc'[p] = "insert_refresh"
           /\ Refresh' = Refresh
           /\ \E a : a.value = acs[p].value /\ Access' = Access \cup {a}
           /\ happened' = happened
<1>1. acs[p] \in Auth /\ InsertApiAuth(acs[p]) /\ api_auth \subseteq ApiRow
  BY DEF InsertAccess, TokenTypeOK
<1>2. Refresh' = Refresh /\ \E a : a.value = acs[p].value /\ Access' = Access \cup {a}
  BY <1>1, InsertRows DEF Access, Refresh
<1>3. pc'[p] = "insert_refresh" /\ \A q \in Run \ {p} : pc'[q] = pc[q]
  BY GotoKeeps DEF InsertAccess
<1>4. QED
  BY <1>2, <1>3 DEF InsertAccess, WriteStep, OthersKeep, Writing, serverVars

(* The INSERT of the refresh token adds the one the run holds.                 *)
LEMMA InsertRefreshStep ==
    ASSUME TokenTypeOK, NEW p \in Run, InsertRefresh(p), rfs[p].name = "refresh_token"
    PROVE  /\ WriteStep(p) /\ pc[p] = "insert_refresh" /\ pc'[p] = "idle"
           /\ Access' = Access
           /\ \E r : r.value = rfs[p].value /\ Refresh' = Refresh \cup {r}
           /\ happened' = happened
<1>1. rfs[p] \in Auth /\ InsertApiAuth(rfs[p]) /\ api_auth \subseteq ApiRow
  BY DEF InsertRefresh, TokenTypeOK
<1>2. Access' = Access /\ \E r : r.value = rfs[p].value /\ Refresh' = Refresh \cup {r}
  BY <1>1, InsertRows DEF Access, Refresh
<1>3. QED
  BY <1>2, EndKeeps DEF InsertRefresh, WriteStep, Writing, serverVars

----------------------------------------------------------------------------
(* Only one run writes *)

(* A new code and an expiry change neither the values nor who is at work.      *)
LEMMA OutsideSteps ==
    ASSUME TokenTypeOK, NewCode \/ Expire
    PROVE  /\ Access' = Access /\ UNCHANGED <<granted, redeemed, pc, acs, rfs, happened>>
           /\ \A r \in Refresh' : \E o \in Refresh : r.value = o.value /\ (r.live => o.live)
           /\ OneRefresh => OneRefresh'
           /\ code' = code \/ (AtRest /\ \A r \in Refresh' : ~r.live)
<1>1. CASE NewCode
  <2> DEFINE new == [name |-> "auth_code", value |-> code + 1, live |-> TRUE]
  <2>1. api_auth' = (api_auth \ ApiAuthByName("auth_code")) \cup {new} /\ new.name = "auth_code"
    BY <1>1 DEF NewCode
  <2> HIDE DEF new
  <2>2. Access' = Access /\ Refresh' = Refresh
    BY <2>1 DEF Access, Refresh, ApiAuthByName
  <2>3. \A r \in Refresh : ~r.live
    BY <1>1 DEF NewCode, Refresh
  <2>4. QED
    BY <1>1, <2>2, <2>3 DEF NewCode, OneRefresh
<1>2. CASE Expire
  <2>1. PICK r \in Refresh : api_auth' = (api_auth \ {r}) \cup {[r EXCEPT !.live = FALSE]}
    BY <1>2 DEF Expire, Refresh
  <2> DEFINE old == [r EXCEPT !.live = FALSE]
  <2>2. old.name = "refresh_token" /\ old.value = r.value /\ ~old.live
    BY DEF Refresh, ApiAuthByName, TokenTypeOK, ApiRow
  <2>3. api_auth' = (api_auth \ {r}) \cup {old} /\ r.name = "refresh_token" /\ r \in api_auth
    BY <2>1 DEF Refresh, ApiAuthByName
  <2> HIDE DEF old
  <2>4. Access' = Access /\ Refresh' = (Refresh \ {r}) \cup {old}
    BY <2>2, <2>3 DEF Access, Refresh, ApiAuthByName
  <2>5. QED
    BY <1>2, <2>2, <2>4 DEF Expire, OneRefresh, serverVars
<1>3. QED
  BY <1>1, <1>2

(* What a grant leaves behind when the answer is whole.                        *)
LEMMA GrantSteps ==
    ASSUME TokenTypeOK, NEW p \in Run, RefreshAccessToken(p) \/ IssueAccessToken(p),
           "answer" \notin happened'
    PROVE  /\ SameRows /\ granted' = granted + 1 /\ code' = code /\ OthersKeep(p)
           /\ acs'[p] = [name |-> "access_token", value |-> granted + 1]
           /\ rfs'[p] = [name |-> "refresh_token", value |-> granted + 1]
           /\ happened' = happened
           /\ \/ /\ pc[p] = "refresh" /\ pc'[p] = "update_access"
                 /\ rfs[p].value = granted /\ redeemed' = redeemed
              \/ /\ pc[p] = "issue" /\ pc'[p] = "delete_access"
                 /\ redeemed < code /\ redeemed' = code
<1>1. PICK fields \in AnswerFields :
         Answer(p, fields) /\ (RefreshAccessToken(p) \/ redeemed' = IF fields = {} THEN redeemed ELSE code)
  BY DEF RefreshAccessToken, IssueAccessToken
<1>2. fields = FullAnswer /\ happened' = happened
  BY <1>1 DEF Answer, Fault
<1>3. fields # {} /\ "accessToken" \in fields /\ "refreshToken" \in fields
  BY <1>2 DEF FullAnswer
<1>4. /\ granted' = granted + 1
      /\ acs' = [acs EXCEPT ![p] = [name |-> "access_token", value |-> granted + 1]]
      /\ rfs' = [rfs EXCEPT ![p] = [name |-> "refresh_token", value |-> granted + 1]]
  BY <1>1, <1>3 DEF Answer
<1>5. SameRows /\ code' = code
  BY DEF RefreshAccessToken, IssueAccessToken, SameRows, Access, Refresh, ApiAuthByName
<1>6. \/ /\ pc[p] = "refresh" /\ pc'[p] = "update_access"
         /\ rfs[p].value = granted /\ redeemed' = redeemed
      \/ /\ pc[p] = "issue" /\ pc'[p] = "delete_access"
         /\ redeemed < code /\ redeemed' = code
  BY <1>1, <1>3, GotoKeeps DEF RefreshAccessToken, IssueAccessToken, Refreshable, Redeemable
<1>7. \A q \in Run \ {p} : pc'[q] = pc[q]
  BY GotoKeeps DEF RefreshAccessToken, IssueAccessToken
<1>8. QED
  BY <1>2, <1>4, <1>5, <1>6, <1>7 DEF TokenTypeOK, OthersKeep

(* A pair that nobody ever sees outdates every other one.                      *)
LEMMA LostSteps ==
    ASSUME TokenTypeOK, NEW p \in Run, AnswerLost(p)
    PROVE  /\ SameRows /\ granted' = granted + 1 /\ code' = code /\ OthersKeep(p)
           /\ pc'[p] = "idle" /\ rfs'[p] = NoAuth
           /\ happened' # {}
           /\ \/ pc[p] = "refresh" /\ rfs[p].value = granted /\ redeemed' = redeemed
              \/ pc[p] = "issue" /\ redeemed < code /\ redeemed' = code
BY EndKeeps DEF AnswerLost, Refreshable, Redeemable, Fault, SameRows, Access, Refresh, ApiAuthByName

(* Only another run's grant can outdate a run that writes, and the server does *)
(* not make it.                                                                *)
LEMMA NobodyElseIsGranted ==
    ASSUME TokenTypeOK, GrantInv, NEW p \in Run, ~Writing(p),
           (pc[p] = "refresh" /\ rfs[p].value = granted) \/ redeemed < code
    PROVE  \A q \in Run : ~Writing(q)
<1> SUFFICES ASSUME NEW q \in Run, Writing(q) PROVE FALSE
  OBVIOUS
<1>1. OnlyWriter(q) /\ q # p
  BY DEF GrantInv
<1>2. redeemed = code /\ rfs[p].value < granted
  BY <1>1 DEF OnlyWriter
<1>3. QED
  BY <1>2, GrantedNat

(* What the rows and the records hold are numbers.                             *)
LEMMA RowValues ==
    TokenTypeOK => /\ \A r \in Refresh : r.value \in Nat
                   /\ \A a \in Access : a.value \in Nat
                   /\ \A p \in Run : rfs[p].value \in Nat
BY DEF TokenTypeOK, Refresh, Access, ApiAuthByName, ApiRow, Auth

(* A write of the only writer keeps it the only one.                           *)
LEMMA WriteGrant ==
    ASSUME TokenTypeOK, GrantInv, NEW p \in Run, WriteStep(p),
           \A r \in Refresh' : r.value <= granted /\ (Writing(p)' => r.value < granted)
    PROVE  GrantInv'
<1>1. OnlyWriter(p)
  BY DEF GrantInv, WriteStep
<1>2. redeemed' = code' /\ granted' = granted /\ granted \in Nat
  BY <1>1, GrantedNat DEF OnlyWriter, WriteStep
<1>4. rfs'[p].value <= granted
  <2>1. rfs[p].value = granted /\ NoAuth.value = 0
    BY <1>1 DEF OnlyWriter, NoAuth
  <2>2. rfs'[p] = rfs[p] \/ rfs'[p] = NoAuth
    BY DEF WriteStep
  <2>3. QED
    BY <1>2, <2>1, <2>2
<1>5. \A q \in Run \ {p} : ~Writing(q)' /\ rfs'[q].value < granted
  BY <1>1 DEF OnlyWriter, WriteStep, OthersKeep, Writing
<1>6. Writing(p)' => OnlyWriter(p)'
  BY <1>1, <1>2, <1>5 DEF OnlyWriter, WriteStep
<1>7. \A q \in Run : Writing(q)' => OnlyWriter(q)'
  BY <1>5, <1>6
<1>8. \A r \in Refresh' : r.value <= granted' /\ (r.live => redeemed' = code')
  BY <1>2
<1>9. \A q \in Run : rfs'[q].value <= granted' /\ (pc'[q] = "refresh" => redeemed' = code')
  <2>1. \A q \in Run \ {p} : rfs'[q].value <= granted
    BY DEF GrantInv, WriteStep, OthersKeep
  <2>2. QED
    BY <1>2, <1>4, <2>1
<1>10. QED
  BY <1>7, <1>8, <1>9 DEF GrantInv

(* With whole answers every step keeps the one writer alone.                   *)
LEMMA GrantNext ==
    ASSUME TokenTypeOK, GrantInv, [TokenNext]_tokenVars, "answer" \notin happened'
    PROVE  GrantInv'
<1>1. CASE NewCode \/ Expire
  <2>1. /\ UNCHANGED <<granted, redeemed, pc, acs, rfs>>
        /\ \A r \in Refresh' : \E o \in Refresh : r.value = o.value /\ (r.live => o.live)
        /\ code' = code \/ (AtRest /\ \A r \in Refresh' : ~r.live)
    BY <1>1, OutsideSteps
  <2>2. CASE code' = code
    BY <2>1, <2>2 DEF GrantInv, OnlyWriter, Writing
  <2>3. CASE AtRest /\ \A r \in Refresh' : ~r.live
    BY <2>1, <2>3 DEF GrantInv, Writing, AtRest
  <2>4. QED
    BY <2>1, <2>2, <2>3
<1>2. ASSUME NEW p \in Run, QuietStep(p) PROVE GrantInv'
  <2>1. rfs'[p] = rfs[p] \/ rfs'[p] = NoAuth
    BY <1>2 DEF QuietStep
  <2>2. NoAuth.value = 0 /\ granted \in Nat /\ rfs[p].value \in Nat
    BY GrantedNat, RowValues DEF NoAuth
  <2>3. rfs'[p].value <= granted
    BY <2>1, <2>2 DEF GrantInv
  <2>4. ASSUME NEW q \in Run, Writing(q)' PROVE OnlyWriter(q)'
    <3>1. q # p /\ Writing(q)
      BY <1>2, <2>4 DEF QuietStep, OthersKeep, Writing
    <3>2. OnlyWriter(q)
      BY <3>1 DEF GrantInv
    <3>3. rfs[p].value < granted
      BY <3>1, <3>2 DEF OnlyWriter
    <3>4. rfs'[p].value < granted
      BY <2>1, <2>2, <3>3
    <3>5. \A x \in Run \ {q} : ~Writing(x)' /\ rfs'[x].value < granted
      BY <1>2, <3>2, <3>4 DEF QuietStep, OthersKeep, OnlyWriter, Writing
    <3>6. QED
      BY <1>2, <3>1, <3>2, <3>5 DEF OnlyWriter, QuietStep, OthersKeep, SameRows
  <2>5. \A q \in Run : rfs'[q].value <= granted /\ (pc'[q] = "refresh" => redeemed = code)
    BY <1>2, <2>3 DEF GrantInv, QuietStep, OthersKeep
  <2>6. QED
    BY <1>2, <2>4, <2>5 DEF GrantInv, QuietStep, SameRows
<1>3. ASSUME NEW p \in Run, SelectRefresh(p) PROVE GrantInv'
  <2>1. /\ pc[p] = "refresh_row" /\ SameRows /\ UNCHANGED <<granted, code, redeemed, acs>>
        /\ pc'[p] \in {"refresh", "issue"} /\ \A q \in Run \ {p} : pc'[q] = pc[q]
    BY <1>3, GotoKeeps
       DEF SelectRefresh, SameRows, Access, Refresh, ApiAuthByName, serverVars
  <2>2. \A q \in Run \ {p} : rfs'[q] = rfs[q]
    BY <1>3 DEF SelectRefresh, TokenTypeOK
  <2>3. \/ rfs'[p].value = rfs[p].value /\ pc'[p] = "issue"
        \/ \E r \in Refresh : rfs'[p].value = r.value /\ (pc'[p] = "refresh" => r.live)
    BY <1>3, GotoKeeps DEF SelectRefresh, Refresh, TokenTypeOK
  <2>4. rfs'[p].value <= granted /\ (pc'[p] = "refresh" => redeemed = code)
    BY <2>3 DEF GrantInv
  <2>5. ASSUME NEW q \in Run, Writing(q)' PROVE OnlyWriter(q)'
    <3>1. q # p /\ Writing(q)
      BY <2>1, <2>5 DEF Writing
    <3>2. OnlyWriter(q)
      BY <3>1 DEF GrantInv
    <3>3. rfs'[p].value < granted
      BY <2>3, <3>1, <3>2 DEF OnlyWriter
    <3>4. \A x \in Run \ {q} : ~Writing(x)' /\ rfs'[x].value < granted
      BY <2>1, <2>2, <3>2, <3>3 DEF OnlyWriter, Writing
    <3>5. QED
      BY <2>1, <2>2, <3>1, <3>2, <3>4 DEF OnlyWriter, SameRows
  <2>6. \A q \in Run : rfs'[q].value <= granted /\ (pc'[q] = "refresh" => redeemed = code)
    BY <2>1, <2>2, <2>4 DEF GrantInv
  <2>7. QED
    BY <2>1, <2>5, <2>6 DEF GrantInv, SameRows
<1>4. ASSUME NEW p \in Run, RefreshAccessToken(p) \/ IssueAccessToken(p) PROVE GrantInv'
  <2>1. /\ SameRows /\ granted' = granted + 1 /\ code' = code /\ OthersKeep(p)
        /\ acs'[p] = [name |-> "access_token", value |-> granted + 1]
        /\ rfs'[p] = [name |-> "refresh_token", value |-> granted + 1]
        /\ \/ pc[p] = "refresh" /\ rfs[p].value = granted /\ redeemed' = redeemed
           \/ pc[p] = "issue" /\ redeemed < code /\ redeemed' = code
    BY <1>4, GrantSteps
  <2>2. \A q \in Run : ~Writing(q)
    BY <2>1, NobodyElseIsGranted DEF Writing
  <2>3. redeemed' = code' /\ granted \in Nat /\ rfs'[p].value = granted + 1
    BY <2>1, GrantedNat DEF GrantInv
  <2>4. \A r \in Refresh' : r.value < granted + 1
    BY <2>1, <2>3, RowValues DEF GrantInv, SameRows
  <2>5. \A q \in Run \ {p} : ~Writing(q)' /\ rfs'[q].value < granted + 1
    BY <2>1, <2>2, <2>3, RowValues DEF GrantInv, OthersKeep, Writing
  <2>6. OnlyWriter(p)'
    BY <2>1, <2>3, <2>4, <2>5 DEF OnlyWriter
  <2>7. \A q \in Run : rfs'[q].value <= granted + 1
    <3>1. \A q \in Run \ {p} : rfs'[q].value \in Nat /\ rfs'[q].value < granted + 1
      BY <2>1, <2>5, RowValues DEF OthersKeep
    <3>2. QED
      BY <2>3, <3>1
  <2>8. \A r \in Refresh' : r.value <= granted + 1
    BY <2>1, <2>3, RowValues DEF GrantInv, SameRows
  <2>9. QED
    BY <2>1, <2>3, <2>5, <2>6, <2>7, <2>8 DEF GrantInv
<1>5. ASSUME NEW p \in Run, AnswerLost(p) PROVE GrantInv'
  <2>1. /\ SameRows /\ granted' = granted + 1 /\ code' = code /\ OthersKeep(p)
        /\ pc'[p] = "idle" /\ rfs'[p] = NoAuth
        /\ \/ pc[p] = "refresh" /\ rfs[p].value = granted /\ redeemed' = redeemed
           \/ pc[p] = "issue" /\ redeemed < code /\ redeemed' = code
    BY <1>5, LostSteps
  <2>2. \A q \in Run : ~Writing(q)
    BY <2>1, NobodyElseIsGranted DEF Writing
  <2>3. redeemed' = code' /\ granted \in Nat /\ NoAuth.value = 0
    BY <2>1, GrantedNat DEF GrantInv, NoAuth
  <2>4. \A q \in Run : ~Writing(q)' /\ rfs'[q].value <= granted + 1
    BY <2>1, <2>2, <2>3, RowValues DEF GrantInv, OthersKeep, Writing
  <2>5. \A r \in Refresh' : r.value <= granted + 1
    BY <2>1, <2>3, RowValues DEF GrantInv, SameRows
  <2>6. QED
    BY <2>1, <2>3, <2>4, <2>5 DEF GrantInv
<1>6. ASSUME NEW p \in Run,
             UpdateAccess(p) \/ DeleteAccess(p) \/ DeleteRefresh(p) \/ InsertAccess(p)
      PROVE  GrantInv'
  <2>1. Writing(p)
    BY <1>6 DEF UpdateAccess, DeleteAccess, DeleteRefresh, InsertAccess, Writing
  <2>2. OnlyWriter(p)
    BY <2>1 DEF GrantInv
  <2>3. acs[p].name = "access_token"
    BY <2>2 DEF OnlyWriter
  <2>4. WriteStep(p) /\ Refresh' \subseteq Refresh
    BY <1>6, <2>3, UpdateAccessStep, DeleteAccessStep, DeleteRefreshStep, InsertAccessStep
  <2>5. \A r \in Refresh' : r.value <= granted /\ r.value < granted
    BY <2>2, <2>4 DEF OnlyWriter, GrantInv
  <2>6. QED
    BY <2>4, <2>5, WriteGrant
<1>7. ASSUME NEW p \in Run, UpdateRefresh(p) \/ InsertRefresh(p) PROVE GrantInv'
  <2>1. Writing(p)
    BY <1>7 DEF UpdateRefresh, InsertRefresh, Writing
  <2>2. OnlyWriter(p)
    BY <2>1 DEF GrantInv
  <2>3. rfs[p].name = "refresh_token" /\ rfs[p].value = granted
    BY <2>2 DEF OnlyWriter
  <2>4. /\ WriteStep(p) /\ pc'[p] = "idle"
        /\ \A r \in Refresh' : r.value = rfs[p].value \/ r \in Refresh
    BY <1>7, <2>3, UpdateRefreshStep, InsertRefreshStep
  <2>5. \A r \in Refresh' : r.value <= granted
    BY <2>3, <2>4, GrantedNat DEF GrantInv
  <2>6. QED
    BY <2>4, <2>5, WriteGrant DEF Writing
<1>8. CASE UNCHANGED tokenVars
  BY <1>8 DEF tokenVars, serverVars, GrantInv, OnlyWriter, Writing, Refresh, ApiAuthByName
<1>9. QED
  BY <1>1, <1>2, <1>3, <1>4, <1>5, <1>6, <1>7, <1>8, QuietSteps DEF TokenNext, RunStep

----------------------------------------------------------------------------
(* The access token is written first *)

(* With whole answers no step puts a refresh token ahead.                      *)
LEMMA OrderNext ==
    ASSUME TokenTypeOK, GrantInv, OrderInv, [TokenNext]_tokenVars, "answer" \notin happened'
    PROVE  OrderInv'
<1>1. CASE NewCode \/ Expire
  <2>1. /\ Access' = Access /\ UNCHANGED <<granted, pc>>
        /\ \A r \in Refresh' : \E o \in Refresh : r.value = o.value
    BY <1>1, OutsideSteps
  <2>2. QED
    BY <2>1 DEF OrderInv
<1>2. ASSUME NEW p \in Run, QuietStep(p) \/ SelectRefresh(p) PROVE OrderInv'
  <2>1. /\ SameRows /\ granted' = granted
        /\ pc'[p] \notin {"update_refresh", "insert_refresh"}
        /\ \A q \in Run \ {p} : pc'[q] = pc[q]
    BY <1>2, GotoKeeps DEF QuietStep, OthersKeep, Writing, SelectRefresh, SameRows,
                           Access, Refresh, ApiAuthByName, serverVars
  <2>2. QED
    BY <2>1 DEF OrderInv, SameRows
<1>3. ASSUME NEW p \in Run, RefreshAccessToken(p) \/ IssueAccessToken(p) \/ AnswerLost(p)
      PROVE  OrderInv'
  <2>1. /\ SameRows /\ OthersKeep(p) /\ ~Writing(p)
        /\ pc'[p] \notin {"update_refresh", "insert_refresh"}
        /\ (pc[p] = "refresh" /\ rfs[p].value = granted) \/ redeemed < code
    BY <1>3, GrantSteps, LostSteps DEF Writing
  <2>2. \A q \in Run : ~Writing(q)
    BY <2>1, NobodyElseIsGranted
  <2>3. \A q \in Run : pc'[q] \notin {"update_refresh", "insert_refresh"}
    BY <2>1, <2>2 DEF OthersKeep, Writing
  <2>4. QED
    BY <2>1, <2>3 DEF OrderInv, SameRows
<1>4. ASSUME NEW p \in Run, Writing(p), WriteStep(p)
      PROVE  /\ OnlyWriter(p) /\ granted' = granted /\ granted \in Nat
             /\ acs[p].name = "access_token" /\ rfs[p].name = "refresh_token"
             /\ acs[p].value = granted /\ rfs[p].value = granted
             /\ \A q \in Run \ {p} : pc'[q] \notin {"update_refresh", "insert_refresh"}
             /\ \A r \in Refresh : r.value <= granted
  <2>1. OnlyWriter(p) /\ granted' = granted /\ granted \in Nat
    BY <1>4, GrantedNat DEF GrantInv, WriteStep
  <2>2. \A q \in Run \ {p} : pc'[q] \notin {"update_refresh", "insert_refresh"}
    BY <1>4, <2>1 DEF OnlyWriter, WriteStep, OthersKeep, Writing
  <2>3. QED
    BY <2>1, <2>2 DEF OnlyWriter, GrantInv
<1>5. ASSUME NEW p \in Run, UpdateAccess(p) PROVE OrderInv'
  <2>1. /\ WriteStep(p) /\ pc'[p] = "update_refresh" /\ Refresh' = Refresh
        /\ \A a \in Access' : a.value = acs[p].value
    BY <1>5, UpdateAccessStep
  <2>2. /\ granted' = granted /\ granted \in Nat /\ acs[p].value = granted
        /\ \A q \in Run \ {p} : pc'[q] \notin {"update_refresh", "insert_refresh"}
        /\ \A r \in Refresh : r.value <= granted
    BY <1>4, <2>1 DEF WriteStep
  <2>3. Access' # {} => \A r \in Refresh' : \E a \in Access' : a.value >= r.value
    BY <2>1, <2>2, RowValues
  <2>4. QED
    BY <2>1, <2>2, <2>3 DEF OrderInv
<1>6. ASSUME NEW p \in Run, UpdateRefresh(p) PROVE OrderInv'
  <2>1. /\ WriteStep(p) /\ pc[p] = "update_refresh" /\ pc'[p] = "idle" /\ Access' = Access
        /\ \A r \in Refresh' : r.value = rfs[p].value
    BY <1>6, UpdateRefreshStep
  <2>2. /\ granted \in Nat /\ rfs[p].value = granted
        /\ \A q \in Run \ {p} : pc'[q] \notin {"update_refresh", "insert_refresh"}
    BY <1>4, <2>1 DEF WriteStep
  <2>3. \A a \in Access : a.value = granted
    BY <2>1 DEF OrderInv
  <2>4. QED
    BY <2>1, <2>2, <2>3 DEF OrderInv
<1>7. ASSUME NEW p \in Run, DeleteAccess(p) \/ DeleteRefresh(p) PROVE OrderInv'
  <2>1. /\ WriteStep(p) /\ pc'[p] \in {"delete_refresh", "insert_access"}
        /\ Access' \in {{}, Access} /\ Refresh' \subseteq Refresh
    BY <1>7, DeleteAccessStep, DeleteRefreshStep
  <2>2. \A q \in Run \ {p} : pc'[q] \notin {"update_refresh", "insert_refresh"}
    BY <1>4, <2>1 DEF WriteStep
  <2>3. QED
    BY <2>1, <2>2 DEF OrderInv
<1>8. ASSUME NEW p \in Run, InsertAccess(p) PROVE OrderInv'
  <2>1. Writing(p) /\ OnlyWriter(p)
    BY <1>8 DEF InsertAccess, Writing, GrantInv
  <2>2. /\ WriteStep(p) /\ pc'[p] = "insert_refresh" /\ Refresh' = Refresh
        /\ \E a \in Access' : a.value = acs[p].value
    BY <1>8, <2>1, InsertAccessStep DEF OnlyWriter
  <2>3. /\ granted' = granted /\ granted \in Nat /\ acs[p].value = granted
        /\ \A q \in Run \ {p} : pc'[q] \notin {"update_refresh", "insert_refresh"}
        /\ \A r \in Refresh : r.value <= granted
    BY <1>4, <2>1, <2>2
  <2>4. \A r \in Refresh' : \E a \in Access' : a.value >= r.value
    BY <2>2, <2>3, RowValues
  <2>5. QED
    BY <2>2, <2>3, <2>4 DEF OrderInv
<1>9. ASSUME NEW p \in Run, InsertRefresh(p) PROVE OrderInv'
  <2>1. Writing(p) /\ OnlyWriter(p)
    BY <1>9 DEF InsertRefresh, Writing, GrantInv
  <2>2. /\ WriteStep(p) /\ pc[p] = "insert_refresh" /\ pc'[p] = "idle" /\ Access' = Access
        /\ \A r \in Refresh' : r.value = rfs[p].value \/ r \in Refresh
    BY <1>9, <2>1, InsertRefreshStep DEF OnlyWriter
  <2>3. /\ granted \in Nat /\ rfs[p].value = granted
        /\ \A q \in Run \ {p} : pc'[q] \notin {"update_refresh", "insert_refresh"}
    BY <1>4, <2>1, <2>2
  <2>4. \E a \in Access : a.value = granted
    BY <2>2 DEF OrderInv
  <2>5. \A r \in Refresh' : \E a \in Access' : a.value >= r.value
    BY <2>2, <2>3, <2>4 DEF OrderInv
  <2>6. QED
    BY <2>2, <2>3, <2>5 DEF OrderInv
<1>10. CASE UNCHANGED tokenVars
  BY <1>10 DEF tokenVars, serverVars, OrderInv, Access, Refresh, ApiAuthByName
<1>11. QED
  BY <1>1, <1>2, <1>3, <1>5, <1>6, <1>7, <1>8, <1>9, <1>10, QuietSteps DEF TokenNext, RunStep

(* What has happened stays happened.                                           *)
LEMMA HappenedGrows == [TokenNext]_tokenVars => happened \subseteq happened'
<1> SUFFICES ASSUME [TokenNext]_tokenVars PROVE happened \subseteq happened'
  OBVIOUS
<1>1. CASE NewCode \/ Expire \/ UNCHANGED tokenVars
  BY <1>1 DEF NewCode, Expire, tokenVars
<1>2. ASSUME NEW p \in Run, RunStep(p) PROVE happened \subseteq happened'
  <2>1. CASE \/ SelectCode(p) \/ SelectAccess(p) \/ SelectRefresh(p) \/ Refused(p)
             \/ ExpireTimeUnreadable(p) \/ UpdateAccess(p) \/ UpdateRefresh(p)
             \/ InsertAccess(p) \/ InsertRefresh(p) \/ InsertRejected(p)
    BY <2>1 DEF SelectCode, SelectAccess, SelectRefresh, Refused, ExpireTimeUnreadable,
                UpdateAccess, UpdateRefresh, InsertAccess, InsertRefresh, InsertRejected
  <2>2. CASE RefreshAccessToken(p) \/ IssueAccessToken(p)
    BY <2>2 DEF RefreshAccessToken, IssueAccessToken, Answer, Fault
  <2>3. CASE AnswerLost(p) \/ DeleteAccess(p) \/ DeleteRefresh(p) \/ RunFails(p)
    BY <2>3 DEF AnswerLost, DeleteAccess, DeleteRefresh, RunFails, Fault
  <2>4. QED
    BY <1>2, <2>1, <2>2, <2>3 DEF RunStep
<1>3. QED
  BY <1>1, <1>2 DEF TokenNext

(* The first state has no tokens.                                              *)
LEMMA WholeInit == TokenInit => WholeInv
<1> SUFFICES ASSUME TokenInit PROVE GrantInv /\ OrderInv
  BY DEF WholeInv
<1>1. Access = {} /\ Refresh = {} /\ granted = 0
  BY DEF TokenInit, Access, Refresh, ApiAuthByName
<1>2. \A p \in Run : pc[p] = "idle" /\ rfs[p] = NoAuth
  BY DEF TokenInit
<1>3. NoAuth.value = 0
  BY DEF NoAuth
<1>4. QED
  BY <1>1, <1>2, <1>3 DEF GrantInv, OrderInv, Writing

(* Both together, as long as every answer was whole.                           *)
LEMMA WholeNext == TokenTypeOK /\ WholeInv /\ [TokenNext]_tokenVars => WholeInv'
BY GrantNext, OrderNext, HappenedGrows DEF WholeInv

(* Wherever a run is cut off and whichever statements fail, with whole answers *)
(* the refresh token in the table is not newer than every access token beside  *)
(* it: RefreshNotAhead holds for any number of runs, grants and codes.         *)
THEOREM RefreshIsNotAhead == TokenSpec => []RefreshNotAhead
<1>1. TokenInit => TokenTypeOK /\ WholeInv
  BY TokenTypeInit, WholeInit
<1>2. TokenTypeOK /\ WholeInv /\ [TokenNext]_tokenVars => (TokenTypeOK /\ WholeInv)'
  BY TokenTypeNext, WholeNext
<1>3. WholeInv => RefreshNotAhead
  BY DEF WholeInv, OrderInv, RefreshNotAhead, Access, Refresh
<1>4. QED
  BY <1>1, <1>2, <1>3, PTL DEF TokenSpec

----------------------------------------------------------------------------
(* What is written *)

(* A token that was not in the table is one of the pair granted last.          *)
NewestOf(name) ==
    \A r \in ApiAuthByName(name)' :
        (\A o \in ApiAuthByName(name) : o.value # r.value) => r.value = granted'

(* A run writes when it is the only writer, and what it writes is what it was  *)
(* granted.                                                                    *)
LEMMA NewestNext ==
    ASSUME TokenTypeOK, WholeInv, [TokenNext]_tokenVars, "answer" \notin happened'
    PROVE  NewestOf("access_token") /\ NewestOf("refresh_token")
<1>1. GrantInv
  BY HappenedGrows DEF WholeInv
<1>2. /\ NewestOf("access_token") <=>
           \A r \in Access' : (\A o \in Access : o.value # r.value) => r.value = granted'
      /\ NewestOf("refresh_token") <=>
           \A r \in Refresh' : (\A o \in Refresh : o.value # r.value) => r.value = granted'
  BY DEF NewestOf, Access, Refresh
<1>3. CASE NewCode \/ Expire
  BY <1>2, <1>3, OutsideSteps
<1>4. ASSUME NEW p \in Run,
             \/ SelectCode(p) \/ SelectAccess(p) \/ SelectRefresh(p) \/ Refused(p)
             \/ RefreshAccessToken(p) \/ IssueAccessToken(p) \/ AnswerLost(p)
             \/ ExpireTimeUnreadable(p) \/ InsertRejected(p) \/ RunFails(p)
      PROVE  api_auth' = api_auth
  BY <1>4 DEF SelectCode, SelectAccess, SelectRefresh, Refused, RefreshAccessToken,
              IssueAccessToken, AnswerLost, ExpireTimeUnreadable, InsertRejected, RunFails
<1>5. ASSUME NEW p \in Run, WriteStep(p)
      PROVE  /\ acs[p] = [name |-> "access_token", value |-> granted']
             /\ rfs[p] = [name |-> "refresh_token", value |-> granted']
  BY <1>1, <1>5 DEF GrantInv, WriteStep, OnlyWriter
<1>6. ASSUME NEW p \in Run, UpdateAccess(p)
      PROVE  NewestOf("access_token") /\ NewestOf("refresh_token")
  BY <1>2, <1>5, <1>6, UpdateAccessStep
<1>7. ASSUME NEW p \in Run, UpdateRefresh(p)
      PROVE  NewestOf("access_token") /\ NewestOf("refresh_token")
  BY <1>2, <1>5, <1>7, UpdateRefreshStep
<1>8. ASSUME NEW p \in Run, DeleteAccess(p) \/ DeleteRefresh(p)
      PROVE  NewestOf("access_token") /\ NewestOf("refresh_token")
  BY <1>2, <1>8, DeleteAccessStep, DeleteRefreshStep
<1>9. ASSUME NEW p \in Run, InsertAccess(p) \/ InsertRefresh(p)
      PROVE  /\ acs[p] = [name |-> "access_token", value |-> granted]
             /\ rfs[p] = [name |-> "refresh_token", value |-> granted]
  BY <1>1, <1>9 DEF GrantInv, OnlyWriter, Writing, InsertAccess, InsertRefresh
<1>10. ASSUME NEW p \in Run, InsertAccess(p)
       PROVE  NewestOf("access_token") /\ NewestOf("refresh_token")
  <2>1. WriteStep(p) /\ Refresh' = Refresh /\ \E a : a.value = acs[p].value /\ Access' = Access \cup {a}
    BY <1>9, <1>10, InsertAccessStep
  <2>2. QED
    BY <1>2, <1>5, <2>1
<1>11. ASSUME NEW p \in Run, InsertRefresh(p)
       PROVE  NewestOf("access_token") /\ NewestOf("refresh_token")
  <2>1. WriteStep(p) /\ Access' = Access /\ \E r : r.value = rfs[p].value /\ Refresh' = Refresh \cup {r}
    BY <1>9, <1>11, InsertRefreshStep
  <2>2. QED
    BY <1>2, <1>5, <2>1
<1>12. api_auth' = api_auth => NewestOf("access_token") /\ NewestOf("refresh_token")
  BY DEF NewestOf, ApiAuthByName
<1>13. CASE UNCHANGED tokenVars
  BY <1>12, <1>13 DEF tokenVars
<1>14. QED
  BY <1>3, <1>4, <1>6, <1>7, <1>8, <1>10, <1>11, <1>12, <1>13 DEF TokenNext, RunStep

(* However many runs overlap and wherever they are cut off, with whole answers *)
(* none writes an older token over a newer one or beside it: WritesTheNewest.  *)
THEOREM OnlyTheNewestIsWritten == TokenSpec => WritesTheNewest
<1>1. TokenInit => TokenTypeOK /\ WholeInv
  BY TokenTypeInit, WholeInit
<1>2. TokenTypeOK /\ WholeInv /\ [TokenNext]_tokenVars => (TokenTypeOK /\ WholeInv)'
  BY TokenTypeNext, WholeNext
<1>3. TokenTypeOK /\ WholeInv /\ [TokenNext]_tokenVars =>
        [\A name \in {"access_token", "refresh_token"} : \A r \in ApiAuthByName(name)' :
            "answer" \notin happened' /\ (\A o \in ApiAuthByName(name) : o.value # r.value)
               => r.value = granted']_tokenVars
  BY NewestNext DEF NewestOf
<1>4. QED
  BY <1>1, <1>2, <1>3, PTL DEF TokenSpec, WritesTheNewest

----------------------------------------------------------------------------
(* When nothing failed *)

(* The first state is settled.                                                 *)
LEMMA CleanInit == TokenInit => CleanInv
<1> SUFFICES ASSUME TokenInit PROVE CleanInv
  OBVIOUS
<1>1. Settled
  BY DEF TokenInit, Settled, Access, Refresh, ApiAuthByName
<1>2. \A p \in Run : pc[p] = "idle"
  BY DEF TokenInit
<1>3. QED
  BY <1>1, <1>2 DEF CleanInv, Writing

(* Nobody is served with a table that was never filled.                        *)
LEMMA RefreshMeansGranted ==
    ASSUME TokenTypeOK, CleanInv, happened = {}, Refresh # {}
    PROVE  granted > 0
BY DEF CleanInv, Settled, Halfway

(* Without a fault the table is settled, or one run is halfway through.        *)
LEMMA CleanNext ==
    ASSUME TokenTypeOK, GrantInv, CleanInv, [TokenNext]_tokenVars
    PROVE  CleanInv'
<1> SUFFICES ASSUME happened' = {}
             PROVE  /\ \A p \in Run : pc'[p] = "refresh" => granted' > 0
                    /\ (\A p \in Run : ~Writing(p)') => Settled'
                    /\ \A p \in Run : Writing(p)' => Halfway(p)'
  BY DEF CleanInv
<1>1. happened = {}
  BY HappenedGrows
<1> DEFINE Goal == /\ \A p \in Run : pc'[p] = "refresh" => granted' > 0
                   /\ (\A p \in Run : ~Writing(p)') => Settled'
                   /\ \A p \in Run : Writing(p)' => Halfway(p)'
<1>2. CASE NewCode \/ Expire
  <2>1. /\ Access' = Access /\ UNCHANGED <<granted, pc>>
        /\ \A r \in Refresh' : \E o \in Refresh : r.value = o.value
        /\ OneRefresh => OneRefresh'
        /\ Refresh = {} => Refresh' = {}
    BY <1>2, OutsideSteps
  <2>2. Settled => Settled'
    BY <2>1 DEF Settled
  <2>3. \A p \in Run : Halfway(p) => Halfway(p)'
    BY <2>1 DEF Halfway
  <2>4. \A p \in Run : Writing(p)' <=> Writing(p)
    BY <2>1 DEF Writing
  <2>5. QED
    BY <1>1, <2>1, <2>2, <2>3, <2>4 DEF CleanInv
<1>3. ASSUME NEW p \in Run, QuietStep(p) \/ SelectRefresh(p), ~Writing(p),
             pc'[p] = "refresh" => granted > 0
      PROVE  Goal
  <2>1. /\ SameRows /\ granted' = granted /\ ~Writing(p)'
        /\ \A q \in Run \ {p} : pc'[q] = pc[q]
    BY <1>3, GotoKeeps DEF QuietStep, OthersKeep, Writing, SelectRefresh, SameRows,
                           Access, Refresh, ApiAuthByName, serverVars
  <2>2. \A q \in Run : Writing(q)' => Writing(q) /\ pc'[q] = pc[q]
    BY <2>1 DEF Writing
  <2>3. \A q \in Run : Writing(q) => Writing(q)'
    BY <1>3, <2>1 DEF Writing
  <2>4. Settled => Settled'
    BY <2>1 DEF Settled, SameRows, OneRefresh
  <2>5. \A q \in Run : pc'[q] = pc[q] /\ Halfway(q) => Halfway(q)'
    BY <2>1 DEF Halfway, SameRows, OneRefresh
  <2>6. QED
    BY <1>1, <1>3, <2>1, <2>2, <2>3, <2>4, <2>5 DEF CleanInv
<1>4. ASSUME NEW p \in Run, Writing(p) PROVE ~InsertRejected(p) /\ ~RunFails(p)
  <2>1. OnlyWriter(p) /\ Halfway(p)
    BY <1>1, <1>4 DEF GrantInv, CleanInv
  <2>2. ApiAuthByName(acs[p].name) = Access /\ ApiAuthByName(rfs[p].name) = Refresh
    BY <2>1 DEF OnlyWriter, Access, Refresh
  <2>3. QED
    BY <2>1, <2>2 DEF Halfway, InsertRejected, RunFails, Fault
<1>5. ASSUME NEW p \in Run,
             \/ SelectCode(p) \/ SelectAccess(p) \/ ExpireTimeUnreadable(p)
             \/ Refused(p) \/ InsertRejected(p) \/ RunFails(p)
      PROVE  Goal
  <2>1. QuietStep(p) /\ pc'[p] # "refresh"
    BY <1>5, QuietSteps DEF QuietStep
  <2>2. ~Writing(p)
    BY <1>4, <1>5 DEF SelectCode, SelectAccess, ExpireTimeUnreadable, Refused, Writing
  <2>3. QED
    BY <1>3, <2>1, <2>2
<1>6. ASSUME NEW p \in Run, SelectRefresh(p) PROVE Goal
  <2>1. pc'[p] = "refresh" => Refresh # {}
    BY <1>6, GotoKeeps DEF SelectRefresh, Refresh
  <2>2. ~Writing(p)
    BY <1>6 DEF SelectRefresh, Writing
  <2>3. QED
    BY <1>1, <1>3, <1>6, <2>1, <2>2, RefreshMeansGranted
<1>7. ASSUME NEW p \in Run, RefreshAccessToken(p) \/ IssueAccessToken(p) PROVE Goal
  <2>1. /\ SameRows /\ granted' = granted + 1 /\ OthersKeep(p)
        /\ \/ pc[p] = "refresh" /\ pc'[p] = "update_access" /\ rfs[p].value = granted
           \/ pc[p] = "issue" /\ pc'[p] = "delete_access" /\ redeemed < code
    BY <1>7, GrantSteps
  <2>2. \A q \in Run : ~Writing(q)
    BY <2>1, NobodyElseIsGranted DEF Writing
  <2>3. Settled /\ granted' > 0
    BY <1>1, <2>1, <2>2, GrantedNat DEF CleanInv
  <2>4. pc[p] = "refresh" => granted > 0
    BY <1>1 DEF CleanInv
  <2>5. Halfway(p)' /\ Writing(p)'
    BY <2>1, <2>3, <2>4 DEF Halfway, Settled, SameRows, OneRefresh, Writing
  <2>6. \A q \in Run \ {p} : ~Writing(q)'
    BY <2>1, <2>2 DEF OthersKeep, Writing
  <2>7. QED
    BY <2>3, <2>5, <2>6
<1>8. ASSUME NEW p \in Run, AnswerLost(p) PROVE FALSE
  BY <1>8, LostSteps
<1>9. ASSUME NEW p \in Run, WriteStep(p),
             IF Writing(p)' THEN Halfway(p)' ELSE Settled'
      PROVE  Goal
  <2>1. OnlyWriter(p) /\ Halfway(p)
    BY <1>1, <1>9 DEF GrantInv, CleanInv, WriteStep
  <2>2. \A q \in Run \ {p} : ~Writing(q)'
    BY <1>9, <2>1 DEF OnlyWriter, WriteStep, OthersKeep, Writing
  <2>3. granted' > 0
    BY <1>9, <2>1 DEF WriteStep, Halfway
  <2>4. QED
    BY <1>9, <2>2, <2>3
<1>10. ASSUME NEW p \in Run, Writing(p)
       PROVE  /\ Halfway(p) /\ acs[p].value = granted /\ rfs[p].value = granted
              /\ acs[p].name = "access_token" /\ rfs[p].name = "refresh_token"
  BY <1>1, <1>10 DEF GrantInv, CleanInv, OnlyWriter
<1>11. ASSUME NEW p \in Run, UpdateAccess(p) PROVE Goal
  <2>1. /\ WriteStep(p) /\ pc[p] = "update_access" /\ pc'[p] = "update_refresh"
        /\ Refresh' = Refresh
        /\ Access # {} => Access' # {}
        /\ \A a \in Access' : a.value = acs[p].value
    BY <1>11, UpdateAccessStep
  <2>2. Halfway(p) /\ acs[p].value = granted /\ granted' = granted
    BY <1>10, <2>1 DEF WriteStep
  <2>3. Halfway(p)' /\ Writing(p)'
    BY <2>1, <2>2 DEF Halfway, OneRefresh, Writing
  <2>4. QED
    BY <1>9, <2>1, <2>3
<1>12. ASSUME NEW p \in Run, UpdateRefresh(p) PROVE Goal
  <2>1. /\ WriteStep(p) /\ pc[p] = "update_refresh" /\ pc'[p] = "idle"
        /\ Access' = Access
        /\ OneRefresh => OneRefresh'
        /\ \A r \in Refresh' : r.value = rfs[p].value
    BY <1>12, UpdateRefreshStep
  <2>2. Halfway(p) /\ rfs[p].value = granted /\ granted' = granted
    BY <1>10, <2>1 DEF WriteStep
  <2>3. Settled' /\ ~Writing(p)'
    BY <2>1, <2>2 DEF Halfway, Settled, Writing
  <2>4. QED
    BY <1>9, <2>1, <2>3
<1>13. ASSUME NEW p \in Run, DeleteAccess(p) PROVE Goal
  <2>1. /\ WriteStep(p) /\ pc[p] = "delete_access" /\ pc'[p] = "delete_refresh" /\ Access' = {}
    BY <1>13, DeleteAccessStep
  <2>2. Halfway(p)' /\ Writing(p)'
    BY <1>10, <2>1 DEF Halfway, Writing, WriteStep
  <2>3. QED
    BY <1>9, <2>1, <2>2
<1>14. ASSUME NEW p \in Run, DeleteRefresh(p) PROVE Goal
  <2>1. /\ WriteStep(p) /\ pc[p] = "delete_refresh" /\ pc'[p] = "insert_access"
        /\ Access' = Access /\ Refresh' = {}
    BY <1>14, DeleteRefreshStep
  <2>2. Halfway(p)' /\ Writing(p)'
    BY <1>10, <2>1 DEF Halfway, Writing, WriteStep
  <2>3. QED
    BY <1>9, <2>1, <2>2
<1>15. ASSUME NEW p \in Run, InsertAccess(p) PROVE Goal
  <2>1. Writing(p)
    BY <1>15 DEF InsertAccess, Writing
  <2>2. /\ WriteStep(p) /\ pc[p] = "insert_access" /\ pc'[p] = "insert_refresh"
        /\ Refresh' = Refresh /\ \E a : a.value = acs[p].value /\ Access' = Access \cup {a}
    BY <1>10, <1>15, <2>1, InsertAccessStep
  <2>3. Halfway(p) /\ acs[p].value = granted /\ granted' = granted
    BY <1>10, <2>1, <2>2 DEF WriteStep
  <2>4. Access = {} /\ Refresh = {} /\ granted > 0
    BY <2>2, <2>3 DEF Halfway
  <2>5. Access' # {} /\ \A a \in Access' : a.value = granted
    BY <2>2, <2>3, <2>4
  <2>6. Halfway(p)' /\ Writing(p)'
    BY <2>2, <2>3, <2>4, <2>5 DEF Halfway, Writing
  <2>7. QED
    BY <1>9, <2>2, <2>6
<1>16. ASSUME NEW p \in Run, InsertRefresh(p) PROVE Goal
  <2>1. Writing(p)
    BY <1>16 DEF InsertRefresh, Writing
  <2>2. /\ WriteStep(p) /\ pc[p] = "insert_refresh" /\ pc'[p] = "idle"
        /\ Access' = Access /\ \E r : r.value = rfs[p].value /\ Refresh' = Refresh \cup {r}
    BY <1>10, <1>16, <2>1, InsertRefreshStep
  <2>3. Halfway(p) /\ rfs[p].value = granted /\ granted' = granted
    BY <1>10, <2>1, <2>2 DEF WriteStep
  <2>4. Refresh = {} /\ granted > 0 /\ Access # {} /\ \A a \in Access : a.value = granted
    BY <2>2, <2>3 DEF Halfway
  <2>5. OneRefresh' /\ \A r \in Refresh' : r.value = granted
    BY <2>2, <2>3, <2>4 DEF OneRefresh
  <2>6. Settled' /\ ~Writing(p)'
    BY <2>2, <2>3, <2>4, <2>5 DEF Settled, Writing
  <2>7. QED
    BY <1>9, <2>2, <2>6
<1>17. CASE UNCHANGED tokenVars
  BY <1>1, <1>17 DEF tokenVars, serverVars, CleanInv, Settled, Halfway, Writing, OneRefresh,
                     Access, Refresh, ApiAuthByName
<1>18. QED
  BY <1>2, <1>5, <1>6, <1>7, <1>8, <1>11, <1>12, <1>13, <1>14, <1>15, <1>16, <1>17
     DEF TokenNext, RunStep

(* Without failures no row without a name is ever inserted.                    *)
NoEmptyName == \A r \in api_auth : r.name # ""
NamesInv == happened = {} => NoEmptyName

(* Without a fault no row has an empty name.                                   *)
LEMMA NamesNext ==
    ASSUME TokenTypeOK, GrantInv, NamesInv, [TokenNext]_tokenVars
    PROVE  NamesInv'
<1> SUFFICES ASSUME happened' = {} PROVE \A r \in api_auth' : r.name # ""
  BY DEF NamesInv, NoEmptyName
<1>1. \A r \in api_auth : r.name # ""
  BY HappenedGrows DEF NamesInv, NoEmptyName
<1>2. CASE NewCode \/ Expire
  <2>1. \A r \in api_auth' : r.name = "auth_code" \/ \E o \in api_auth : r.name = o.name
    BY <1>2 DEF NewCode, Expire, ApiAuthByName, TokenTypeOK, ApiRow
  <2>2. QED
    BY <1>1, <2>1
<1>3. ASSUME NEW p \in Run, InsertAccess(p) \/ InsertRefresh(p)
      PROVE  \A r \in api_auth' : r.name # ""
  <2>1. OnlyWriter(p)
    BY <1>3 DEF InsertAccess, InsertRefresh, Writing, GrantInv
  <2>2. acs[p].name = "access_token" /\ rfs[p].name = "refresh_token"
    BY <2>1 DEF OnlyWriter
  <2>3. \A r \in api_auth' : r \in api_auth \/ r.name \in {"access_token", "refresh_token"}
    BY <1>3, <2>2 DEF InsertAccess, InsertRefresh, InsertApiAuth
  <2>4. QED
    BY <1>1, <2>3
<1>4. ASSUME NEW p \in Run, UpdateAccess(p) \/ UpdateRefresh(p)
      PROVE  \A r \in api_auth' : r.name # ""
  <2>1. PICK a \in Auth, h \in Nat : UpdateApiAuth(a, h)
    BY <1>4 DEF UpdateAccess, UpdateRefresh, TokenTypeOK
  <2>2. \A n : ApiAuthByName(n) = {} => ApiAuthByName(n)' = {}
    <3>1. \A n : n # a.name => ApiAuthByName(n)' = ApiAuthByName(n)
      BY <2>1, UpdateRows DEF TokenTypeOK
    <3>2. ApiAuthByName(a.name) = {} => ApiAuthByName(a.name)' = {}
      BY <2>1 DEF UpdateApiAuth, ApiAuthByName
    <3>3. QED
      BY <3>1, <3>2
  <2>3. ApiAuthByName("") = {}
    BY <1>1 DEF ApiAuthByName
  <2>4. QED
    BY <2>2, <2>3 DEF ApiAuthByName
<1>5. ASSUME NEW p \in Run, DeleteAccess(p) \/ DeleteRefresh(p)
      PROVE  \A r \in api_auth' : r.name # ""
  BY <1>1, <1>5 DEF DeleteAccess, DeleteRefresh, DeleteApiAuthByName
<1>6. ASSUME NEW p \in Run,
             \/ SelectCode(p) \/ SelectAccess(p) \/ SelectRefresh(p) \/ Refused(p)
             \/ RefreshAccessToken(p) \/ IssueAccessToken(p) \/ AnswerLost(p)
             \/ ExpireTimeUnreadable(p) \/ InsertRejected(p) \/ RunFails(p)
      PROVE  api_auth' = api_auth
  BY <1>6 DEF SelectCode, SelectAccess, SelectRefresh, Refused, RefreshAccessToken,
              IssueAccessToken, AnswerLost, ExpireTimeUnreadable, InsertRejected, RunFails
<1>7. CASE UNCHANGED tokenVars
  BY <1>1, <1>7 DEF tokenVars
<1>8. QED
  BY <1>1, <1>2, <1>3, <1>4, <1>5, <1>6, <1>7 DEF TokenNext, RunStep

TokenInv == TokenTypeOK /\ WholeInv /\ CleanInv /\ NamesInv

(* The pairs of name and value in a settled table.                             *)
LEMMA SettledPair ==
    ASSUME TokenTypeOK, Settled, granted > 0, NoEmptyName
    PROVE  /\ {<<r.name, r.value>> : r \in {r \in api_auth : r.name # "auth_code"}}
                 = {<<"access_token", granted>>, <<"refresh_token", granted>>}
           /\ Cardinality(Refresh) = 1
<1>1. /\ Access # {} /\ \A a \in Access : a.value = granted
      /\ OneRefresh /\ \A r \in Refresh : r.value = granted
  <2>1. granted \in Nat
    BY GrantedNat
  <2>2. granted # 0
    BY <2>1
  <2>3. QED
    BY <2>2 DEF Settled
<1>2. PICK a \in Access, r \in Refresh : TRUE
  BY <1>1 DEF OneRefresh
<1>3. {x \in api_auth : x.name # "auth_code"} = Access \cup Refresh
  BY DEF Access, Refresh, ApiAuthByName, TokenTypeOK, ApiRow, Name, NoEmptyName
<1>4. /\ \A x \in Access : <<x.name, x.value>> = <<"access_token", granted>>
      /\ \A x \in Refresh : <<x.name, x.value>> = <<"refresh_token", granted>>
  BY <1>1 DEF Access, Refresh, ApiAuthByName
<1>5. {<<x.name, x.value>> : x \in Access \cup Refresh}
         = {<<"access_token", granted>>, <<"refresh_token", granted>>}
  BY <1>2, <1>4
<1>6. Cardinality(Refresh) = 1
  BY <1>1, FS_Singleton DEF OneRefresh
<1>7. QED
  BY <1>3, <1>5, <1>6

(* However the runs overlap, when none is at work and no call failed the table *)
(* holds the pair the server granted last, once: StoredPairIsLatest, for any   *)
(* number of runs, grants and codes.                                           *)
THEOREM StoredPairIsTheLatest == TokenSpec => []StoredPairIsLatest
<1>1. TokenInit => TokenInv
  BY TokenTypeInit, WholeInit, CleanInit DEF TokenInv, NamesInv, NoEmptyName, TokenInit
<1>2. TokenInv /\ [TokenNext]_tokenVars => TokenInv'
  <2> SUFFICES ASSUME TokenInv, [TokenNext]_tokenVars PROVE TokenInv'
    OBVIOUS
  <2>1. TokenTypeOK' /\ WholeInv'
    BY TokenTypeNext, WholeNext DEF TokenInv
  <2>2. CASE happened' = {}
    <3>1. GrantInv
      BY <2>2, HappenedGrows DEF TokenInv, WholeInv
    <3>2. QED
      BY <2>1, <3>1, CleanNext, NamesNext DEF TokenInv
  <2>3. CASE happened' # {}
    BY <2>1, <2>3 DEF TokenInv, CleanInv, NamesInv
  <2>4. QED
    BY <2>2, <2>3
<1>3. TokenInv => StoredPairIsLatest
  <2> SUFFICES ASSUME TokenInv, AtRest, happened = {}, granted > 0
               PROVE  /\ {<<r.name, r.value>> : r \in {r \in api_auth : r.name # "auth_code"}}
                            = {<<"access_token", granted>>, <<"refresh_token", granted>>}
                      /\ Cardinality(ApiAuthByName("refresh_token")) = 1
    BY DEF StoredPairIsLatest
  <2>1. Settled
    BY DEF TokenInv, CleanInv, AtRest, Writing
  <2>2. NoEmptyName
    BY DEF TokenInv, NamesInv
  <2>3. QED
    BY <2>1, <2>2, SettledPair DEF TokenInv, Refresh
<1>4. QED
  BY <1>1, <1>2, <1>3, PTL DEF TokenSpec

=============================================================================
