------------------------------- MODULE ApiToken -------------------------------
(* chtice_batch token: one run keeps the pair of OAuth tokens in API_AUTH in    *)
(* step with the authorization server. Every SELECT, HTTPS call, UPDATE,       *)
(* DELETE and INSERT is a step of its own, and nothing keeps two runs apart:   *)
(* cron and an operator may start one each.                                    *)
EXTENDS Integers, FiniteSets

CONSTANTS
    Run,          \* processes that may be at work at the same time
    MaxGrant,     \* bound: pairs of tokens the server grants
    MaxCode,      \* bound: authorization codes the operator obtains
    FaultKinds,   \* those of "http", "db", "answer", "crash" that may happen
    AnswerFields  \* which tokens an answer may carry; {} is "content": null

FullAnswer == {"accessToken", "refreshToken"}

ASSUME ApiTokenAssumption ==
    /\ MaxGrant \in Nat /\ MaxCode \in Nat
    /\ AnswerFields \subseteq SUBSET FullAnswer

VARIABLES
    api_auth,  \* table: a set of rows; no statement tells equal rows apart
    granted,   \* server: number of the last pair it granted
    code,      \* server: number of the last authorization code
    redeemed,  \* server: the last code that was traded for a pair
    pc,        \* Run -> the call batchManagementApiToken makes next
    cod,       \* Run -> cod_auth.value
    acs,       \* Run -> acs_auth
    rfs,       \* Run -> rfs_auth
    happened   \* kinds of fault so far

serverVars == <<granted, code, redeemed>>
tokenVars  == <<api_auth, serverVars, pc, cod, acs, rfs, happened>>

(* API_AUTH. A value is the number of the code or of the grant it comes from;  *)
(* 0 is ''. live says expire_time is still ahead.                              *)
Name   == {"auth_code", "access_token", "refresh_token", ""}
Auth   == [name : Name, value : Nat]
ApiRow == [name : Name, value : Nat, live : BOOLEAN]
NoAuth == [name |-> "", value |-> 0]

TokenPc == {"idle", "access", "refresh_row", "refresh", "update_access", "update_refresh",
            "issue", "delete_access", "delete_refresh", "insert_access", "insert_refresh"}

Fault(kind) == kind \in FaultKinds /\ happened' = happened \cup {kind}

TokenInit ==
    /\ api_auth = {}
    /\ granted = 0 /\ code = 0 /\ redeemed = 0
    /\ pc = [p \in Run |-> "idle"]
    /\ cod = [p \in Run |-> 0]
    /\ acs = [p \in Run |-> NoAuth]
    /\ rfs = [p \in Run |-> NoAuth]
    /\ happened = {}

----------------------------------------------------------------------------
(* The statements on API_AUTH *)

ApiAuthByName(name) == {r \in api_auth : r.name = name}

InsertApiAuth(a) ==
    api_auth' = api_auth \cup {[name |-> a.name, value |-> a.value, live |-> TRUE]}

(* Without hours to add the expiry stays what it was.                          *)
UpdateApiAuth(a, add_expire) ==
    api_auth' = {r \in api_auth : r.name # a.name}
        \cup {[r EXCEPT !.value = a.value, !.live = IF add_expire > 0 THEN TRUE ELSE @] :
                 r \in ApiAuthByName(a.name)}

DeleteApiAuthByName(name) == api_auth' = api_auth \ ApiAuthByName(name)

----------------------------------------------------------------------------
(* The server and the operator, external *)

AtRest == \A p \in Run : pc[p] = "idle"

(* The operator puts a new code into the table when the tokens can no longer   *)
(* be refreshed, and not while a run is at work.                               *)
NewCode ==
    /\ AtRest
    /\ code < MaxCode
    /\ \A r \in ApiAuthByName("refresh_token") : ~r.live
    /\ code' = code + 1
    /\ api_auth' = (api_auth \ ApiAuthByName("auth_code"))
                     \cup {[name |-> "auth_code", value |-> code + 1, live |-> TRUE]}
    /\ UNCHANGED <<granted, redeemed, pc, cod, acs, rfs, happened>>

Expire ==
    /\ \E r \in ApiAuthByName("refresh_token") :
          r.live /\ api_auth' = (api_auth \ {r}) \cup {[r EXCEPT !.live = FALSE]}
    /\ UNCHANGED <<serverVars, pc, cod, acs, rfs, happened>>

(* Codes and refresh tokens are good for one grant: the last one handed out.   *)
Redeemable(c) == c = code /\ redeemed < code /\ granted < MaxGrant
Refreshable(a) == a.name = "refresh_token" /\ a.value = granted /\ granted < MaxGrant

----------------------------------------------------------------------------
(* One run *)

Goto(p, next) == pc' = [pc EXCEPT ![p] = next]

(* The run returns, or its process dies.                                       *)
End(p) ==
    /\ Goto(p, "idle")
    /\ cod' = [cod EXCEPT ![p] = 0]
    /\ acs' = [acs EXCEPT ![p] = NoAuth]
    /\ rfs' = [rfs EXCEPT ![p] = NoAuth]

(* Without a code the run ends before it has done anything.                    *)
SelectCode(p) ==
    /\ pc[p] = "idle"
    /\ \E r \in ApiAuthByName("auth_code") : cod' = [cod EXCEPT ![p] = r.value]
    /\ Goto(p, "access")
    /\ UNCHANGED <<api_auth, serverVars, acs, rfs, happened>>

SelectAccess(p) ==
    /\ pc[p] = "access"
    /\ \/ ApiAuthByName("access_token") = {} /\ Goto(p, "issue") /\ UNCHANGED acs
       \/ \E r \in ApiAuthByName("access_token") :
             /\ acs' = [acs EXCEPT ![p] = [name |-> r.name, value |-> r.value]]
             /\ Goto(p, "refresh_row")
    /\ UNCHANGED <<api_auth, serverVars, cod, rfs, happened>>

(* Mutant: zero rows are taken for a row.                                      *)
SelectRefreshOfNothing(p) ==
    /\ pc[p] = "refresh_row"
    /\ \/ ApiAuthByName("refresh_token") = {} /\ Goto(p, "refresh") /\ UNCHANGED rfs
       \/ \E r \in ApiAuthByName("refresh_token") :
             /\ rfs' = [rfs EXCEPT ![p] = [name |-> r.name, value |-> r.value]]
             /\ Goto(p, IF r.live THEN "refresh" ELSE "issue")
    /\ UNCHANGED <<api_auth, serverVars, cod, acs, happened>>

SelectRefresh(p) ==
    /\ pc[p] = "refresh_row"
    /\ \/ ApiAuthByName("refresh_token") = {} /\ Goto(p, "issue") /\ UNCHANGED rfs
       \/ \E r \in ApiAuthByName("refresh_token") :
             /\ rfs' = [rfs EXCEPT ![p] = [name |-> r.name, value |-> r.value]]
             /\ Goto(p, IF r.live THEN "refresh" ELSE "issue")
    /\ UNCHANGED <<api_auth, serverVars, cod, acs, happened>>

(* The row's expire_time is not of the form get_time reads: the run ends.      *)
ExpireTimeUnreadable(p) ==
    /\ pc[p] = "refresh_row" /\ ApiAuthByName("refresh_token") # {}
    /\ End(p)
    /\ UNCHANGED <<api_auth, serverVars, happened>>

(* What an answer leaves in the two records: a token that is missing, or a     *)
(* content that is null, leaves what the table held, or nothing.               *)
Answer(p, fields) ==
    /\ IF fields = FullAnswer THEN UNCHANGED happened ELSE Fault("answer")
    /\ granted' = IF fields = {} THEN granted ELSE granted + 1
    /\ acs' = [acs EXCEPT ![p] = IF "accessToken" \in fields
                 THEN [name |-> "access_token", value |-> granted + 1] ELSE @]
    /\ rfs' = [rfs EXCEPT ![p] = IF "refreshToken" \in fields
                 THEN [name |-> "refresh_token", value |-> granted + 1] ELSE @]

RefreshAccessToken(p) ==
    /\ pc[p] = "refresh"
    /\ Refreshable(rfs[p])
    /\ \E fields \in AnswerFields : Answer(p, fields)
    /\ Goto(p, "update_access")
    /\ UNCHANGED <<api_auth, code, redeemed, cod>>

IssueAccessToken(p) ==
    /\ pc[p] = "issue"
    /\ Redeemable(cod[p])
    /\ \E fields \in AnswerFields :
          Answer(p, fields) /\ redeemed' = IF fields = {} THEN redeemed ELSE code
    /\ Goto(p, "delete_access")
    /\ UNCHANGED <<api_auth, code, cod>>

(* The server refuses, for a reason of its own or because what it was shown is *)
(* used up. There is no way from here to the other kind of grant.              *)
Refused(p) ==
    /\ pc[p] \in {"refresh", "issue"}
    /\ End(p)
    /\ UNCHANGED <<api_auth, serverVars, happened>>

(* Mutant: a request that failed is not looked at.                             *)
AnswerLostGoesOn(p) ==
    /\ \/ /\ pc[p] = "refresh" /\ Refreshable(rfs[p])
          /\ Goto(p, "update_access") /\ UNCHANGED redeemed
       \/ /\ pc[p] = "issue" /\ Redeemable(cod[p])
          /\ Goto(p, "delete_access") /\ redeemed' = code
    /\ Fault("http")
    /\ granted' = granted + 1
    /\ UNCHANGED <<api_auth, code, cod, acs, rfs>>

(* The server granted and the answer did not arrive.                           *)
AnswerLost(p) ==
    /\ \/ pc[p] = "refresh" /\ Refreshable(rfs[p]) /\ UNCHANGED redeemed
       \/ /\ pc[p] = "issue"
          /\ Redeemable(cod[p])
          /\ redeemed' = code
    /\ Fault("http")
    /\ granted' = granted + 1
    /\ End(p)
    /\ UNCHANGED <<api_auth, code>>

(* Mutant: the second UPDATE is forgotten.                                     *)
UpdateAccessOnly(p) ==
    /\ pc[p] = "update_access"
    /\ UpdateApiAuth(acs[p], 24)
    /\ End(p)
    /\ UNCHANGED <<serverVars, happened>>

(* Mutant: the wrong record is written.                                        *)
UpdateAccessWritesRefresh(p) ==
    /\ pc[p] = "update_access"
    /\ UpdateApiAuth(rfs[p], 24)
    /\ Goto(p, "update_refresh")
    /\ UNCHANGED <<serverVars, cod, acs, rfs, happened>>

UpdateAccess(p) ==
    /\ pc[p] = "update_access"
    /\ UpdateApiAuth(acs[p], 24)
    /\ Goto(p, "update_refresh")
    /\ UNCHANGED <<serverVars, cod, acs, rfs, happened>>

UpdateRefresh(p) ==
    /\ pc[p] = "update_refresh"
    /\ UpdateApiAuth(rfs[p], 0)
    /\ End(p)
    /\ UNCHANGED <<serverVars, happened>>

(* A statement that fails answers EXIT_FAILURE, 1; the callers of the DELETE   *)
(* look for less than zero, and go on.                                         *)
DeleteAccess(p) ==
    /\ pc[p] = "delete_access"
    /\ \/ DeleteApiAuthByName("access_token") /\ UNCHANGED happened
       \/ Fault("db") /\ UNCHANGED api_auth
    /\ Goto(p, "delete_refresh")
    /\ UNCHANGED <<serverVars, cod, acs, rfs>>

DeleteRefresh(p) ==
    /\ pc[p] = "delete_refresh"
    /\ \/ DeleteApiAuthByName("refresh_token") /\ UNCHANGED happened
       \/ Fault("db") /\ UNCHANGED api_auth
    /\ Goto(p, "insert_access")
    /\ UNCHANGED <<serverVars, cod, acs, rfs>>

InsertAccess(p) ==
    /\ pc[p] = "insert_access"
    /\ InsertApiAuth(acs[p])
    /\ Goto(p, "insert_refresh")
    /\ UNCHANGED <<serverVars, cod, acs, rfs, happened>>

InsertRefresh(p) ==
    /\ pc[p] = "insert_refresh"
    /\ InsertApiAuth(rfs[p])
    /\ End(p)
    /\ UNCHANGED <<serverVars, happened>>

(* The name is there already, from a DELETE that failed or an empty row of an   *)
(* earlier run. No schema is kept here: a unique key may or may not refuse it. *)
InsertRejected(p) ==
    /\ \/ pc[p] = "insert_access" /\ ApiAuthByName(acs[p].name) # {}
       \/ pc[p] = "insert_refresh" /\ ApiAuthByName(rfs[p].name) # {}
    /\ End(p)
    /\ UNCHANGED <<api_auth, serverVars, happened>>

(* The statements whose failure ends the run, or a crash anywhere.             *)
RunFails(p) ==
    /\ \/ Fault("db") /\ pc[p] \in {"access", "refresh_row", "update_access", "update_refresh",
                                    "insert_access", "insert_refresh"}
       \/ Fault("crash") /\ pc[p] # "idle"
    /\ End(p)
    /\ UNCHANGED <<api_auth, serverVars>>

RunStep(p) ==
    \/ SelectCode(p) \/ SelectAccess(p) \/ SelectRefresh(p) \/ ExpireTimeUnreadable(p)
    \/ RefreshAccessToken(p) \/ IssueAccessToken(p) \/ Refused(p) \/ AnswerLost(p)
    \/ UpdateAccess(p) \/ UpdateRefresh(p)
    \/ DeleteAccess(p) \/ DeleteRefresh(p)
    \/ InsertAccess(p) \/ InsertRefresh(p) \/ InsertRejected(p)
    \/ RunFails(p)

TokenNext == NewCode \/ Expire \/ \E p \in Run : RunStep(p)

TokenSpec == TokenInit /\ [][TokenNext]_tokenVars

----------------------------------------------------------------------------
(* Invariants *)

(* The rows and records there can be, and which record a control point needs.  *)
TokenTypeOK ==
    /\ api_auth \subseteq ApiRow
    /\ granted \in 0 .. MaxGrant
    /\ code \in 0 .. MaxCode /\ redeemed \in 0 .. code
    /\ pc \in [Run -> TokenPc]
    /\ cod \in [Run -> Nat] /\ acs \in [Run -> Auth] /\ rfs \in [Run -> Auth]
    /\ happened \subseteq FaultKinds
    /\ \A p \in Run :
          /\ pc[p] \in {"refresh_row", "refresh", "update_access", "update_refresh"}
                => acs[p].name = "access_token"
          /\ pc[p] \in {"refresh", "update_access", "update_refresh"}
                => rfs[p].name = "refresh_token"

(* However the runs overlap, when none is at work and no call failed, the      *)
(* table holds the pair the server granted last, once: a run that read the     *)
(* table before another one wrote it is refused by the server before it can    *)
(* write over the newer pair.                                                  *)
StoredPairIsLatest ==
    AtRest /\ happened = {} /\ granted > 0 =>
        /\ {<<r.name, r.value>> : r \in {r \in api_auth : r.name # "auth_code"}}
              = {<<"access_token", granted>>, <<"refresh_token", granted>>}
        /\ Cardinality(ApiAuthByName("refresh_token")) = 1

(* Wherever a run is cut off and whichever statements fail, the refresh token  *)
(* in the table is never newer than every access token beside it: with whole   *)
(* answers the access token is always written first.                           *)
RefreshNotAhead ==
    "answer" \notin happened /\ ApiAuthByName("access_token") # {} =>
        \A r \in ApiAuthByName("refresh_token") :
            \E a \in ApiAuthByName("access_token") : a.value >= r.value

(* However the runs overlap and wherever they are cut off, a run that puts a    *)
(* token into the table that was not there puts one of the pair granted last:  *)
(* with whole answers none writes an older token over a newer one, or beside   *)
(* it, also not after a DELETE that took the newer one away.                   *)
WritesTheNewest ==
    [][\A name \in {"access_token", "refresh_token"} : \A r \in ApiAuthByName(name)' :
          "answer" \notin happened' /\ (\A o \in ApiAuthByName(name) : o.value # r.value)
             => r.value = granted']_tokenVars

----------------------------------------------------------------------------
(* What a comment of the program says and the code does not keep: before it    *)
(* inserts the new pair a run has deleted the old one.                         *)
DeletedBeforeInsert ==
    \A p \in Run :
        pc[p] = "insert_access" => ApiAuthByName("access_token") = {}

=============================================================================
