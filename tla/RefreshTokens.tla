--------------------------- MODULE RefreshTokens ----------------------------
(***************************************************************************)
(* Rotating refresh tokens (core/refresh-tokens.ts, api/auth.ts): the      *)
(* table refresh_tokens and the requests that work on it.  A request is a  *)
(* sequence of D1 statements, each atomic; requests interleave between     *)
(* statements, and one may die at any of them.                             *)
(***************************************************************************)
EXTENDS Naturals, FiniteSets

CONSTANTS
  Accounts,   \* accounts
  Requests,   \* requests that may be in flight at once
  MaxToken,   \* bound: tokens stored in one behaviour
  MaxResets   \* bound: password resets per account

ASSUME RefreshTokensConstants ==
  /\ MaxToken \in Nat
  /\ MaxResets \in Nat

VARIABLES
  filled,    \* tokens stored so far: token_hash is a fresh number
  status,    \* state of each token's row; an unspent one may expire
  family_id, \* the token that opened the session
  user_id,   \* its account
  exists,    \* users with a row
  password,  \* the user's password_hash, as the number of resets
  req,       \* requests in flight
  held,      \* tokens some client has received
  basis,     \* history: the password a token's session was opened with
  cleared    \* history: the password at the account's last revokeAll that
             \* found no login and no rotation of the account under way

tokenTable == <<filled, status, family_id, user_id, basis>>
accounts == <<exists, password>>
tokenVars == <<tokenTable, accounts, req, held, cleared>>

Tokens == 1..MaxToken
NoToken == 0
NoUser == "nobody"

NoRequest == [at |-> "idle", token |-> NoToken, family |-> NoToken, user |-> NoUser,
              basis |-> 0]

RowStates == {"none", "live", "spent", "expired", "deleted"}

RequestStates ==
  [at : {"idle", "verified", "claim", "insert", "get_user", "replay", "kill",
         "answer", "revoke"},
   token : 0..MaxToken, family : 0..MaxToken, user : Accounts \cup {NoUser},
   basis : 0..MaxResets]

TokensInit ==
  /\ filled = 0
  /\ status = [t \in Tokens |-> "none"]
  /\ family_id = [t \in Tokens |-> NoToken]
  /\ user_id = [t \in Tokens |-> NoUser]
  /\ basis = [t \in Tokens |-> 0]
  /\ exists = Accounts
  /\ password = [u \in Accounts |-> 0]
  /\ req = [r \in Requests |-> NoRequest]
  /\ held = {}
  /\ cleared = [u \in Accounts |-> 0]

TokensTypeOK ==
  /\ filled \in 0..MaxToken
  /\ status \in [Tokens -> RowStates]
  /\ family_id \in [Tokens -> 0..MaxToken]
  /\ user_id \in [Tokens -> Accounts \cup {NoUser}]
  /\ basis \in [Tokens -> 0..MaxResets]
  /\ exists \subseteq Accounts
  /\ password \in [Accounts -> 0..MaxResets]
  /\ req \in [Requests -> RequestStates]
  /\ held \subseteq Tokens
  /\ cleared \in [Accounts -> 0..MaxResets]

ReqAt(r, step) == req[r].at = step
Go(r, new) == req' = [req EXCEPT ![r] = new]
EndRequest(r) == Go(r, NoRequest)

(* Rows that a DELETE removes.                                             *)
DeleteRows(tokens) ==
  status' = [t \in Tokens |->
            IF t \in tokens /\ status[t] # "none" THEN "deleted" ELSE status[t]]

(* INSERT of request r's new token.  The foreign key on users throws when  *)
(* the account is gone, and the request ends in an error.                  *)
Insert(r, fam, step) ==
  LET q == req[r]
      t == filled + 1
  IN /\ filled < MaxToken
     /\ IF q.user \in exists
          THEN /\ filled' = t
               /\ status' = [status EXCEPT ![t] = "live"]
               /\ family_id' = [family_id EXCEPT ![t] = IF fam = NoToken THEN t ELSE fam]
               /\ user_id' = [user_id EXCEPT ![t] = q.user]
               /\ basis' = [basis EXCEPT ![t] = q.basis]
               /\ Go(r, [NoRequest EXCEPT !.at = step, !.token = t, !.user = q.user])
          ELSE EndRequest(r) /\ UNCHANGED tokenTable
     /\ UNCHANGED <<accounts, held, cleared>>

(* ------------------------------ POST /login ----------------------------- *)

(* getUserByEmail and verifyPassword, against the hash that was read.      *)
VerifyPassword(r, u) ==
  /\ ReqAt(r, "idle") /\ u \in exists
  /\ Go(r, [NoRequest EXCEPT !.at = "verified", !.user = u, !.basis = password[u]])
  /\ UNCHANGED <<tokenTable, accounts, held, cleared>>

(* issueRefreshToken: a family of its own.                                 *)
OpenSession(r) == ReqAt(r, "verified") /\ Insert(r, NoToken, "answer")

(* The answer reaches the client.                                          *)
Answer(r) ==
  /\ ReqAt(r, "answer")
  /\ held' = held \cup {req[r].token}
  /\ EndRequest(r)
  /\ UNCHANGED <<tokenTable, accounts, cleared>>

(* ----------------------------- POST /refresh ---------------------------- *)

(* A client presents a token it holds.                                     *)
PresentToken(r, t) ==
  /\ ReqAt(r, "idle") /\ t \in held
  /\ Go(r, [NoRequest EXCEPT !.at = "claim", !.token = t])
  /\ UNCHANGED <<tokenTable, accounts, held, cleared>>

(* Mutants: the claim forgets `used_at IS NULL', or `expires_at > now'.    *)
ClaimableTwice(t) == status[t] \in {"live", "spent"}
ClaimableExpired(t) == status[t] \in {"live", "expired"}

Claimable(t) == status[t] = "live"

(* UPDATE ... WHERE used_at IS NULL AND expires_at > now RETURNING.        *)
ClaimToken(r) ==
  LET t == req[r].token IN
  /\ ReqAt(r, "claim")
  /\ IF Claimable(t)
       THEN /\ status' = [status EXCEPT ![t] = "spent"]
            /\ Go(r, [NoRequest EXCEPT !.at = "insert", !.family = family_id[t],
                                 !.user = user_id[t], !.basis = basis[t]])
       ELSE Go(r, [req[r] EXCEPT !.at = "replay"]) /\ UNCHANGED status
  /\ UNCHANGED <<filled, family_id, user_id, basis, accounts, held, cleared>>

InsertReplacement(r) == ReqAt(r, "insert") /\ Insert(r, req[r].family, "get_user")

(* getUserById: the account may be gone by now.                            *)
ReadUser(r) ==
  /\ ReqAt(r, "get_user")
  /\ IF req[r].user \in exists
       THEN Go(r, [req[r] EXCEPT !.at = "answer"]) ELSE EndRequest(r)
  /\ UNCHANGED <<tokenTable, accounts, held, cleared>>

(* getSpentRefreshFamily.                                                  *)
LookUpSpent(r) ==
  LET t == req[r].token IN
  /\ ReqAt(r, "replay")
  /\ IF status[t] = "spent"
       THEN Go(r, [NoRequest EXCEPT !.at = "kill", !.family = family_id[t]])
       ELSE EndRequest(r)
  /\ UNCHANGED <<tokenTable, accounts, held, cleared>>

(* deleteRefreshFamily.                                                    *)
KillFamily(r) ==
  /\ ReqAt(r, "kill")
  /\ DeleteRows({t \in Tokens : family_id[t] = req[r].family})
  /\ EndRequest(r)
  /\ UNCHANGED <<filled, family_id, user_id, basis, accounts, held, cleared>>

(* ------------------- logout, password reset, erasure -------------------- *)

(* POST /logout: one DELETE of the presented token's row.                  *)
LogoutToken(t) ==
  /\ t \in held
  /\ DeleteRows({t})
  /\ UNCHANGED <<filled, family_id, user_id, basis, accounts, req, held, cleared>>

(* POST /password/reset: the password, then every session of the account.  *)
SetPassword(r, u) ==
  /\ ReqAt(r, "idle") /\ u \in exists /\ password[u] < MaxResets
  /\ password' = [password EXCEPT ![u] = @ + 1]
  /\ Go(r, [NoRequest EXCEPT !.at = "revoke", !.user = u])
  /\ UNCHANGED <<tokenTable, exists, held, cleared>>

Issuing(u) == \E r \in Requests : req[r].user = u /\ req[r].at \in {"verified", "insert"}

(* Mutant: the reset ends the sessions it can tell are in use.             *)
RevokeAllHeld(r) ==
  LET u == req[r].user IN
  /\ ReqAt(r, "revoke")
  /\ DeleteRows({t \in held : user_id[t] = u})
  /\ cleared' = IF Issuing(u) THEN cleared ELSE [cleared EXCEPT ![u] = password[u]]
  /\ EndRequest(r)
  /\ UNCHANGED <<filled, family_id, user_id, basis, accounts, held>>

RevokeAll(r) ==
  LET u == req[r].user IN
  /\ ReqAt(r, "revoke")
  /\ DeleteRows({t \in Tokens : user_id[t] = u})
  /\ cleared' = IF Issuing(u) THEN cleared ELSE [cleared EXCEPT ![u] = password[u]]
  /\ EndRequest(r)
  /\ UNCHANGED <<filled, family_id, user_id, basis, accounts, held>>

(* Mutant: erasure leaves the sessions behind.                             *)
DeleteUserRowOnly(u) ==
  /\ u \in exists
  /\ exists' = exists \ {u}
  /\ UNCHANGED <<tokenTable, password, req, held, cleared>>

(* DELETE /me: the row, and by ON DELETE CASCADE its sessions.             *)
DeleteUser(u) ==
  /\ u \in exists
  /\ exists' = exists \ {u}
  /\ DeleteRows({t \in Tokens : user_id[t] = u})
  /\ UNCHANGED <<filled, family_id, user_id, basis, password, req, held, cleared>>

(* ------------------------------ the clock ------------------------------- *)

ExpireToken(t) ==
  /\ status[t] = "live"
  /\ status' = [status EXCEPT ![t] = "expired"]
  /\ UNCHANGED <<filled, family_id, user_id, basis, accounts, req, held, cleared>>

(* The daily clean-up: expired rows, and spent ones after a week.          *)
CleanUp(t) ==
  /\ status[t] \in {"spent", "expired"}
  /\ DeleteRows({t})
  /\ UNCHANGED <<filled, family_id, user_id, basis, accounts, req, held, cleared>>

(* The isolate dies, a statement fails, or the answer is lost.             *)
Drop(r) ==
  /\ ~ReqAt(r, "idle")
  /\ EndRequest(r)
  /\ UNCHANGED <<tokenTable, accounts, held, cleared>>

Step(r) ==
  \/ \E u \in Accounts : VerifyPassword(r, u) \/ SetPassword(r, u)
  \/ \E t \in Tokens : PresentToken(r, t)
  \/ OpenSession(r) \/ Answer(r)
  \/ ClaimToken(r) \/ InsertReplacement(r) \/ ReadUser(r)
  \/ LookUpSpent(r) \/ KillFamily(r)
  \/ RevokeAll(r)
  \/ Drop(r)

TokensNext ==
  \/ \E r \in Requests : Step(r)
  \/ \E t \in Tokens : LogoutToken(t) \/ ExpireToken(t) \/ CleanUp(t)
  \/ \E u \in Accounts : DeleteUser(u)

TokensSpec == TokensInit /\ [][TokensNext]_tokenVars

(* ----------------------------- properties ------------------------------- *)

LiveOf(f) == {t \in Tokens : status[t] = "live" /\ family_id[t] = f}
RotatingOf(f) == {r \in Requests : ReqAt(r, "insert") /\ req[r].family = f}

(* One device, one usable token: a family has at most one live token or    *)
(* one rotation between its claim and its insert, never both, however many *)
(* refreshes race (rotateRefreshToken).                                    *)
OneLivePerFamily ==
  \A f \in Tokens :
    /\ \A s, t \in LiveOf(f) : s = t
    /\ \A q, r \in RotatingOf(f) : q = r
    /\ LiveOf(f) = {} \/ RotatingOf(f) = {}

Over(f) == f <= filled /\ LiveOf(f) = {} /\ RotatingOf(f) = {}

(* A session that is over stays over: signed out, replayed, expired or     *)
(* erased, once a family has neither a live token nor a rotation under way *)
(* nothing brings it back (claimRefreshToken).                             *)
OverIsOver == [][\A f \in Tokens : Over(f) => Over(f)']_tokenVars

(* Erasure is complete: no session of a deleted account is left, and a     *)
(* login or a rotation that was under way adds none (DELETE /me, the       *)
(* foreign key of migration 0007).                                         *)
NoOrphanSession ==
  \A t \in Tokens : status[t] \in {"live", "spent", "expired"} => user_id[t] \in exists

(* The table between statements: one usable token per device, and none of  *)
(* an account that was deleted (refresh-tokens.ts).                        *)
TokensSafe ==
  /\ TokensTypeOK
  /\ OneLivePerFamily
  /\ NoOrphanSession

(* Why the three hold: rows are filled in order, a family's id is that of  *)
(* its first token, and what a request carries was read from the table.    *)
TableInv ==
  /\ \A t \in Tokens : status[t] = "none" <=> t > filled
  /\ \A t \in Tokens : status[t] # "none" => family_id[t] \in 1..filled
  /\ \A r \in Requests :
       /\ ReqAt(r, "insert") \/ ReqAt(r, "kill") => req[r].family \in 1..filled
       /\ ReqAt(r, "claim") \/ ReqAt(r, "replay") \/ ReqAt(r, "answer") \/ ReqAt(r, "get_user") =>
            req[r].token \in Tokens

TokensInv == TokensTypeOK /\ TableInv /\ OneLivePerFamily /\ NoOrphanSession

(* A reset that finds no login and no rotation of the account under way    *)
(* ends every session an older password opened, and no token of theirs is  *)
(* usable again (auth.ts:353-357).                                         *)
ResetEndsOldSessions ==
  \A t \in Tokens : status[t] = "live" => basis[t] >= cleared[user_id[t]]

(* Why: what is under way was opened with a password that is new enough.   *)
ResetInv ==
  /\ ResetEndsOldSessions
  /\ \A r \in Requests : req[r].at \in {"verified", "insert"} =>
       req[r].user \in Accounts /\ req[r].basis >= cleared[req[r].user]
  /\ \A u \in Accounts : cleared[u] <= password[u]
=============================================================================
