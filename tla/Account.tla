------------------------------- MODULE Account -------------------------------
(***************************************************************************)
(* One address's account as the requests of /api/auth change it            *)
(* (api/auth.ts, core/auth-tokens.ts, db/queries.ts): signing up, the      *)
(* mailed links, the password reset, the location and erasure.  A request  *)
(* is one process; each D1 statement is a step of its own, and requests    *)
(* interleave between them.  Sessions are counted here and detailed in     *)
(* RefreshTokens.                                                          *)
(***************************************************************************)
EXTENDS Integers, FiniteSets

CONSTANTS
  Requests,    \* requests that can be in flight at once
  POINTS,      \* coordinates a user may send
  REGION_OF,   \* the region a point's address matches, NoRegion if none
  NoRegion,
  MaxUsers,    \* bound: accounts ever created for the address
  MaxTokens    \* bound: links ever issued

ASSUME AccountConstants ==
  /\ REGION_OF \in [POINTS -> STRING \cup {NoRegion}]
  /\ MaxUsers \in Nat \ {0} /\ MaxTokens \in Nat

Users == 1..MaxUsers
Tokens == 1..MaxTokens
Purposes == {"verify_email", "reset_password"}
Regions == {REGION_OF[p] : p \in POINTS} \cup {NoRegion}
NoPoint == "NULL"

VARIABLES
  user,      \* users: the row of each id
  created,   \* ids handed out so far
  link,      \* auth_tokens: the row of each token
  issued,    \* tokens minted so far
  signedIn,  \* ids with a refresh token
  req,       \* the requests in flight
  redeemed,  \* history: how often each token was redeemed
  changed,   \* history: reset links whose password landed
  dropped,   \* history: reset links whose request died before that
  lookup     \* history: whether the lookup behind a row's region completed

ghosts == <<redeemed, changed, dropped, lookup>>
vars == <<user, created, link, issued, signedIn, req, ghosts>>

NoUser == [exists |-> FALSE, verified |-> FALSE, password |-> "first",
           point |-> NoPoint, region |-> NoRegion]
NoLink == [status |-> "absent", user |-> 0, purpose |-> "verify_email"]
Idle == [pc |-> "idle", user |-> 0, token |-> 0, purpose |-> "verify_email",
         point |-> NoPoint, region |-> NoRegion, ok |-> FALSE]

Init ==
  /\ user = [u \in Users |-> NoUser] /\ created = 0
  /\ link = [t \in Tokens |-> NoLink] /\ issued = 0
  /\ signedIn = {}
  /\ req = [r \in Requests |-> Idle]
  /\ redeemed = [t \in Tokens |-> 0] /\ changed = {} /\ dropped = {}
  /\ lookup = [u \in Users |-> TRUE]

TypeOK ==
  /\ user \in [Users -> [exists : BOOLEAN, verified : BOOLEAN, password : {"first", "new"},
                         point : POINTS \cup {NoPoint}, region : Regions]]
  /\ created \in 0..MaxUsers /\ issued \in 0..MaxTokens
  /\ link \in [Tokens -> [status : {"absent", "live", "expired", "used"},
                          user : Users \cup {0}, purpose : Purposes]]
  /\ signedIn \subseteq 1..created
  /\ \A r \in Requests :
       /\ req[r].pc \in {"idle", "insert", "issue", "mark", "password", "markReset",
                         "revoke", "lookup", "save"}
       /\ req[r].user \in 0..created /\ req[r].token \in 0..issued
  /\ redeemed \in [Tokens -> 0..2]
  /\ changed \subseteq Tokens /\ dropped \subseteq Tokens
  /\ lookup \in [Users -> BOOLEAN]

Registered == {u \in Users : user[u].exists}
At(r, pc) == req[r].pc = pc
Goto(r, pc) == req' = [req EXCEPT ![r].pc = pc]
Start(r, fields) == At(r, "idle") /\ req' = [req EXCEPT ![r] = fields]
Answer(r) == req' = [req EXCEPT ![r] = Idle]
UserUnchanged == UNCHANGED <<user, created, signedIn, lookup>>
LinksUnchanged == UNCHANGED <<link, issued, redeemed, changed, dropped>>

(* ------------------------------ signing up ------------------------------ *)

(* POST /register: an address that is taken is refused at once.            *)
Register(r) ==
  /\ Registered = {} /\ created < MaxUsers
  /\ Start(r, [Idle EXCEPT !.pc = "insert"])
  /\ UserUnchanged /\ LinksUnchanged

(* Mutant: the address is not unique in the table.                         *)
TakenNever == FALSE

(* users.email is UNIQUE.                                                  *)
Taken == Registered # {}

InsertUser(r) ==
  /\ At(r, "insert") /\ created < MaxUsers
  /\ IF Taken THEN Answer(r) /\ UserUnchanged
     ELSE /\ created' = created + 1
          /\ user' = [user EXCEPT ![created'] = [NoUser EXCEPT !.exists = TRUE]]
          /\ req' = [req EXCEPT ![r].pc = "issue", ![r].user = created']
          /\ UNCHANGED <<signedIn, lookup>>
  /\ LinksUnchanged

(* POST /login.                                                            *)
Login(u) ==
  /\ u \in Registered
  /\ signedIn' = signedIn \cup {u}
  /\ UNCHANGED <<user, created, req, lookup>> /\ LinksUnchanged

(* ----------------------------- mailed links ----------------------------- *)

(* Mutant: an earlier link of the same purpose is left.                    *)
ReplaceAuthTokenKeeping(u, purpose, t) ==
  [link EXCEPT ![t] = [status |-> "live", user |-> u, purpose |-> purpose]]

ReplaceAuthToken(u, purpose, t) ==
  [s \in Tokens |-> IF s = t THEN [status |-> "live", user |-> u, purpose |-> purpose]
                    ELSE IF link[s].user = u /\ link[s].purpose = purpose THEN NoLink
                    ELSE link[s]]

(* issueToken: one batch, refused for an account that is gone.  The mail    *)
(* goes out after the answer; one that is lost is a link nobody opens.     *)
Issue(r) ==
  /\ At(r, "issue") /\ issued < MaxTokens
  /\ IF req[r].user \in Registered
     THEN /\ issued' = issued + 1
          /\ link' = ReplaceAuthToken(req[r].user, req[r].purpose, issued')
     ELSE UNCHANGED <<link, issued>>
  /\ Answer(r)
  /\ UNCHANGED <<redeemed, changed, dropped>> /\ UserUnchanged

(* POST /verify/resend, by whoever holds an access token of u.             *)
Resend(r, u) ==
  /\ u \in 1..created /\ u \in Registered /\ ~user[u].verified
  /\ Start(r, [Idle EXCEPT !.pc = "issue", !.user = u])
  /\ UserUnchanged /\ LinksUnchanged

(* POST /password/forgot.                                                  *)
Forgot(r, u) ==
  /\ u \in Registered
  /\ Start(r, [Idle EXCEPT !.pc = "issue", !.user = u, !.purpose = "reset_password"])
  /\ UserUnchanged /\ LinksUnchanged

ExpireLink(t) ==
  /\ link[t].status = "live"
  /\ link' = [link EXCEPT ![t].status = "expired"]
  /\ UNCHANGED <<issued, req, redeemed, changed, dropped>> /\ UserUnchanged

(* Retention: DELETE FROM auth_tokens WHERE expires_at < ?, used or not.   *)
CleanLinks(used) ==
  /\ \A t \in used : link[t].status = "used"
  /\ link' = [t \in Tokens |-> IF link[t].status = "expired" \/ t \in used THEN NoLink
                              ELSE link[t]]
  /\ UNCHANGED <<issued, req, redeemed, changed, dropped>> /\ UserUnchanged

(* Mutant: whether it was used before is not asked.                        *)
ClaimableTwice(t, purpose) == link[t].status \in {"live", "used"} /\ link[t].purpose = purpose

Claimable(t, purpose) == link[t].status = "live" /\ link[t].purpose = purpose

(* claimAuthToken: one conditional UPDATE.                                 *)
Consume(r, t, purpose, next) ==
  IF Claimable(t, purpose)
  THEN /\ link' = [link EXCEPT ![t].status = "used"]
       /\ redeemed' = [redeemed EXCEPT ![t] = IF @ < 2 THEN @ + 1 ELSE 2]
       /\ Start(r, [Idle EXCEPT !.pc = next, !.user = link[t].user, !.token = t])
  ELSE At(r, "idle") /\ UNCHANGED <<link, redeemed, req>>

(* GET /verify: whoever opens a link, the user or a mail scanner.          *)
Verify(r, t) ==
  /\ t <= issued
  /\ Consume(r, t, "verify_email", "mark")
  /\ UNCHANGED <<issued, changed, dropped>> /\ UserUnchanged

MarkEmailVerified(r) ==
  /\ \/ At(r, "mark") /\ Answer(r)
     \/ At(r, "markReset") /\ Goto(r, "revoke")
  /\ user' = [user EXCEPT ![req[r].user].verified = @ \/ req[r].user \in Registered]
  /\ UNCHANGED <<created, signedIn, lookup>> /\ LinksUnchanged

(* Mutant: the link is redeemed before the form is looked at.              *)
ResetRedeemedFirst(r, t, valid) ==
  /\ t <= issued
  /\ Consume(r, t, "reset_password", IF valid THEN "password" ELSE "idle")
  /\ UNCHANGED <<issued, changed, dropped>> /\ UserUnchanged

(* POST /password/reset: a form that is refused leaves the link alone.     *)
Reset(r, t, valid) ==
  /\ t <= issued /\ valid
  /\ Consume(r, t, "reset_password", "password")
  /\ UNCHANGED <<issued, changed, dropped>> /\ UserUnchanged

UpdateUserPassword(r) ==
  /\ At(r, "password")
  /\ user' = [user EXCEPT ![req[r].user].password =
                IF req[r].user \in Registered THEN "new" ELSE @]
  /\ changed' = changed \cup {req[r].token}
  /\ Goto(r, "markReset")
  /\ UNCHANGED <<created, link, issued, signedIn, redeemed, dropped, lookup>>

RevokeAll(r) ==
  /\ At(r, "revoke")
  /\ signedIn' = signedIn \ {req[r].user}
  /\ Answer(r)
  /\ UNCHANGED <<user, created, lookup>> /\ LinksUnchanged

(* ---------------------- erasure, location, failure ---------------------- *)

(* Mutant: the tables that name the account do not cascade.                *)
DeleteMeAlone(r, u) ==
  /\ At(r, "idle") /\ u \in 1..created
  /\ user' = [user EXCEPT ![u] = NoUser]
  /\ UNCHANGED <<created, link, issued, signedIn, req, ghosts>>

(* DELETE /me: the row, and by cascade its links and sessions.             *)
DeleteMe(r, u) ==
  /\ At(r, "idle") /\ u \in 1..created
  /\ user' = [user EXCEPT ![u] = NoUser]
  /\ link' = [t \in Tokens |-> IF link[t].user = u THEN NoLink ELSE link[t]]
  /\ signedIn' = signedIn \ {u}
  /\ UNCHANGED <<created, issued, req, ghosts>>

(* PUT /location reads the user, looks the point up, and writes.           *)
PutLocation(r, u, p) ==
  /\ u \in Registered
  /\ Start(r, [Idle EXCEPT !.pc = "lookup", !.user = u, !.point = p,
                           !.region = user[u].region])
  /\ UserUnchanged /\ LinksUnchanged

(* Mutant: a region nobody matched counts as a lookup that failed.         *)
LocatedOrKept(p, ok, kept) == IF ok /\ REGION_OF[p] # NoRegion THEN REGION_OF[p] ELSE kept

(* A lookup that never completed keeps what the row had when it was read.  *)
Located(p, ok, kept) == IF ok THEN REGION_OF[p] ELSE kept

ReverseGeocode(r, ok) ==
  /\ At(r, "lookup")
  /\ req' = [req EXCEPT ![r].pc = "save", ![r].ok = ok,
                        ![r].region = Located(req[r].point, ok, @)]
  /\ UserUnchanged /\ LinksUnchanged

UpdateUserLocation(r) ==
  /\ At(r, "save")
  /\ LET u == req[r].user
     IN IF u \in Registered
        THEN /\ user' = [user EXCEPT ![u].point = req[r].point, ![u].region = req[r].region]
             /\ lookup' = [lookup EXCEPT ![u] = req[r].ok]
        ELSE UNCHANGED <<user, lookup>>
  /\ Answer(r)
  /\ UNCHANGED <<created, signedIn>> /\ LinksUnchanged

(* DELETE /location: consent is withdrawn.                                 *)
ClearLocation(r, u) ==
  /\ At(r, "idle") /\ u \in Registered
  /\ user' = [user EXCEPT ![u].point = NoPoint, ![u].region = NoRegion]
  /\ lookup' = [lookup EXCEPT ![u] = TRUE]
  /\ UNCHANGED <<created, signedIn, req>> /\ LinksUnchanged

(* A request dies: the isolate is gone, or a statement failed.             *)
Drop(r) ==
  /\ ~At(r, "idle")
  /\ dropped' = IF At(r, "password") THEN dropped \cup {req[r].token} ELSE dropped
  /\ Answer(r)
  /\ UNCHANGED <<link, issued, redeemed, changed>> /\ UserUnchanged

Request(r) ==
  \/ Register(r) \/ InsertUser(r) \/ MarkEmailVerified(r) \/ UpdateUserPassword(r)
  \/ Issue(r) \/ RevokeAll(r) \/ UpdateUserLocation(r) \/ Drop(r)
  \/ \E u \in Users : Resend(r, u) \/ Forgot(r, u) \/ DeleteMe(r, u) \/ ClearLocation(r, u)
  \/ \E u \in Users, p \in POINTS : PutLocation(r, u, p)
  \/ \E t \in Tokens : Verify(r, t)
  \/ \E ok \in BOOLEAN : \/ ReverseGeocode(r, ok)
                         \/ \E t \in Tokens : Reset(r, t, ok)

Next ==
  \/ \E r \in Requests : Request(r)
  \/ \E u \in Users : Login(u)
  \/ \E t \in Tokens : ExpireLink(t)
  \/ \E used \in SUBSET Tokens : CleanLinks(used)

Spec == Init /\ [][Next]_vars

(* ----------------------------- properties ------------------------------- *)

(* However many sign-ups for the address run at once, it has one account   *)
(* (auth.ts:107-120).                                                      *)
OneAccountPerAddress == Cardinality(Registered) <= 1

(* A new link retires the one before it: an account has at most one of     *)
(* each purpose (auth-tokens.ts:41-43).                                    *)
OneLinkPerPurpose ==
  \A s, t \in Tokens :
    s # t /\ link[s].status # "absent" /\ link[t].status # "absent"
      => <<link[s].user, link[s].purpose>> # <<link[t].user, link[t].purpose>>

(* A link is redeemed once, whoever opens it at the same time              *)
(* (auth-tokens.ts:12-13).                                                 *)
WorksOnce == \A t \in Tokens : redeemed[t] <= 1

(* A reset link is spent on a password, never on a form that was refused:  *)
(* one that is spent changed it, is about to, or was lost with its request *)
(* (auth.ts:335, "Redeemed last").                                         *)
SpentOnAPassword ==
  \A t \in Tokens : link[t].status = "used" /\ link[t].purpose = "reset_password" =>
    t \in changed \cup dropped \/ \E r \in Requests : At(r, "password") /\ req[r].token = t

(* Erasure leaves nothing, and no request that was under way brings        *)
(* anything of the account back (auth.ts:372-376).                         *)
NothingOutlivesErasure ==
  /\ \A t \in Tokens : link[t].status # "absent" => link[t].user \in Registered
  /\ signedIn \subseteq Registered

(* The accounts between statements: one per address, and nothing of one    *)
(* that is gone (auth.ts).                                                 *)
AccountsSafe ==
  /\ TypeOK
  /\ OneAccountPerAddress
  /\ NothingOutlivesErasure

(* The mailed links: one of each purpose, good for one use, and a reset's  *)
(* only for a password (auth-tokens.ts).                                   *)
LinksSafe ==
  /\ OneLinkPerPurpose
  /\ WorksOnce
  /\ SpentOnAPassword

(* A completed lookup decides the region, also when it matched none, with  *)
(* any other request on the same account in between (auth.ts:469-477).     *)
CompletedLookupDecides ==
  \A u \in Registered : lookup[u] /\ user[u].point # NoPoint =>
    user[u].region = REGION_OF[user[u].point]

(* A lookup that failed erases no region: geocoding.ts:43-44, "A failed    *)
(* lookup must leave the columns alone."                                   *)
FailedLookupErasesNothing ==
  [][\A r \in Requests : At(r, "save") /\ ~req[r].ok /\ UpdateUserLocation(r)
       => user'[req[r].user].region = user[req[r].user].region]_vars

(* What a request in flight relies on: the account and the link it carries *)
(* exist or did, and a region it is about to save after a completed lookup *)
(* is that of its point.                                                   *)
RequestType ==
  [pc : {"idle", "insert", "issue", "mark", "password", "markReset", "revoke", "lookup", "save"},
   user : Nat, token : Nat, purpose : Purposes, point : POINTS \cup {NoPoint},
   region : Regions, ok : BOOLEAN]

RequestInv ==
  /\ req \in [Requests -> RequestType]
  /\ \A r \in Requests :
       /\ At(r, "password") => req[r].token \in Tokens
       /\ At(r, "lookup") => req[r].point \in POINTS
       /\ At(r, "save") /\ req[r].ok => req[r].region = REGION_OF[req[r].point]

(* An id is handed out once, to one account at a time.                     *)
OneAccountInv ==
  /\ Registered \subseteq 1..created
  /\ \A u, v \in Registered : u = v

(* A link that can be redeemed, or that is not minted yet, never was.      *)
FreshLinkInv ==
  \A t \in Tokens : t > issued \/ link[t].status = "live" => redeemed[t] = 0

IInv ==
  /\ TypeOK /\ RequestInv
  /\ OneAccountInv /\ NothingOutlivesErasure
  /\ FreshLinkInv /\ LinksSafe
  /\ CompletedLookupDecides
=============================================================================
