--------------------------- MODULE AccountProofs ----------------------------
(* The account's properties for any number of requests, sign-ups and       *)
(* links, by the invariant IInv of module Account.                         *)
EXTENDS Account, TLAPS, FiniteSetTheorems

UserRow == [exists : BOOLEAN, verified : BOOLEAN, password : {"first", "new"},
            point : POINTS \cup {NoPoint}, region : Regions]
LinkRow == [status : {"absent", "live", "expired", "used"}, user : Users \cup {0},
            purpose : Purposes]

(* What the requests and the tables hold has its type.                     *)
LEMMA TypeFacts ==
  ASSUME AccountConstants
  PROVE  /\ MaxUsers \in Nat /\ MaxTokens \in Nat
         /\ NoRegion \in Regions /\ \A p \in POINTS : REGION_OF[p] \in Regions
         /\ Idle \in RequestType
         /\ NoUser \in UserRow /\ NoLink \in LinkRow
  BY DEF AccountConstants, Regions, UserRow, LinkRow, Idle, RequestType, NoUser, NoLink, Purposes

(* What a step does to the users: a row appears for the next id and an     *)
(* address without an account only, and a region is written with its       *)
(* point.                                                                  *)
LEMMA UserStep ==
  ASSUME AccountConstants, IInv, Next
  PROVE  /\ user' \in [Users -> UserRow] /\ lookup' \in [Users -> BOOLEAN]
         /\ created' \in 0..MaxUsers /\ created' >= created
         /\ \A u \in Users : user'[u].exists =>
              user[u].exists \/ (Registered = {} /\ u = created' /\ created' = created + 1)
         /\ CompletedLookupDecides'
<1> DEFINE Goal ==
         /\ user' \in [Users -> UserRow] /\ lookup' \in [Users -> BOOLEAN]
         /\ created' \in 0..MaxUsers /\ created' >= created
         /\ \A u \in Users : user'[u].exists =>
              user[u].exists \/ (Registered = {} /\ u = created' /\ created' = created + 1)
         /\ CompletedLookupDecides'
<1>1. /\ user \in [Users -> UserRow] /\ lookup \in [Users -> BOOLEAN]
      /\ created \in 0..MaxUsers /\ MaxUsers \in Nat
      /\ \A u \in Users : user[u].exists /\ lookup[u] /\ user[u].point # NoPoint =>
           user[u].region = REGION_OF[user[u].point]
  BY TypeFacts DEF IInv, TypeOK, UserRow, CompletedLookupDecides, Registered
<1>2. NoUser \in UserRow /\ NoRegion \in Regions
  BY TypeFacts
<1> SUFFICES Goal
  OBVIOUS
<1>4. ASSUME user' \in [Users -> UserRow], lookup' \in [Users -> BOOLEAN],
             UNCHANGED created,
             \A u \in Users : user'[u].exists =>
               /\ user[u].exists
               /\ lookup'[u] /\ user'[u].point # NoPoint =>
                    user'[u].region = REGION_OF[user'[u].point]
      PROVE  Goal
  <2>1. created' \in 0..MaxUsers /\ created' >= created
    BY <1>1, <1>4
  <2>2. CompletedLookupDecides'
    BY <1>4 DEF CompletedLookupDecides, Registered
  <2>3. \A u \in Users : user'[u].exists => user[u].exists
    BY <1>4
  <2> QED
    BY <1>4, <2>1, <2>2, <2>3
<1> HIDE DEF Goal
<1>5. CASE UNCHANGED <<user, created, lookup>>
  <2>1. \A u \in Users : user'[u].exists =>
          /\ user[u].exists
          /\ lookup'[u] /\ user'[u].point # NoPoint =>
               user'[u].region = REGION_OF[user'[u].point]
    BY <1>5, <1>1
  <2>2. user' \in [Users -> UserRow] /\ lookup' \in [Users -> BOOLEAN]
    BY <1>1, <1>5
  <2> QED
    BY <1>4, <1>5, <2>1, <2>2
<1>6. ASSUME NEW r \in Requests, InsertUser(r)  PROVE Goal
  <2>1. CASE Taken
    BY <1>5, <1>6, <2>1 DEF InsertUser, UserUnchanged
  <2>2. CASE ~Taken
    <3>1. /\ created' = created + 1 /\ created < MaxUsers /\ lookup' = lookup /\ Registered = {}
          /\ user' = [user EXCEPT ![created'] = [NoUser EXCEPT !.exists = TRUE]]
      BY <1>6, <2>2 DEF InsertUser, Taken
    <3> DEFINE new == [NoUser EXCEPT !.exists = TRUE]
    <3>2. new \in UserRow /\ new.point = NoPoint
      BY <1>2 DEF NoUser, UserRow
    <3> HIDE DEF new
    <3>3. \A u \in Users : ~user[u].exists
      BY <3>1 DEF Registered
    <3>4. \A u \in Users : user'[u] = IF u = created' THEN new ELSE user[u]
      BY <1>1, <3>1 DEF new
    <3>5. user' \in [Users -> UserRow] /\ lookup' \in [Users -> BOOLEAN]
      BY <1>1, <3>1, <3>2 DEF new
    <3>6. CompletedLookupDecides'
      BY <3>2, <3>3, <3>4 DEF CompletedLookupDecides, Registered
    <3>7. created' \in 0..MaxUsers /\ created' >= created
      BY <1>1, <3>1
    <3>8. \A u \in Users : user'[u].exists => u = created'
      BY <3>3, <3>4
    <3> QED
      BY <3>1, <3>5, <3>6, <3>7, <3>8 DEF Goal
  <2> QED
    BY <2>1, <2>2
<1>7. ASSUME NEW u \in Users \cup Nat, NEW row,
             row \in UserRow, u \in Users => row.exists = user[u].exists,
             u \in Users => row.point = user[u].point /\ row.region = user[u].region,
             user' = [user EXCEPT ![u] = row], UNCHANGED <<created, lookup>>
      PROVE  Goal
  <2>1. \A v \in Users : user'[v] = IF v = u THEN row ELSE user[v]
    BY <1>1, <1>7
  <2>2. user' \in [Users -> UserRow]
    BY <1>1, <1>7
  <2>3. \A v \in Users : user'[v].exists =>
          /\ user[v].exists
          /\ lookup'[v] /\ user'[v].point # NoPoint =>
               user'[v].region = REGION_OF[user'[v].point]
    BY <1>1, <1>7, <2>1
  <2> QED
    BY <1>1, <1>4, <1>7, <2>2, <2>3
<1>8. ASSUME NEW r \in Requests, MarkEmailVerified(r) \/ UpdateUserPassword(r)  PROVE Goal
  <2> DEFINE u == req[r].user
             verified == [user[u] EXCEPT !.verified = @ \/ u \in Registered]
             changedTo == [user[u] EXCEPT !.password = IF u \in Registered THEN "new" ELSE @]
  <2>1. \/ user' = [user EXCEPT ![u] = verified] \/ user' = [user EXCEPT ![u] = changedTo]
    BY <1>1, <1>8 DEF MarkEmailVerified, UpdateUserPassword
  <2>2. UNCHANGED <<created, lookup>>
    BY <1>8 DEF MarkEmailVerified, UpdateUserPassword
  <2>3. CASE u \notin Users
    BY <1>1, <1>5, <2>1, <2>2, <2>3
  <2>4. CASE u \in Users
    <3> DEFINE flag == user[u].verified \/ u \in Registered
    <3>3. verified \in UserRow
      <4>1. flag \in BOOLEAN
        OBVIOUS
      <4>2. verified = [user[u] EXCEPT !.verified = flag]
        OBVIOUS
      <4> HIDE DEF flag, verified
      <4> QED
        BY <1>1, <2>4, <4>1, <4>2 DEF UserRow
    <3>4. changedTo \in UserRow
      BY <1>1, <2>4 DEF UserRow
    <3>1. verified \in UserRow /\ changedTo \in UserRow
      BY <3>3, <3>4
    <3>2. /\ verified.exists = user[u].exists /\ changedTo.exists = user[u].exists
          /\ verified.point = user[u].point /\ changedTo.point = user[u].point
          /\ verified.region = user[u].region /\ changedTo.region = user[u].region
      BY <1>1, <2>4 DEF UserRow
    <3> HIDE DEF verified, changedTo, u
    <3> QED
      BY <1>7, <2>1, <2>2, <2>4, <3>1, <3>2
  <2> QED
    BY <2>3, <2>4
<1>9. ASSUME NEW r \in Requests, NEW u \in Users, DeleteMe(r, u)  PROVE Goal
  <2>1. user' = [user EXCEPT ![u] = NoUser] /\ UNCHANGED <<created, lookup>>
    BY <1>9 DEF DeleteMe, ghosts
  <2>2. ~NoUser.exists
    BY DEF NoUser
  <2>3. \A v \in Users : user'[v] = IF v = u THEN NoUser ELSE user[v]
    BY <1>1, <2>1
  <2>4. user' \in [Users -> UserRow]
    BY <1>1, <1>2, <2>1
  <2> QED
    BY <1>1, <1>4, <2>1, <2>2, <2>3, <2>4
<1>10. ASSUME NEW u \in Registered, NEW p \in POINTS \cup {NoPoint}, NEW g \in Regions,
              NEW ok \in BOOLEAN, ok /\ p # NoPoint => g = REGION_OF[p],
              user' = [user EXCEPT ![u].point = p, ![u].region = g],
              lookup' = [lookup EXCEPT ![u] = ok], UNCHANGED created
       PROVE  Goal
  <2> u \in Users /\ user[u].exists
    BY DEF Registered
  <2> DEFINE row == [[user[u] EXCEPT !.point = p] EXCEPT !.region = g]
  <2>1. row \in UserRow /\ row.point = p /\ row.region = g
    BY <1>1 DEF UserRow
  <2>2. user' = [user EXCEPT ![u] = row]
    BY <1>1, <1>10
  <2> HIDE DEF row
  <2>3. \A v \in Users : /\ user'[v] = IF v = u THEN row ELSE user[v]
                         /\ lookup'[v] = IF v = u THEN ok ELSE lookup[v]
    BY <1>1, <1>10, <2>2
  <2>4. user' \in [Users -> UserRow] /\ lookup' \in [Users -> BOOLEAN]
    <3>1. user' \in [Users -> UserRow]
      BY <1>1, <2>1, <2>2
    <3>2. lookup' \in [Users -> BOOLEAN]
      BY <1>1, <1>10
    <3> QED
      BY <3>1, <3>2
  <2>5. \A v \in Users : user'[v].exists =>
          /\ user[v].exists
          /\ lookup'[v] /\ user'[v].point # NoPoint =>
               user'[v].region = REGION_OF[user'[v].point]
    BY <1>1, <1>10, <2>1, <2>3
  <2> QED
    BY <1>4, <1>10, <2>4, <2>5
<1>11. ASSUME NEW r \in Requests, UpdateUserLocation(r)  PROVE Goal
  <2>1. CASE req[r].user \in Registered
    <3>1. /\ req[r].point \in POINTS \cup {NoPoint} /\ req[r].region \in Regions
          /\ req[r].ok \in BOOLEAN
          /\ req[r].ok => req[r].region = REGION_OF[req[r].point]
      BY <1>11 DEF IInv, RequestInv, RequestType, UpdateUserLocation, At
    <3> QED
      BY <1>10, <1>11, <2>1, <3>1 DEF UpdateUserLocation
  <2>2. CASE req[r].user \notin Registered
    BY <1>5, <1>11, <2>2 DEF UpdateUserLocation
  <2> QED
    BY <2>1, <2>2
<1>12. ASSUME NEW r \in Requests, NEW u \in Users, ClearLocation(r, u)  PROVE Goal
  BY <1>2, <1>10, <1>12 DEF ClearLocation
<1> QED
  BY <1>5, <1>6, <1>8, <1>9, <1>11, <1>12 DEF Next, Request, Register, Issue, RevokeAll,
     Drop, Resend, Forgot, PutLocation, Verify, Reset, ReverseGeocode, Login, ExpireLink,
     CleanLinks, UserUnchanged

(* What a step does to the links: one is minted for a registered account   *)
(* in place of its like, redeemed when it is live, or goes.                *)
LEMMA LinkStep ==
  ASSUME AccountConstants, IInv, Next
  PROVE  /\ link' \in [Tokens -> LinkRow] /\ redeemed' \in [Tokens -> 0..2]
         /\ issued' \in 0..MaxTokens /\ issued' >= issued
         /\ FreshLinkInv' /\ WorksOnce' /\ OneLinkPerPurpose'
<1> DEFINE Goal ==
         /\ link' \in [Tokens -> LinkRow] /\ redeemed' \in [Tokens -> 0..2]
         /\ issued' \in 0..MaxTokens /\ issued' >= issued
         /\ FreshLinkInv' /\ WorksOnce' /\ OneLinkPerPurpose'
<1>1. /\ link \in [Tokens -> LinkRow] /\ redeemed \in [Tokens -> 0..2]
      /\ issued \in 0..MaxTokens /\ MaxTokens \in Nat /\ Tokens = 1..MaxTokens
      /\ FreshLinkInv /\ WorksOnce /\ OneLinkPerPurpose
  BY TypeFacts DEF IInv, TypeOK, LinkRow, LinksSafe, Tokens
<1>2. NoLink \in LinkRow /\ NoLink.status = "absent"
  BY TypeFacts DEF NoLink
<1>3. CASE UNCHANGED <<link, redeemed, issued>>
  BY <1>1, <1>3 DEF FreshLinkInv, WorksOnce, OneLinkPerPurpose
<1>4. ASSUME NEW r \in Requests, Issue(r)  PROVE Goal
  <2> DEFINE u == req[r].user
             p == req[r].purpose
             n == issued + 1
  <2>1. CASE u \notin Registered
    BY <1>3, <1>4, <2>1 DEF Issue
  <2>2. CASE u \in Registered
    <3>1. /\ issued' = n /\ n \in Tokens /\ redeemed' = redeemed
          /\ link' = ReplaceAuthToken(u, p, n)
      BY <1>1, <1>4, <2>2 DEF Issue
    <3>2. p \in Purposes /\ u \in Users
      BY <2>2 DEF IInv, RequestInv, RequestType, Registered
    <3> DEFINE new == [status |-> "live", user |-> u, purpose |-> p]
    <3>3. new \in LinkRow
      BY <3>2 DEF LinkRow
    <3> HIDE DEF n, u, p
    <3>4. \A s \in Tokens : \/ s = n /\ link'[s] = new
                            \/ s # n /\ link'[s] = NoLink
                            \/ /\ s # n /\ link'[s] = link[s]
                               /\ link[s].user # u \/ link[s].purpose # p
      BY <3>1 DEF ReplaceAuthToken
    <3>5. link' \in [Tokens -> LinkRow]
      BY <1>1, <1>2, <3>1, <3>3, <3>4 DEF ReplaceAuthToken
    <3>6. FreshLinkInv'
      BY <1>1, <1>2, <3>1, <3>4 DEF FreshLinkInv, n
    <3>7. OneLinkPerPurpose'
      BY <1>1, <1>2, <3>1, <3>4 DEF OneLinkPerPurpose
    <3> QED
      BY <1>1, <3>1, <3>5, <3>6, <3>7 DEF WorksOnce, n
  <2> QED
    BY <2>1, <2>2
<1>5. ASSUME NEW r \in Requests, NEW t \in Tokens, NEW p, NEW next, Consume(r, t, p, next),
             t <= issued, issued' = issued
      PROVE  Goal
  <2>1. CASE ~Claimable(t, p)
    BY <1>3, <1>5, <2>1 DEF Consume
  <2>2. CASE Claimable(t, p)
    <3>1. /\ link' = [link EXCEPT ![t].status = "used"] /\ link[t].status = "live"
          /\ redeemed' = [redeemed EXCEPT ![t] = IF @ < 2 THEN @ + 1 ELSE 2]
      BY <1>5, <2>2 DEF Consume, Claimable
    <3>2. redeemed[t] = 0
      BY <1>1, <3>1 DEF FreshLinkInv
    <3>3. \A s \in Tokens : /\ link'[s] = IF s = t THEN [link[t] EXCEPT !.status = "used"]
                                           ELSE link[s]
                            /\ redeemed'[s] = IF s = t THEN 1 ELSE redeemed[s]
      BY <1>1, <3>1, <3>2
    <3>4. link' \in [Tokens -> LinkRow] /\ redeemed' \in [Tokens -> 0..2]
      <4>1. [link[t] EXCEPT !.status = "used"] \in LinkRow
        BY <1>1 DEF LinkRow
      <4>2. link' \in [Tokens -> LinkRow]
        BY <1>1, <3>1, <4>1
      <4>3. redeemed' \in [Tokens -> 0..2]
        BY <1>1, <3>1
      <4> QED
        BY <4>2, <4>3
    <3>5. FreshLinkInv' /\ WorksOnce'
      <4>1. WorksOnce'
        BY <1>1, <3>3 DEF WorksOnce
      <4>2. link'[t].status = "used"
        BY <1>1, <3>3 DEF LinkRow
      <4>3. ~(t > issued)
        BY <1>1, <1>5
      <4>4. ASSUME NEW s \in Tokens, s > issued \/ link'[s].status = "live"  PROVE redeemed'[s] = 0
        <5>1. s # t
          BY <4>2, <4>3, <4>4
        <5> QED
          BY <1>1, <3>3, <4>4, <5>1 DEF FreshLinkInv
      <4> QED
        BY <1>5, <4>1, <4>4 DEF FreshLinkInv
    <3>6. OneLinkPerPurpose'
      BY <1>1, <3>1, <3>3 DEF OneLinkPerPurpose, LinkRow
    <3> QED
      BY <1>1, <1>5, <3>4, <3>5, <3>6
  <2> QED
    BY <2>1, <2>2
<1>6. ASSUME NEW t \in Tokens, ExpireLink(t)  PROVE Goal
  <2>1. /\ link' = [link EXCEPT ![t].status = "expired"] /\ link[t].status = "live"
        /\ UNCHANGED <<redeemed, issued>>
    BY <1>6 DEF ExpireLink
  <2>2. \A s \in Tokens : link'[s] = IF s = t THEN [link[t] EXCEPT !.status = "expired"]
                                     ELSE link[s]
    BY <1>1, <2>1
  <2>3. \A s \in Tokens : /\ link'[s].status = IF s = t THEN "expired" ELSE link[s].status
                         /\ link'[s].user = link[s].user /\ link'[s].purpose = link[s].purpose
    BY <1>1, <2>2 DEF LinkRow
  <2>4. link' \in [Tokens -> LinkRow]
    <3>1. [link[t] EXCEPT !.status = "expired"] \in LinkRow
      BY <1>1 DEF LinkRow
    <3> QED
      BY <1>1, <2>1, <3>1
  <2>5. FreshLinkInv' /\ WorksOnce'
    BY <1>1, <2>1, <2>3 DEF FreshLinkInv, WorksOnce
  <2>6. OneLinkPerPurpose'
    BY <1>1, <2>1, <2>3 DEF OneLinkPerPurpose
  <2> QED
    BY <1>1, <2>1, <2>4, <2>5, <2>6
<1>7. ASSUME \A s \in Tokens : link'[s] = link[s] \/ link'[s] = NoLink,
             DOMAIN link' = Tokens, link' = [s \in Tokens |-> link'[s]],
             UNCHANGED <<redeemed, issued>>
      PROVE  Goal
  <2>1. link' \in [Tokens -> LinkRow]
    BY <1>1, <1>2, <1>7
  <2>2. FreshLinkInv' /\ WorksOnce'
    BY <1>1, <1>2, <1>7 DEF FreshLinkInv, WorksOnce
  <2>3. OneLinkPerPurpose'
    BY <1>1, <1>2, <1>7 DEF OneLinkPerPurpose
  <2> QED
    BY <1>1, <1>7, <2>1, <2>2, <2>3
<1>8. ASSUME NEW r \in Requests, NEW u \in Users, DeleteMe(r, u)  PROVE Goal
  BY <1>7, <1>8 DEF DeleteMe, ghosts
<1>9. ASSUME NEW used \in SUBSET Tokens, CleanLinks(used)  PROVE Goal
  BY <1>7, <1>9 DEF CleanLinks
<1> QED
  BY <1>3, <1>4, <1>5, <1>6, <1>8, <1>9 DEF Next, Request, Register, InsertUser, RevokeAll,
     Drop, Resend, Forgot, PutLocation, Verify, Reset, ReverseGeocode, Login, MarkEmailVerified,
     UpdateUserPassword, UpdateUserLocation, ClearLocation, LinksUnchanged

(* What a step does to the requests: at most one of them moves.            *)
LEMMA RequestStep ==
  ASSUME AccountConstants, IInv, Next
  PROVE  /\ RequestInv'
         /\ \A r \in Requests : req'[r].user \in 0..created' /\ req'[r].token \in 0..issued'
<1> USE DEF Start, Answer, Goto, At, LinksUnchanged, UserUnchanged
<1>1. /\ RequestInv /\ created \in Nat /\ issued \in Nat /\ Users \subseteq Nat
      /\ \A u \in Users : user[u].region \in Regions
      /\ \A t \in Tokens : link[t].user \in Nat /\ t \in Nat
  <2>1. RequestInv /\ TypeOK /\ MaxUsers \in Nat /\ MaxTokens \in Nat
    BY TypeFacts DEF IInv
  <2>2. created \in Nat /\ issued \in Nat /\ Users \subseteq Nat /\ Tokens \subseteq Nat
    BY <2>1 DEF TypeOK, Users, Tokens
  <2>3. \A u \in Users : user[u].region \in Regions
    BY <2>1 DEF TypeOK
  <2>4. \A t \in Tokens : link[t].user \in Users \cup {0}
    BY <2>1 DEF TypeOK
  <2>5. ASSUME NEW t \in Tokens  PROVE link[t].user \in Nat /\ t \in Nat
    <3>1. link[t].user \in Users \/ link[t].user = 0
      BY <2>4
    <3> QED
      BY <2>1, <3>1 DEF Users, Tokens
  <2> QED
    BY <2>1, <2>2, <2>3, <2>5
<1>9. /\ NoRegion \in Regions /\ \A p \in POINTS : REGION_OF[p] \in Regions
      /\ Idle \in RequestType
  BY TypeFacts
<1>2. \A r \in Requests : req[r] \in RequestType
  BY <1>1 DEF RequestInv
<1>10. /\ created' \in Nat /\ created' >= created /\ issued' \in Nat /\ issued' >= issued
       /\ \A r \in Requests : req[r].user \in 0..created /\ req[r].token \in 0..issued
       /\ Registered \subseteq 1..created
       /\ \A t \in Tokens : link[t].status = "live" => link[t].user \in Registered
  <2>1. created' \in 0..MaxUsers /\ created' >= created
    BY UserStep
  <2>2. issued' \in 0..MaxTokens /\ issued' >= issued
    BY LinkStep
  <2>3. \A t \in Tokens : link[t].status = "live" => link[t].user \in Registered
    BY DEF IInv, NothingOutlivesErasure
  <2> QED
    BY <2>1, <2>2, <2>3, TypeFacts DEF IInv, TypeOK, OneAccountInv
<1>11. \A u \in 1..created : u \in 0..created'
  BY <1>1, <1>10
<1> DEFINE Goal == /\ RequestInv'
                   /\ \A r \in Requests : /\ req'[r].user \in 0..created'
                                           /\ req'[r].token \in 0..issued'
<1>3. CASE UNCHANGED req
  <2>1. RequestInv'
    BY <1>1, <1>3 DEF RequestInv
  <2> QED
    BY <1>1, <1>3, <1>10, <2>1
<1>4. ASSUME NEW r \in Requests, NEW f \in RequestType, req' = [req EXCEPT ![r] = f],
             f.user \in 0..created', f.token \in 0..issued',
             f.pc = "password" => f.token \in Tokens,
             f.pc = "lookup" => f.point \in POINTS,
             f.pc = "save" /\ f.ok => f.region = REGION_OF[f.point]
      PROVE  Goal
  <2>1. RequestInv'
    BY <1>1, <1>4 DEF RequestInv
  <2>2. \A q \in Requests : req'[q] = IF q = r THEN f ELSE req[q]
    BY <1>1, <1>4 DEF RequestInv
  <2>3. \A q \in Requests : req'[q].user \in 0..created' /\ req'[q].token \in 0..issued'
    BY <1>1, <1>4, <1>10, <2>2
  <2> QED
    BY <2>1, <2>3
<1>5. ASSUME NEW r \in Requests, Request(r)
      PROVE  UNCHANGED req \/ \E f \in RequestType :
               /\ req' = [req EXCEPT ![r] = f]
               /\ f.user \in 0..created' /\ f.token \in 0..issued'
               /\ f.pc = "password" => f.token \in Tokens
               /\ f.pc = "lookup" => f.point \in POINTS
               /\ f.pc = "save" /\ f.ok => f.region = REGION_OF[f.point]
  <2> DEFINE Moves(f) == /\ f \in RequestType
                         /\ req' = [req EXCEPT ![r] = f]
                         /\ f.user \in 0..created' /\ f.token \in 0..issued'
                         /\ f.pc = "password" => f.token \in Tokens
                         /\ f.pc = "lookup" => f.point \in POINTS
                         /\ f.pc = "save" /\ f.ok => f.region = REGION_OF[f.point]
  <2>9. 0 \in 0..created' /\ 0 \in 0..issued'
    BY <1>10
  <2>10. req[r].user \in 0..created' /\ req[r].token \in 0..issued'
    BY <1>1, <1>10
  <2> HIDE DEF Moves
  <2> SUFFICES UNCHANGED req \/ \E f : Moves(f)
    BY DEF Moves
  <2>1. CASE Answer(r)
    <3> Moves(Idle)
      BY <1>9, <2>1, <2>9 DEF Moves, Idle
    <3> QED
      OBVIOUS
  <2>2. CASE Register(r)
    <3> Moves([Idle EXCEPT !.pc = "insert"])
      BY <1>9, <2>2, <2>9 DEF Moves, Idle, Register, RequestType
    <3> QED
      OBVIOUS
  <2>3. CASE InsertUser(r) /\ ~Answer(r)
    <3>1. created' = created + 1 /\ req' = [req EXCEPT ![r].pc = "issue", ![r].user = created']
      BY <2>3 DEF InsertUser
    <3>2. created' \in Nat /\ req[r] \in RequestType /\ req \in [Requests -> RequestType]
      BY <1>1, <1>9, <1>2, <3>1 DEF RequestInv
    <3>3. req' = [req EXCEPT ![r] = [req[r] EXCEPT !.pc = "issue", !.user = created']]
      BY <3>1, <3>2
    <3> Moves([req[r] EXCEPT !.pc = "issue", !.user = created'])
      <4> created' \in 0..created'
        BY <3>2
      <4> QED
        BY <2>10, <3>2, <3>3 DEF Moves, RequestType
    <3> QED
      OBVIOUS
  <2>4. CASE (MarkEmailVerified(r) \/ UpdateUserPassword(r)) /\ ~Answer(r)
    <3> \E pc \in {"revoke", "markReset"} : Moves([req[r] EXCEPT !.pc = pc])
      BY <1>1, <1>2, <2>4, <2>10 DEF Moves, MarkEmailVerified, UpdateUserPassword, RequestType,
         RequestInv
    <3> QED
      OBVIOUS
  <2>5. ASSUME NEW u \in Users, Resend(r, u) \/ Forgot(r, u)  PROVE \E f : Moves(f)
    <3>1. Resend(r, u) => Moves([Idle EXCEPT !.pc = "issue", !.user = u])
      BY <1>1, <1>9, <1>11, <2>9 DEF Moves, Idle, Resend, RequestType, Purposes
    <3>2. Forgot(r, u) =>
            Moves([Idle EXCEPT !.pc = "issue", !.user = u, !.purpose = "reset_password"])
      BY <1>1, <1>9, <1>10, <1>11, <2>9 DEF Moves, Idle, Forgot, RequestType, Purposes
    <3> QED
      BY <2>5, <3>1, <3>2
  <2>6. ASSUME NEW u \in Users, NEW p \in POINTS, PutLocation(r, u, p)  PROVE \E f : Moves(f)
    <3> Moves([Idle EXCEPT !.pc = "lookup", !.user = u, !.point = p, !.region = user[u].region])
      BY <1>1, <1>9, <1>10, <1>11, <2>6, <2>9 DEF Moves, Idle, PutLocation, RequestType
    <3> QED
      OBVIOUS
  <2>7. ASSUME NEW t \in Tokens, NEW p, NEW next \in {"mark", "password"}, Consume(r, t, p, next),
               t <= issued
        PROVE  UNCHANGED req \/ \E f : Moves(f)
    <3>1. CASE Claimable(t, p)
      <4> Moves([Idle EXCEPT !.pc = next, !.user = link[t].user, !.token = t])
        <5>1. link[t].user \in 0..created' /\ t \in 0..issued'
          BY <1>1, <1>10, <1>11, <2>7, <3>1 DEF Claimable
        <5> QED
          BY <1>1, <1>9, <2>7, <3>1, <5>1 DEF Moves, Idle, Consume, RequestType
      <4> QED
        OBVIOUS
    <3> QED
      BY <2>7, <3>1 DEF Consume
  <2>8. ASSUME NEW ok \in BOOLEAN, ReverseGeocode(r, ok)  PROVE \E f : Moves(f)
    <3> Moves([req[r] EXCEPT !.pc = "save", !.ok = ok,
                             !.region = Located(req[r].point, ok, @)])
      BY <1>1, <1>9, <1>2, <2>8, <2>10 DEF Moves, ReverseGeocode, Located, RequestType, RequestInv
    <3> QED
      OBVIOUS
  <2> QED
    BY <1>5, <2>1, <2>2, <2>3, <2>4, <2>5, <2>6, <2>7, <2>8 DEF Request, Verify, Reset, Issue,
       RevokeAll, UpdateUserLocation, Drop, DeleteMe, ClearLocation, InsertUser, MarkEmailVerified
<1> QED
  BY <1>3, <1>4, <1>5 DEF Next, Login, ExpireLink, CleanLinks

(* The address keeps its one account.                                      *)
LEMMA OneAccountStep ==
  ASSUME AccountConstants, IInv, Next
  PROVE  OneAccountInv'
<1>1. /\ created' >= created /\ created' \in Nat /\ created \in Nat
      /\ \A u \in Users : user'[u].exists =>
           user[u].exists \/ (Registered = {} /\ u = created' /\ created' = created + 1)
      /\ Registered \subseteq 1..created /\ Users = 1..MaxUsers /\ MaxUsers \in Nat
      /\ \A u, v \in Registered : u = v
  BY UserStep, TypeFacts DEF IInv, TypeOK, OneAccountInv, Users
<1>2. ASSUME NEW u \in Users, user'[u].exists  PROVE u \in 1..created'
  BY <1>1, <1>2 DEF Registered
<1>3. ASSUME NEW u \in Users, user'[u].exists, NEW v \in Users, user'[v].exists  PROVE u = v
  BY <1>1, <1>3 DEF Registered
<1> QED
  BY <1>2, <1>3 DEF OneAccountInv, Registered

(* Nothing of an account is left without its row, or comes back without    *)
(* it: what a request writes, it writes for a registered account.          *)
LEMMA ErasureStep ==
  ASSUME AccountConstants, IInv, Next
  PROVE  NothingOutlivesErasure'
<1>1. /\ user \in [Users -> UserRow] /\ link \in [Tokens -> LinkRow]
      /\ \A t \in Tokens : link[t].status # "absent" => link[t].user \in Registered
      /\ signedIn \subseteq Registered
  BY DEF IInv, TypeOK, UserRow, LinkRow, NothingOutlivesErasure
<1>2. ASSUME NEW r \in Requests, NEW u \in Users, DeleteMe(r, u)
      PROVE  NothingOutlivesErasure'
  <2>1. /\ user' = [user EXCEPT ![u] = NoUser] /\ signedIn' = signedIn \ {u}
        /\ link' = [t \in Tokens |-> IF link[t].user = u THEN NoLink ELSE link[t]]
    BY <1>2 DEF DeleteMe
  <2>2. Registered' = Registered \ {u}
    <3>1. ~NoUser.exists
      BY DEF NoUser
    <3> QED
      BY <1>1, <2>1, <3>1 DEF Registered
  <2>3. NoLink.status = "absent"
    BY DEF NoLink
  <2> QED
    BY <1>1, <2>1, <2>2, <2>3 DEF NothingOutlivesErasure
<1>3. ASSUME ~\E r \in Requests, u \in Users : DeleteMe(r, u)
      PROVE  Registered \subseteq Registered'
  <2>1. CASE user' = user
    BY <2>1 DEF Registered
  <2>2. ASSUME NEW r \in Requests, InsertUser(r) \/ MarkEmailVerified(r) \/ UpdateUserPassword(r)
                                   \/ UpdateUserLocation(r)
        PROVE  \A u \in Users : user[u].exists => user'[u].exists
    <3>1. CASE InsertUser(r)
      BY <1>1, <3>1 DEF InsertUser, Taken, Registered, UserUnchanged
    <3>2. CASE MarkEmailVerified(r) \/ UpdateUserPassword(r) \/ UpdateUserLocation(r)
      <4>1. \A u \in Users : user'[u].exists = user[u].exists
        BY <1>1, <3>2 DEF MarkEmailVerified, UpdateUserPassword, UpdateUserLocation, UserRow
      <4> QED
        BY <4>1
    <3> QED
      BY <2>2, <3>1, <3>2
  <2>3. ASSUME NEW r \in Requests, NEW v \in Users, ClearLocation(r, v)
        PROVE  \A u \in Users : user[u].exists => user'[u].exists
    BY <1>1, <2>3 DEF ClearLocation, UserRow
  <2> QED
    BY <1>3, <2>1, <2>2, <2>3 DEF Next, Request, Register, Issue, RevokeAll, Drop, Resend, Forgot,
       PutLocation, Verify, Reset, ReverseGeocode, Login, ExpireLink, CleanLinks, UserUnchanged,
       Registered
<1>4. ASSUME ~\E r \in Requests, u \in Users : DeleteMe(r, u)
      PROVE  signedIn' \subseteq Registered
  BY <1>1, <1>4 DEF Next, Request, Register, InsertUser, Issue, RevokeAll, Drop, Resend, Forgot,
     PutLocation, Verify, Reset, ReverseGeocode, Login, ExpireLink, CleanLinks, UserUnchanged,
     MarkEmailVerified, UpdateUserPassword, UpdateUserLocation, ClearLocation
<1>5. ASSUME ~\E r \in Requests, u \in Users : DeleteMe(r, u),
             NEW t \in Tokens, link'[t].status # "absent"
      PROVE  link'[t].user \in Registered
  <2>1. CASE link' = link
    BY <1>1, <1>5, <2>1
  <2>2. ASSUME NEW r \in Requests, Issue(r)  PROVE link'[t].user \in Registered
    BY <1>1, <1>5, <2>2 DEF Issue, ReplaceAuthToken, NoLink
  <2>3. ASSUME NEW s \in Tokens, NEW status, link' = [link EXCEPT ![s].status = status],
               link[s].status = "live"
        PROVE  link'[t].user \in Registered
    <3> link'[t].user = link[t].user /\ (t # s => link'[t] = link[t])
      BY <1>1, <2>3 DEF LinkRow
    <3> QED
      BY <1>1, <1>5, <2>3
  <2>4. ASSUME NEW used \in SUBSET Tokens, CleanLinks(used)  PROVE link'[t].user \in Registered
    BY <1>1, <1>5, <2>4 DEF CleanLinks, NoLink
  <2>5. ASSUME NEW r \in Requests, Request(r)  PROVE link'[t].user \in Registered
    <3>1. ASSUME NEW s \in Tokens, NEW ok \in BOOLEAN, Verify(r, s) \/ Reset(r, s, ok)
          PROVE  link'[t].user \in Registered
      BY <2>1, <2>3, <3>1 DEF Verify, Reset, Consume, Claimable, LinksUnchanged
    <3>2. CASE \E u \in Users : DeleteMe(r, u)
      BY <1>5, <3>2
    <3> QED
      BY <2>1, <2>2, <2>5, <3>1, <3>2 DEF Request, Register, InsertUser, RevokeAll, Drop, Resend,
         Forgot, PutLocation, ReverseGeocode, MarkEmailVerified, UpdateUserPassword,
         UpdateUserLocation, ClearLocation, LinksUnchanged
  <2>6. ASSUME NEW s \in Tokens, ExpireLink(s)  PROVE link'[t].user \in Registered
    BY <2>3, <2>6 DEF ExpireLink
  <2> QED
    BY <2>1, <2>4, <2>5, <2>6 DEF Next, Login, LinksUnchanged
<1> QED
  BY <1>2, <1>3, <1>4, <1>5 DEF NothingOutlivesErasure


(* A reset link that is spent changed a password, is about to, or was lost *)
(* with its request: the request that redeemed it holds on to it.          *)
LEMMA SpentStep ==
  ASSUME AccountConstants, IInv, Next
  PROVE  SpentOnAPassword' /\ changed' \subseteq Tokens /\ dropped' \subseteq Tokens
<1> USE DEF At, Start, Answer, Goto, LinksUnchanged, UserUnchanged
<1> DEFINE Accounted(t) == t \in changed \cup dropped
                           \/ \E r \in Requests : At(r, "password") /\ req[r].token = t
           Spent(t) == link[t].status = "used" /\ link[t].purpose = "reset_password"
<1>1. /\ req \in [Requests -> RequestType] /\ link \in [Tokens -> LinkRow]
      /\ changed \subseteq Tokens /\ dropped \subseteq Tokens
      /\ \A t \in Tokens : Spent(t) => Accounted(t)
  BY DEF IInv, TypeOK, RequestInv, LinkRow, LinksSafe, SpentOnAPassword
<1>2. \A r \in Requests : At(r, "password") => req[r].token \in Tokens
  BY DEF IInv, RequestInv
<1>3. changed' \subseteq Tokens /\ dropped' \subseteq Tokens
      /\ changed \subseteq changed' /\ dropped \subseteq dropped'
  <2>1. ASSUME NEW r \in Requests, UpdateUserPassword(r) \/ Drop(r)
        PROVE  /\ changed' \subseteq Tokens /\ dropped' \subseteq Tokens
               /\ changed \subseteq changed' /\ dropped \subseteq dropped'
    BY <1>1, <1>2, <2>1 DEF UpdateUserPassword, Drop
  <2>2. CASE UNCHANGED <<changed, dropped>>
    BY <1>1, <2>2
  <2> QED
    BY <2>1, <2>2 DEF Next, Request, Register, InsertUser, Issue, RevokeAll, Resend, Forgot,
       PutLocation, Verify, Reset, ReverseGeocode, Login, ExpireLink, CleanLinks, DeleteMe,
       ghosts, MarkEmailVerified, UpdateUserLocation, ClearLocation
<1>4. ASSUME NEW t \in Tokens, NEW r \in Requests, At(r, "password"), req[r].token = t
      PROVE  Accounted(t)'
  <2>1. CASE req'[r] = req[r]
    BY <1>4, <2>1
  <2>2. CASE req'[r] # req[r]
    <3>1. UpdateUserPassword(r) \/ Drop(r)
      <4>1. ASSUME NEW q \in Requests, q # r, Request(q)  PROVE FALSE
        <5>1. \/ UNCHANGED req
              \/ \E f : req' = [req EXCEPT ![q] = f]
              \/ \E f, g : req' = [req EXCEPT ![q].pc = f, ![q].user = g]
              \/ \E f : req' = [req EXCEPT ![q].pc = f]
              \/ \E f, g, h : req' = [req EXCEPT ![q].pc = f, ![q].ok = g, ![q].region = h]
          BY <4>1 DEF Request, Register, InsertUser, Issue, RevokeAll, Drop, Resend, Forgot,
             PutLocation, Verify, Reset, ReverseGeocode, DeleteMe, Consume,
             MarkEmailVerified, UpdateUserPassword, UpdateUserLocation, ClearLocation
        <5> QED
          BY <1>1, <2>2, <4>1, <5>1
      <4>2. CASE Request(r)
        BY <1>4, <2>2, <4>2 DEF Request, Register, InsertUser, Issue, RevokeAll, Resend, Forgot,
           PutLocation, Verify, Reset, ReverseGeocode, DeleteMe, Consume,
           MarkEmailVerified, UpdateUserLocation, ClearLocation
      <4> QED
        BY <2>2, <4>1, <4>2 DEF Next, Login, ExpireLink, CleanLinks
    <3> QED
      BY <1>4, <3>1 DEF UpdateUserPassword, Drop
  <2> QED
    BY <2>1, <2>2
<1>5. ASSUME NEW t \in Tokens, Spent(t)'
      PROVE  Accounted(t)'
  <2>1. CASE Spent(t)
    BY <1>1, <1>3, <1>4, <2>1
  <2>2. ASSUME NEW r \in Requests, NEW s \in Tokens, NEW p, NEW next, Consume(r, s, p, next),
               p = "reset_password" => next = "password", ~Spent(t)
        PROVE  Accounted(t)'
    <3>1. /\ link' = [link EXCEPT ![s].status = "used"] /\ link[s].purpose = p
          /\ req' = [req EXCEPT ![r] = [Idle EXCEPT !.pc = next, !.user = link[s].user, !.token = s]]
      BY <1>5, <2>2 DEF Consume, Claimable
    <3>2. t = s /\ p = "reset_password"
      BY <1>1, <1>5, <2>2, <3>1 DEF LinkRow
    <3>3. At(r, "password")' /\ req'[r].token = t
      BY <1>1, <2>2, <3>1, <3>2 DEF Idle
    <3> QED
      BY <3>3
  <2>3. ASSUME NEW r \in Requests, Issue(r)  PROVE Spent(t)
    BY <1>1, <1>5, <2>3 DEF Issue, ReplaceAuthToken, NoLink
  <2>4. ASSUME NEW s \in Tokens, ExpireLink(s)  PROVE Spent(t)
    BY <1>1, <1>5, <2>4 DEF ExpireLink, LinkRow
  <2>5. ASSUME NEW r \in Requests, NEW u \in Users, DeleteMe(r, u)  PROVE Spent(t)
    BY <1>1, <1>5, <2>5 DEF DeleteMe, NoLink
  <2>6. ASSUME NEW used \in SUBSET Tokens, CleanLinks(used)  PROVE Spent(t)
    BY <1>1, <1>5, <2>6 DEF CleanLinks, NoLink
  <2>7. CASE link' = link
    BY <1>5, <2>1, <2>7
  <2> QED
    BY <2>1, <2>2, <2>3, <2>4, <2>5, <2>6, <2>7 DEF Next, Request, Register, InsertUser, RevokeAll,
       Drop, Resend, Forgot, PutLocation, Verify, Reset, ReverseGeocode, Login,
       MarkEmailVerified, UpdateUserPassword, UpdateUserLocation, ClearLocation
<1> QED
  BY <1>3, <1>5 DEF SpentOnAPassword

(* ------------------------- the inductive invariant ---------------------- *)

LEMMA InitIInv ==
  ASSUME AccountConstants, Init
  PROVE  IInv
<1> USE DEF Init, Users, Tokens
<1>1. /\ MaxUsers \in Nat /\ MaxTokens \in Nat /\ Idle \in RequestType
      /\ NoUser \in UserRow /\ NoLink \in LinkRow
  BY TypeFacts
<1>2. /\ ~NoUser.exists /\ NoLink.status = "absent" /\ Idle.pc = "idle"
      /\ Idle.user = 0 /\ Idle.token = 0
  BY DEF NoUser, NoLink, Idle
<1>3. Registered = {}
  BY <1>2 DEF Registered
<1>4. TypeOK
  <2>1. user \in [Users -> UserRow] /\ link \in [Tokens -> LinkRow]
    BY <1>1
  <2>2. \A r \in Requests : req[r] = Idle
    OBVIOUS
  <2>3. lookup \in [Users -> BOOLEAN]
    OBVIOUS
  <2>4. redeemed \in [Tokens -> 0..2] /\ created \in 0..MaxUsers /\ issued \in 0..MaxTokens
    BY <1>1
  <2> QED
    BY <1>1, <1>2, <2>1, <2>2, <2>3, <2>4 DEF TypeOK, UserRow, LinkRow
<1>5. RequestInv
  BY <1>1, <1>2 DEF RequestInv, At
<1>6. OneAccountInv /\ NothingOutlivesErasure /\ CompletedLookupDecides
  BY <1>2, <1>3 DEF OneAccountInv, NothingOutlivesErasure, CompletedLookupDecides
<1>7. FreshLinkInv /\ LinksSafe
  BY <1>2 DEF FreshLinkInv, LinksSafe, OneLinkPerPurpose, WorksOnce, SpentOnAPassword
<1> QED
  BY <1>4, <1>5, <1>6, <1>7 DEF IInv

LEMMA NextIInv ==
  ASSUME AccountConstants, IInv, [Next]_vars
  PROVE  IInv'
<1>1. CASE Next
  <2>1. RequestInv' /\ OneAccountInv' /\ NothingOutlivesErasure'
    BY <1>1, RequestStep, OneAccountStep, ErasureStep
  <2>2. FreshLinkInv' /\ LinksSafe' /\ CompletedLookupDecides'
    BY <1>1, LinkStep, SpentStep, UserStep DEF LinksSafe
  <2>3. TypeOK'
    <3>1. user' \in [Users -> UserRow] /\ lookup' \in [Users -> BOOLEAN] /\ created' \in 0..MaxUsers
      BY <1>1, UserStep
    <3>2. /\ link' \in [Tokens -> LinkRow] /\ redeemed' \in [Tokens -> 0..2]
          /\ issued' \in 0..MaxTokens
      BY <1>1, LinkStep
    <3>3. signedIn' \subseteq 1..created'
      BY <2>1 DEF NothingOutlivesErasure, OneAccountInv
    <3>4. \A r \in Requests :
            /\ req'[r].pc \in {"idle", "insert", "issue", "mark", "password", "markReset",
                              "revoke", "lookup", "save"}
            /\ req'[r].user \in 0..created' /\ req'[r].token \in 0..issued'
      BY <1>1, RequestStep DEF RequestInv, RequestType
    <3>5. changed' \subseteq Tokens /\ dropped' \subseteq Tokens
      BY <1>1, SpentStep
    <3> QED
      BY <3>1, <3>2, <3>3, <3>4, <3>5 DEF TypeOK, UserRow, LinkRow
  <2> QED
    BY <2>1, <2>2, <2>3 DEF IInv
<1>2. CASE UNCHANGED vars
  <2> USE <1>2 DEF vars, ghosts
  <2>1. TypeOK'
    BY DEF IInv, TypeOK
  <2>2. RequestInv' /\ OneAccountInv' /\ NothingOutlivesErasure' /\ FreshLinkInv'
    BY DEF IInv, RequestInv, At, OneAccountInv, NothingOutlivesErasure, Registered, FreshLinkInv
  <2>3. LinksSafe' /\ CompletedLookupDecides'
    BY DEF IInv, LinksSafe, OneLinkPerPurpose, WorksOnce, SpentOnAPassword, At,
       CompletedLookupDecides, Registered
  <2> QED
    BY <2>1, <2>2, <2>3 DEF IInv
<1> QED
  BY <1>1, <1>2

(* The inductive invariant of accounts and links: every conjunct of IInv   *)
(* holds whatever statements of whatever requests run in between (auth.ts, *)
(* auth-tokens.ts).                                                        *)
THEOREM Invariance == Spec => []IInv
<1>1. Init => IInv
  BY InitIInv, AccountConstants
<1>2. IInv /\ [Next]_vars => IInv'
  BY NextIInv, AccountConstants
<1> QED
  BY <1>1, <1>2, PTL DEF Spec

(* ------------------------------ the theorems ---------------------------- *)

(* However many sign-ups, erasures and other requests are under way, the   *)
(* address has one account at most and nothing is left of one that is gone *)
(* (auth.ts, the UNIQUE address and the cascades of the schema).           *)
THEOREM AccountIsSafe == Spec => []AccountsSafe
<1>1. IInv => AccountsSafe
  <2> SUFFICES ASSUME IInv  PROVE OneAccountPerAddress
    BY DEF AccountsSafe, IInv
  <2>1. \A u, v \in Registered : u = v
    BY DEF IInv, OneAccountInv
  <2>2. CASE Registered = {}
    BY <2>2, FS_EmptySet DEF OneAccountPerAddress
  <2>3. ASSUME NEW u \in Registered  PROVE OneAccountPerAddress
    <3>1. Registered = {u}
      BY <2>1
    <3>2. Cardinality({u}) = 1
      BY FS_Singleton
    <3> QED
      BY <3>1, <3>2 DEF OneAccountPerAddress
  <2> QED
    BY <2>2, <2>3
<1> QED
  BY <1>1, Invariance, PTL

(* A mailed link is one of its kind, is redeemed once, and a reset's is    *)
(* spent on a password (replaceAuthToken, claimAuthToken, the reset form). *)
THEOREM LinksAreSafe == Spec => []LinksSafe
<1>1. IInv => LinksSafe
  BY DEF IInv
<1> QED
  BY <1>1, Invariance, PTL

(* A completed lookup decides the region, whatever request writes the row  *)
(* in between (PUT and DELETE /location).                                  *)
THEOREM LookupDecides == Spec => []CompletedLookupDecides
<1>1. IInv => CompletedLookupDecides
  BY DEF IInv
<1> QED
  BY <1>1, Invariance, PTL
=============================================================================
