----------------------------- MODULE AppProofs ------------------------------
(* The app, for any number of accounts, screens, alerts and settings: its  *)
(* session on the phone (by the invariant IInv of module ClientSession)    *)
(* and in the server's table, for any number of tokens and requests (by    *)
(* TokensInv of module RefreshTokens), its inbox (by InboxInv of module    *)
(* Inbox) and its settings (by SettingsInv of module Settings).            *)
EXTENDS ClientSession, RefreshTokens, Inbox, Settings, FiniteSetTheorems, FunctionTheorems, TLAPS

(***************************************************************************)
(* The session.                                                            *)
(***************************************************************************)
Storable == [by : Writers, pair : 0..MaxPair]
CallState == [at : {"idle", "sent", "waiting"}, token : 0..MaxPair, isRetry : BOOLEAN]
RenewalState == [at : {"idle", "sent", "answered", "storing", "clearing"},
                 using : 0..MaxPair, answer : 0..MaxPair]
LogoutState == [at : {"idle", "calling", "clearing"}, using : 0..MaxPair]

(* A storage operation is queued behind the others.                        *)
LEMMA Queued ==
  ASSUME NEW S, NEW q \in Seq(S), NEW w \in S
  PROVE  LET r == Append(q, w) IN
         /\ r \in Seq(S) /\ Len(r) = Len(q) + 1 /\ DOMAIN r = 1..(Len(q) + 1)
         /\ Len(r) \in Nat
         /\ \A i \in DOMAIN q : i \in Nat /\ i < Len(r) /\ r[i] = q[i]
         /\ r[Len(r)] = w /\ r # <<>> /\ Last(r) = w
         /\ DOMAIN r = DOMAIN q \cup {Len(r)}
BY DEF Last

(* The oldest one is done: the others move up.                             *)
LEMMA Popped ==
  ASSUME NEW S, NEW q \in Seq(S), q # <<>>
  PROVE  /\ Head(q) \in S /\ Head(q) = q[1] /\ 1 \in DOMAIN q
         /\ Tail(q) \in Seq(S)
         /\ \A i \in DOMAIN Tail(q) : i \in Nat /\ i >= 1 /\ i + 1 \in DOMAIN q
                                       /\ Tail(q)[i] = q[i + 1]
         /\ Tail(q) = <<>> => Last(q) = Head(q)
         /\ Tail(q) # <<>> => Last(Tail(q)) = Last(q)
BY DEF Last

(* What the fields are, and the constants the steps assign.                *)
LEMMA TypeFacts ==
  ASSUME TypeOK, ClientSessionConstants
  PROVE  /\ MaxPair \in Nat
         /\ issued \in 0..MaxPair /\ stale \in 0..MaxPair
         /\ row \in [Pairs -> {"none", "live", "spent", "gone"}]
         /\ family \in [Pairs -> 0..MaxPair] /\ owner \in [Pairs -> Users \cup {Nobody}]
         /\ stored \in 0..MaxPair /\ ref \in 0..MaxPair /\ token \in 0..MaxPair
         /\ writes \in Seq(Storable)
         /\ renewal \in RenewalState /\ logout \in LogoutState
         /\ call \in [Calls -> CallState]
         /\ NoCall \in CallState /\ NoRenewal \in RenewalState /\ NoLogout \in LogoutState
BY DEF TypeOK, ClientSessionConstants, Storable, RenewalState, LogoutState, CallState,
       NoCall, NoRenewal, NoLogout, NoPair

(* The record a step makes of one of the calls, and of the renewal.        *)
LEMMA RecordFacts ==
  ASSUME ClientSessionConstants
  PROVE  /\ \A n \in 0..MaxPair, b \in BOOLEAN : Sent(n, b) \in CallState
         /\ \A n \in 0..MaxPair, by \in Writers :
              /\ Write(by, n) \in Storable
              /\ Write(by, n).by = by /\ Write(by, n).pair = n
         /\ \A r \in RenewalState, a \in {"idle", "sent", "answered", "storing", "clearing"},
              n \in 0..MaxPair :
              /\ [r EXCEPT !.at = a] \in RenewalState
              /\ [r EXCEPT !.at = a, !.answer = n] \in RenewalState
              /\ [r EXCEPT !.at = a, !.using = n] \in RenewalState
         /\ \A n \in 0..MaxPair : [at |-> "calling", using |-> n] \in LogoutState
         /\ [NoLogout EXCEPT !.at = "clearing"] \in LogoutState
<1>1. 0 \in 0..MaxPair
  BY DEF ClientSessionConstants
<1>2. \A n \in 0..MaxPair, b \in BOOLEAN : Sent(n, b) \in CallState
  BY DEF CallState, Sent
<1>3. \A n \in 0..MaxPair, by \in Writers :
        Write(by, n) \in Storable /\ Write(by, n).by = by /\ Write(by, n).pair = n
  BY DEF Storable, Write
<1>4. ASSUME NEW r \in RenewalState, NEW n \in 0..MaxPair,
             NEW a \in {"idle", "sent", "answered", "storing", "clearing"}
      PROVE  /\ [r EXCEPT !.at = a] \in RenewalState
             /\ [r EXCEPT !.at = a, !.answer = n] \in RenewalState
             /\ [r EXCEPT !.at = a, !.using = n] \in RenewalState
  BY DEF RenewalState
<1>5. \A n \in 0..MaxPair : [at |-> "calling", using |-> n] \in LogoutState
  BY DEF LogoutState
<1>6. [NoLogout EXCEPT !.at = "clearing"] \in LogoutState
  BY <1>1 DEF LogoutState, NoLogout, NoPair
<1> QED
  BY <1>2, <1>3, <1>4, <1>5, <1>6

(* The functions and queues the steps assign have their types.             *)
LEMMA CallFacts ==
  ASSUME call \in [Calls -> CallState], ClientSessionConstants
  PROVE  /\ \A c \in Calls, r \in CallState : [call EXCEPT ![c] = r] \in [Calls -> CallState]
         /\ \A c \in Calls : [call EXCEPT ![c].at = "waiting"] \in [Calls -> CallState]
         /\ \A r \in CallState : \A S :
              [c \in Calls |-> IF c \in S THEN r ELSE call[c]] \in [Calls -> CallState]
         /\ [c \in Calls |-> NoCall] \in [Calls -> CallState]
         /\ \A S : BootAfter(S) \in {"done", boot}
<1>1. NoCall \in CallState
  BY DEF NoCall, CallState, NoPair, ClientSessionConstants
<1>2. ASSUME NEW c \in Calls
      PROVE  [call EXCEPT ![c].at = "waiting"] \in [Calls -> CallState]
  <2>1. [call[c] EXCEPT !.at = "waiting"] \in CallState
    BY DEF CallState
  <2> QED
    BY <2>1
<1>3. \A S : BootAfter(S) \in {"done", boot}
  BY DEF BootAfter
<1>4. \A c \in Calls, r \in CallState : [call EXCEPT ![c] = r] \in [Calls -> CallState]
  OBVIOUS
<1> QED
  BY <1>1, <1>2, <1>3, <1>4

Typed ==
  /\ issued \in 0..MaxPair /\ stale \in 0..MaxPair
  /\ row \in [Pairs -> {"none", "live", "spent", "gone"}]
  /\ family \in [Pairs -> 0..MaxPair] /\ owner \in [Pairs -> Users \cup {Nobody}]
  /\ stored \in 0..MaxPair /\ ref \in 0..MaxPair /\ token \in 0..MaxPair
  /\ writes \in Seq(Storable)
  /\ bound \in Users \cup {Nobody} /\ boot \in {"reading", "profile", "done"}
  /\ renewal \in RenewalState /\ logout \in LogoutState
  /\ call \in [Calls -> CallState]
  /\ lost \subseteq Pairs /\ faults \in 0..MaxFaults /\ broken \in BOOLEAN

(* The type invariant, with its record sets named.                         *)
LEMMA TypedIsTypeOK == (TypeOK <=> Typed) /\ (TypeOK' <=> Typed')
BY DEF TypeOK, Typed, Storable, CallState, RenewalState, LogoutState

(* Every step leaves the state of its type.                                *)
LEMMA StepTypeOK ==
  ASSUME ClientSessionConstants, TypeOK, IssuedInv, Next
  PROVE  TypeOK'
<1> DEFINE W == Storable
           C == [Calls -> CallState]
<1>1. Typed /\ MaxPair \in Nat /\ MaxFaults \in Nat /\ NoPair = 0
      /\ NoCall \in CallState /\ NoRenewal \in RenewalState /\ NoLogout \in LogoutState
  BY TypedIsTypeOK, TypeFacts DEF ClientSessionConstants, NoPair
<1>2. SUFFICES Typed'
  BY TypedIsTypeOK
<1>3. /\ \A c \in Calls, r \in CallState : [call EXCEPT ![c] = r] \in C
      /\ \A c \in Calls : [call EXCEPT ![c].at = "waiting"] \in C
      /\ \A r \in CallState : \A S :
           [c \in Calls |-> IF c \in S THEN r ELSE call[c]] \in C
      /\ [c \in Calls |-> NoCall] \in C
      /\ \A S : BootAfter(S) \in {"done", boot}
  BY <1>1, CallFacts DEF Typed
<1>4. \A n \in 0..MaxPair, b \in BOOLEAN : Sent(n, b) \in CallState
  BY RecordFacts
<1>5. \A n \in 0..MaxPair, by \in Writers : Append(writes, Write(by, n)) \in Seq(W)
  BY <1>1, RecordFacts, Queued DEF Typed
<1>6. writes # <<>> => Tail(writes) \in Seq(W) /\ Head(writes) \in W
  BY <1>1, Popped DEF Typed
<1>7. Writers = {"login", "renew", "over", "logout"} /\ "boot" \in Calls /\ "login" \in Calls
  BY DEF Writers, Calls
<1>8. \A S : EndFailed(S) => call' \in C /\ boot' \in {"done", boot}
  BY <1>1, <1>3 DEF EndFailed
<1>9. ASSUME NEW fam \in 0..MaxPair, NEW u \in Users \cup {Nobody}, Issue(fam, u)
      PROVE  /\ issued' \in 0..MaxPair /\ issued + 1 \in Pairs
             /\ family' \in [Pairs -> 0..MaxPair] /\ owner' \in [Pairs -> Users \cup {Nobody}]
  BY <1>1, <1>9 DEF Issue, Typed, Pairs
<1> HIDE DEF W, C
<1>10. CASE \E c \in Calls : Accepted(c)
  <2>1. PICK c \in Calls : Accepted(c)
    BY <1>10
  <2>2. call[c].token \in Pairs
    BY <1>1, <2>1 DEF Accepted, Typed, CallState, Pairs
  <2> QED
    BY <1>1, <1>3, <2>1, <2>2 DEF Accepted, Typed, C, server, ghosts
<1>11. CASE \E c \in Calls : Unauthorized(c)
  <2>1. PICK c \in Calls : Unauthorized(c)
    BY <1>11
  <2>2. [NoRenewal EXCEPT !.at = "sent", !.using = ref] \in RenewalState
    BY <1>1, RecordFacts DEF Typed
  <2> QED
    BY <1>1, <1>3, <1>8, <2>1, <2>2 DEF Unauthorized, Typed, C, server, ghosts
<1>12. CASE \E c \in Calls : CallFails(c)
  BY <1>1, <1>8, <1>12 DEF CallFails, Typed, C, server, ghosts
<1>13. CASE \E c \in Screens : StartCall(c)
  <2>1. PICK c \in Screens : StartCall(c)
    BY <1>13
  <2>2. c \in Calls /\ Sent(token, FALSE) \in CallState
    BY <1>1, <1>4 DEF Typed, Calls
  <2>3. call' \in C
    <3>1. call' = [call EXCEPT ![c] = Sent(token, FALSE)]
      BY <2>1 DEF StartCall
    <3> HIDE DEF C
    <3> QED
      BY <1>3, <2>2, <3>1
  <2>4. UNCHANGED <<issued, stale, row, family, owner, stored, writes, ref, token, bound, boot,
                    renewal, logout, lost, faults, broken>>
    BY <2>1 DEF StartCall, server, ghosts
  <2> QED
    BY <1>1, <2>3, <2>4 DEF Typed, C
<1>14. CASE \E n \in Pairs : Revoke(n)
  BY <1>1, <1>14 DEF Revoke, Typed, ghosts
<1>15. CASE \E u \in Users : Login(u)
  <2>1. PICK u \in Users : Login(u)
    BY <1>15
  <2>2. /\ issued' \in 0..MaxPair /\ issued + 1 \in Pairs
        /\ family' \in [Pairs -> 0..MaxPair] /\ owner' \in [Pairs -> Users \cup {Nobody}]
    BY <1>1, <1>9, <2>1 DEF Login
  <2>3. writes' \in Seq(W) /\ ref' \in 0..MaxPair
    BY <1>1, <1>5, <1>7, <2>1, <2>2 DEF Login, Pairs
  <2>4. row' \in [Pairs -> {"none", "live", "spent", "gone"}]
    BY <1>1, <2>1, <2>2 DEF Login, Typed
  <2> QED
    BY <1>1, <2>1, <2>2, <2>3, <2>4 DEF Login, Typed, W, ghosts
<1>16. ASSUME NEW by \in Writers, StartClearing(by)
       PROVE  bound' \in Users \cup {Nobody} /\ ref' \in 0..MaxPair /\ writes' \in Seq(W)
  BY <1>1, <1>5, <1>16 DEF StartClearing
<1>17. CASE Logout
  <2>1. /\ [at |-> "calling", using |-> ref] \in LogoutState
        /\ [NoLogout EXCEPT !.at = "clearing"] \in LogoutState
    BY <1>1, RecordFacts DEF Typed
  <2> QED
    BY <1>1, <1>7, <1>16, <1>17, <2>1 DEF Logout, Typed, W, server, ghosts
<1>18. CASE LogoutAnswered
  <2>1. [NoLogout EXCEPT !.at = "clearing"] \in LogoutState
    BY RecordFacts
  <2>2. row' \in [Pairs -> {"none", "live", "spent", "gone"}]
    BY <1>1, <1>18 DEF LogoutAnswered, Typed
  <2> QED
    BY <1>1, <1>7, <1>16, <1>18, <2>1, <2>2 DEF LogoutAnswered, Typed, W, ghosts
<1>19. CASE Expire
  BY <1>1, <1>19 DEF Expire, Typed, ghosts
<1>20. CASE Refresh
  <2> DEFINE t == renewal.using
  <2>1. t \in Pairs
    BY <1>1, <1>20 DEF Refresh, IssuedInv, Pairs, Typed
  <2>2. CASE row[t] = "live" /\ Issue(family[t], owner[t])
             /\ row' = [row EXCEPT ![t] = "spent", ![issued + 1] = "live"]
             /\ renewal' = [renewal EXCEPT !.at = "answered", !.answer = issued + 1]
    <3>1. family[t] \in 0..MaxPair /\ owner[t] \in Users \cup {Nobody}
      BY <1>1, <2>1 DEF Typed
    <3>2. /\ issued' \in 0..MaxPair /\ issued + 1 \in Pairs
          /\ family' \in [Pairs -> 0..MaxPair] /\ owner' \in [Pairs -> Users \cup {Nobody}]
      BY <1>9, <2>2, <3>1
    <3>3. renewal' \in RenewalState
      <4>1. issued + 1 \in 0..MaxPair
        BY <1>1, <3>2 DEF Pairs
      <4>2. renewal \in RenewalState
        BY <1>1 DEF Typed
      <4> QED
        BY <2>2, <4>1, <4>2, RecordFacts
    <3>4. row' \in [Pairs -> {"none", "live", "spent", "gone"}]
      BY <1>1, <2>2 DEF Typed
    <3> QED
      BY <1>1, <1>20, <3>2, <3>3, <3>4 DEF Refresh, Typed, ghosts
  <2>3. CASE /\ row' = [n \in Pairs |-> IF row[t] = "spent" /\ family[n] = family[t]
                                           THEN "gone" ELSE row[n]]
             /\ renewal' = [renewal EXCEPT !.at = "answered"]
             /\ UNCHANGED <<issued, family, owner>>
    <3>1. renewal' \in RenewalState
      BY <1>1, <2>3, RecordFacts DEF Typed
    <3>2. row' \in [Pairs -> {"none", "live", "spent", "gone"}]
      BY <1>1, <2>3 DEF Typed
    <3> QED
      BY <1>1, <1>20, <2>3, <3>1, <3>2 DEF Refresh, Typed, ghosts
  <2> QED
    BY <1>20, <2>2, <2>3 DEF Refresh
<1>21. CASE RenewalAnswered
  <2>1. \A a \in {"storing", "clearing"} : [renewal EXCEPT !.at = a] \in RenewalState
    BY <1>1, RecordFacts DEF Typed
  <2>2. renewal.answer \in 0..MaxPair
    BY <1>1 DEF Typed, RenewalState
  <2>3. Append(writes, Write("renew", renewal.answer)) \in Seq(W)
    BY <1>5, <1>7, <2>2
  <2> QED
    BY <1>1, <1>7, <1>16, <1>21, <2>1, <2>2, <2>3 DEF RenewalAnswered, Typed, W, server, ghosts
<1>22. CASE RenewalFails
  <2>1. renewal.using \in Pairs
    BY <1>1, <1>22 DEF RenewalFails, IssuedInv, Pairs, Typed
  <2> QED
    BY <1>1, <1>8, <1>22, <2>1 DEF RenewalFails, Typed, C, server
<1>23. ASSUME writes # <<>>, After(Head(writes))
       PROVE  /\ token' \in 0..MaxPair /\ call' \in C /\ boot' \in {"done", boot}
              /\ renewal' \in RenewalState /\ logout' \in LogoutState
  <2>1. Head(writes).pair \in 0..MaxPair
    BY <1>6, <1>23 DEF W, Storable
  <2>2. \A b \in BOOLEAN : Sent(Head(writes).pair, b) \in CallState
    BY <1>4, <2>1
  <2>3. renewal \in RenewalState /\ logout \in LogoutState /\ call \in C
    BY <1>1 DEF Typed, C
  <2> QED
    <3> DEFINE p == Head(writes).pair
    <3>1. CASE AfterLogin(p)
      <4>1. [call EXCEPT !["login"] = Sent(p, FALSE)] \in C
        BY <1>3, <1>7, <2>2
      <4> QED
        BY <2>1, <2>3, <3>1, <4>1 DEF AfterLogin
    <3>2. CASE AfterRenewal(p)
      <4>1. [c \in Calls |-> IF c \in Waiting THEN Sent(p, TRUE) ELSE call[c]] \in C
        BY <1>3, <2>2
      <4> QED
        BY <1>1, <2>1, <2>3, <3>2, <4>1 DEF AfterRenewal
    <3>3. CASE AfterOver
      <4>1. [c \in Calls |-> IF c \in Waiting THEN NoCall ELSE call[c]] \in C
        BY <1>1, <1>3
      <4>2. NoPair \in 0..MaxPair
        BY <1>1
      <4> QED
        BY <1>1, <1>3, <2>3, <3>3, <4>1, <4>2 DEF AfterOver
    <3>4. CASE AfterLogout
      <4>1. NoPair \in 0..MaxPair
        BY <1>1
      <4> QED
        BY <1>1, <2>3, <3>4, <4>1 DEF AfterLogout
    <3> QED
      BY <1>23, <3>1, <3>2, <3>3, <3>4 DEF After
<1>24. CASE WriteDone
  <2>1. Head(writes).pair \in 0..MaxPair
    BY <1>6, <1>24 DEF WriteDone, W, Storable
  <2> QED
    BY <1>1, <1>6, <1>23, <1>24, <2>1 DEF WriteDone, Typed, W, C, server, ghosts
<1>25. CASE WriteFails
  <2>1. /\ token' \in 0..MaxPair /\ call' \in C /\ boot' \in {"done", boot}
        /\ renewal' \in RenewalState /\ logout' \in LogoutState
    BY <1>1, <1>23, <1>25 DEF WriteFails, Typed, C
  <2> QED
    BY <1>1, <1>6, <1>25, <2>1 DEF WriteFails, Fault, Typed, W, C, server
<1>26. CASE ReadStored
  <2>1. call' \in C
    BY <1>1, <1>3, <1>4, <1>7, <1>26 DEF ReadStored, Typed, C
  <2> QED
    BY <1>1, <1>26, <2>1 DEF ReadStored, Typed, C, server, ghosts
<1>27. CASE ReadFails
  BY <1>1, <1>27 DEF ReadFails, Fault, Typed, server
<1>28. CASE Kill
  <2>1. renewal.at \in {"answered", "storing"} => renewal.using \in Pairs
    BY <1>1 DEF IssuedInv, Pairs, Typed
  <2>2. lost' \subseteq Pairs
    BY <1>1, <1>28, <2>1 DEF Kill, Typed
  <2> QED
    BY <1>1, <1>3, <1>28, <2>2 DEF Kill, Fault, Typed, C, server
<1> QED
  BY <1>10, <1>11, <1>12, <1>13, <1>14, <1>15, <1>17, <1>18, <1>19, <1>20, <1>21, <1>22,
     <1>24, <1>25, <1>26, <1>27, <1>28
     DEF Next, Call, Renewal, Storage, Boot

(* ------------------------ one action at a time --------------------------*)

(* The calls, and a server that only ends sessions, leave what the device  *)
(* holds alone.                                                            *)
LEMMA QuietStep ==
  ASSUME ClientSessionConstants, IInv, TypeOK',
         UNCHANGED <<issued, family, stored, writes, ref, token, renewal, logout, lost, broken>>,
         boot' = "reading" <=> boot = "reading",
         boot' = "reading" => \A c \in Calls : call'[c].at = "idle",
         \A n \in Pairs : row'[n] = row[n] \/ (row'[n] = "gone" /\ n <= issued)
  PROVE  IInv'
<1>1. issued \in 0..MaxPair /\ MaxPair \in Nat /\ 1..issued \subseteq Pairs
  BY DEF IInv, TypeOK, Pairs, ClientSessionConstants
<1>2. IssuedInv'
  BY <1>1 DEF IInv, IssuedInv, NoPair, Pairs
<1>3. ReadingInv'
  BY DEF IInv, ReadingInv
<1>4. WritesInv'
  BY DEF IInv, WritesInv, OfRenewal
<1>5. RenewalInv'
  <2>1. /\ renewal.at # "idle" => renewal.using \in Pairs
        /\ renewal.answer # NoPair => renewal.answer \in Pairs
    BY <1>1 DEF IInv, IssuedInv, NoPair, Pairs
  <2> QED
    BY <2>1 DEF IInv, RenewalInv
<1>6. \A n \in 0..issued : Excused(n) => Excused(n)'
  BY <1>1 DEF Excused, Rotated, NoPair, Pairs
<1>7. KeptInv'
  BY <1>6 DEF IInv, KeptInv, IssuedInv
<1>8. OneSession'
  BY DEF IInv, OneSession, LastWrite, ReadingInv
<1>9. SpentOnlyAfterLoss'
  <2>1. renewal.at # "idle" => renewal.using \in Pairs
    BY <1>1 DEF IInv, IssuedInv
  <2> QED
    BY <2>1 DEF IInv, SpentOnlyAfterLoss
<1> QED
  BY <1>2, <1>3, <1>4, <1>5, <1>7, <1>8, <1>9 DEF IInv

(* A call: started, accepted, failed, or refused for want of a session.    *)
LEMMA CallStep ==
  ASSUME ClientSessionConstants, IInv, TypeOK',
         \/ \E c \in Calls : Accepted(c) \/ CallFails(c) \/ Unauthorized(c)
         \/ \E c \in Screens : StartCall(c)
  PROVE  IInv'
<1>1. ASSUME NEW c \in Calls, call[c].at = "sent"
      PROVE  boot # "reading" /\ BootAfter({c}) # "reading"
  BY <1>1 DEF IInv, ReadingInv, BootAfter
<1>2. CASE \E c \in Calls : Accepted(c)
  BY <1>1, <1>2, QuietStep DEF Accepted, server, ghosts
<1>3. CASE \E c \in Calls : CallFails(c)
  BY <1>1, <1>3, QuietStep DEF CallFails, EndFailed, server, ghosts
<1>4. CASE \E c \in Screens : StartCall(c)
  BY <1>4, QuietStep DEF StartCall, server, ghosts
<1>5. ASSUME NEW c \in Calls, Unauthorized(c)  PROVE IInv'
  <2>1. boot # "reading" /\ BootAfter({c}) # "reading"
    BY <1>1, <1>5 DEF Unauthorized
  <2>2. CASE UNCHANGED renewal
    <3>1. boot' # "reading"
      BY <1>5, <2>1 DEF Unauthorized, EndFailed
    <3> QED
      BY <1>5, <2>1, <2>2, <3>1, QuietStep DEF Unauthorized, server, ghosts
  <2>3. CASE /\ NoneInFlight /\ ref # NoPair /\ UNCHANGED boot
             /\ renewal' = [NoRenewal EXCEPT !.at = "sent", !.using = ref]
    <3>1. /\ UNCHANGED <<issued, row, family, stored, writes, ref, token, logout, lost, broken>>
          /\ boot' = boot /\ renewal.at = "idle"
      BY <1>5, <2>3 DEF Unauthorized, server, ghosts, NoneInFlight
    <3>2. renewal'.at = "sent" /\ renewal'.using = ref /\ renewal'.answer = NoPair
      BY <2>3 DEF NoRenewal
    <3>3. \A i \in DOMAIN writes : ~OfRenewal(i)
      BY <3>1 DEF IInv, WritesInv, OfRenewal
    <3>4. IssuedInv'
      <4>1. issued \in Nat /\ ref \in 1..issued
        BY <2>3, TypeFacts DEF IInv, IssuedInv, NoPair
      <4>2. renewal'.using \in 1..issued' /\ renewal'.answer \in 0..issued'
        BY <3>1, <3>2, <4>1 DEF NoPair
      <4> QED
        BY <3>1, <4>2 DEF IInv, IssuedInv
    <3>5. ReadingInv'
      BY <2>1, <3>1 DEF ReadingInv
    <3>6. WritesInv'
      BY <3>1, <3>3 DEF IInv, WritesInv, OfRenewal
    <3>7. RenewalInv'
      BY <3>1, <3>2 DEF RenewalInv
    <3>8. \A n : ~Rotated(n)
      BY <3>1 DEF Rotated
    <3>9. KeptInv'
      BY <3>1, <3>8 DEF IInv, KeptInv, Excused
    <3>10. OneSession'
      BY <3>1 DEF IInv, OneSession, LastWrite
    <3>11. SpentOnlyAfterLoss'
      <4>1. ~broken => Excused(ref)
        <5>1. ~broken => ref = LastWrite
          BY <2>1 DEF IInv, OneSession
        <5>2. writes # <<>> => Len(writes) \in DOMAIN writes /\ Last(writes) = writes[Len(writes)]
          BY TypeFacts DEF IInv, Last
        <5> QED
          BY <5>1, <5>2 DEF IInv, KeptInv, LastWrite
      <4> QED
        BY <2>3, <3>1, <3>2, <3>8, <4>1 DEF SpentOnlyAfterLoss, Excused
    <3> QED
      BY <3>4, <3>5, <3>6, <3>7, <3>9, <3>10, <3>11 DEF IInv
  <2> QED
    BY <1>5, <2>2, <2>3 DEF Unauthorized
<1> QED
  BY <1>2, <1>3, <1>4, <1>5

(* The server ends a session, or an access token runs out.                 *)
LEMMA ElsewhereStep ==
  ASSUME ClientSessionConstants, IInv, TypeOK', Expire \/ \E n \in Pairs : Revoke(n)
  PROVE  IInv'
<1>1. CASE Expire
  BY <1>1, QuietStep DEF Expire, ghosts, IInv, ReadingInv
<1>2. ASSUME NEW n \in Pairs, Revoke(n)  PROVE IInv'
  <2>1. n <= issued
    <3>1. row[n] = "live"
      BY <1>2 DEF Revoke
    <3>2. n > issued <=> row[n] = "none"
      BY DEF IInv, IssuedInv
    <3>3. n \in Int /\ issued \in Int
      BY TypeFacts DEF IInv, Pairs
    <3> HIDE DEF IInv
    <3> QED
      BY <3>1, <3>2, <3>3
  <2>2. \A m \in Pairs : row'[m] = row[m] \/ (row'[m] = "gone" /\ m <= issued)
    BY <1>2, <2>1, TypeFacts DEF Revoke, IInv
  <2> QED
    BY <1>2, <2>2, QuietStep DEF Revoke, ghosts, IInv, ReadingInv
<1> QED
  BY <1>1, <1>2

(* A new pair: the next number, live, in a family.                         *)
LEMMA IssueStep ==
  ASSUME ClientSessionConstants, IInv, TypeOK', NEW fam \in 0..MaxPair, NEW u, Issue(fam, u),
         row'[issued + 1] = "live",
         \A n \in 1..issued : row'[n] = "none" <=> row[n] = "none",
         \A n \in Pairs : n > issued + 1 => row'[n] = row[n]
  PROVE  /\ issued' = issued + 1 /\ issued \in Nat /\ issued + 1 \in Pairs
         /\ \A n \in Pairs : (n > issued' <=> row'[n] = "none")
                         /\ (n > issued' <=> family'[n] = NoPair)
<1>1. issued \in 0..MaxPair /\ MaxPair \in Nat /\ family \in [Pairs -> 0..MaxPair]
  BY TypeFacts DEF IInv
<1>2. /\ issued' = issued + 1 /\ issued + 1 \in Pairs
      /\ family' = [family EXCEPT ![issued + 1] = IF fam = NoPair THEN issued + 1 ELSE fam]
  BY <1>1 DEF Issue, Pairs
<1>3. \A n \in Pairs : n <= issued \/ n = issued + 1 \/ n > issued + 1
  BY <1>1 DEF Pairs
<1>4. \A n \in Pairs : n > issued' <=> row'[n] = "none"
  BY <1>1, <1>2, <1>3 DEF IInv, IssuedInv, Pairs
<1>5. \A n \in Pairs : n > issued' <=> family'[n] = NoPair
  BY <1>1, <1>2, <1>3 DEF IInv, IssuedInv, Pairs, NoPair
<1> QED
  BY <1>1, <1>2, <1>4, <1>5

(* A step that writes: the ref and the queued write agree, and the write   *)
(* is the renewal's own or another's.                                      *)
LEMMA PushStep ==
  ASSUME ClientSessionConstants, IInv, TypeOK',
         UNCHANGED <<stored, token, boot, lost, broken>>, boot # "reading",
         issued' >= issued,
         \A n \in Pairs : (n > issued' <=> row'[n] = "none")
                      /\ (n > issued' <=> family'[n] = NoPair),
         \A n \in 1..issued : row'[n] = "spent" => row[n] = "spent",
         \A n \in 1..issued : row[n] = "gone" => row'[n] = "gone",
         NEW w \in Storable, writes' = Append(writes, w), ref' = w.pair, w.pair \in 0..issued',
         Excused(w.pair)',
         logout'.at = "calling" => logout'.using \in 1..issued',
         \/ /\ w.by \in {"login", "logout"} /\ UNCHANGED renewal
            /\ w.by = "logout" => w.pair = NoPair
            /\ w.pair \notin 1..issued
         \/ /\ renewal.at = "answered"
            /\ renewal'.using = renewal.using /\ renewal'.answer = renewal.answer
            /\ w.pair = renewal.answer
            /\ \/ w.by = "renew" /\ renewal'.at = "storing" /\ renewal.answer # NoPair
               \/ w.by = "over" /\ renewal'.at = "clearing" /\ renewal.answer = NoPair
  PROVE  IInv'
<1>1. /\ issued \in 0..MaxPair /\ issued' \in 0..MaxPair /\ MaxPair \in Nat
      /\ 0..issued \subseteq 0..issued' /\ 1..issued \subseteq 1..issued'
      /\ 1..issued \subseteq Pairs
  <2>1. issued \in 0..MaxPair /\ issued' \in 0..MaxPair /\ MaxPair \in Nat
    BY TypeFacts DEF IInv, TypeOK
  <2> QED
    BY <2>1 DEF Pairs
<1> DEFINE L == Len(writes')
<1>2. /\ L \in Nat /\ DOMAIN writes' = DOMAIN writes \cup {L} /\ writes'[L] = w
      /\ \A i \in DOMAIN writes : i \in Nat /\ i < L /\ writes'[i] = writes[i]
      /\ writes' # <<>> /\ Last(writes') = w
  BY Queued, TypeFacts DEF IInv
<1> HIDE DEF L
<1>3. /\ renewal'.using = renewal.using /\ renewal'.answer = renewal.answer
      /\ renewal'.at # "sent" \/ UNCHANGED renewal
      /\ renewal'.at = "idle" => renewal.at = "idle"
      /\ renewal.at = "idle" => renewal'.at = "idle"
  OBVIOUS
<1>4. /\ renewal.at # "idle" => renewal.using \in 1..issued
      /\ renewal.answer # NoPair => renewal.answer \in 1..issued
  BY <1>1 DEF IInv, IssuedInv, NoPair
<1>5. IssuedInv'
  <2>1. \A i \in DOMAIN writes' : writes'[i].pair \in 0..issued'
    BY <1>1, <1>2 DEF IInv, IssuedInv
  <2>2. stored' \in 0..issued' /\ ref' \in 0..issued'
    BY <1>1 DEF IInv, IssuedInv
  <2>3. /\ renewal'.at # "idle" => renewal'.using \in 1..issued'
        /\ renewal'.answer \in 0..issued'
    BY <1>1, <1>3, <1>4 DEF NoPair
  <2> QED
    BY <2>1, <2>2, <2>3 DEF IssuedInv
<1>6. ReadingInv'
  BY DEF ReadingInv
<1>7. WritesInv'
  <2>1. renewal.at \in {"idle", "sent", "answered"} => \A i \in DOMAIN writes : ~OfRenewal(i)
    BY DEF IInv, WritesInv, OfRenewal
  <2>2. \A i \in DOMAIN writes' :
          /\ writes'[i].by \in {"over", "logout"} => writes'[i].pair = NoPair
          /\ writes'[i].by = "renew" =>
               renewal'.at = "storing" /\ writes'[i].pair = renewal'.answer
          /\ writes'[i].by = "over" => renewal'.at = "clearing"
    <3>1. ASSUME NEW i \in DOMAIN writes
          PROVE  /\ writes[i].by \in {"over", "logout"} => writes[i].pair = NoPair
                 /\ writes[i].by = "renew" =>
                      renewal'.at = "storing" /\ writes[i].pair = renewal'.answer
                 /\ writes[i].by = "over" => renewal'.at = "clearing"
      BY <2>1 DEF IInv, WritesInv, OfRenewal
    <3> QED
      BY <1>2, <3>1
  <2>3. ASSUME NEW i \in DOMAIN writes', NEW j \in DOMAIN writes', OfRenewal(i)', j > i
        PROVE  ~OfRenewal(j)' /\ writes'[j].pair # renewal'.using
    <3>1. i \in DOMAIN writes /\ OfRenewal(i)
      BY <1>2, <2>3 DEF OfRenewal
    <3>2. renewal.at \notin {"idle", "sent", "answered"}
      BY <2>1, <3>1
    <3>3. CASE j \in DOMAIN writes
      BY <1>2, <1>3, <2>3, <3>1, <3>3 DEF IInv, WritesInv, OfRenewal
    <3>4. CASE j = L
      BY <1>2, <1>4, <3>2, <3>4 DEF OfRenewal
    <3> QED
      BY <1>2, <3>3, <3>4
  <2> QED
    BY <2>2, <2>3 DEF WritesInv
<1>8. RenewalInv'
  <2>1. renewal.at # "idle" /\ row[renewal.using] = "gone" => row'[renewal.using] = "gone"
    BY <1>4
  <2>2. renewal.answer # NoPair /\ row'[renewal.answer] = "spent" =>
          row[renewal.answer] = "spent"
    BY <1>4
  <2> QED
    BY <1>3, <2>1, <2>2 DEF IInv, RenewalInv
<1>9. KeptInv'
  <2>1. ASSUME NEW n \in 0..issued, Excused(n)  PROVE Excused(n)'
    <3>1. Rotated(n) => Rotated(n)'
      BY DEF Rotated
    <3>2. n = NoPair \/ n \in 1..issued
      BY <1>1 DEF NoPair
    <3>3. CASE n \in 1..issued
      <4>1. row'[n] = "spent" => row[n] = "spent"
        BY <3>3
      <4> QED
        BY <2>1, <3>1, <4>1 DEF Excused
    <3> QED
      BY <3>2, <3>3 DEF Excused
  <2>2. ASSUME ~broken, NEW n, NEW i \in DOMAIN writes', n = writes'[i].pair
        PROVE  Excused(n)'
    <3>1. CASE i \in DOMAIN writes
      BY <1>2, <2>1, <2>2, <3>1 DEF IInv, KeptInv, IssuedInv
    <3>2. CASE i = L
      BY <1>2, <2>2, <3>2
    <3> QED
      BY <1>2, <3>1, <3>2
  <2>3. ASSUME ~broken, NEW n, n = stored'  PROVE Excused(n)'
    BY <2>1, <2>3 DEF IInv, KeptInv, IssuedInv
  <2> QED
    BY <2>2, <2>3 DEF KeptInv, Excused, Rotated
<1>10. OneSession'
  BY <1>2 DEF IInv, OneSession, LastWrite
<1>11. SpentOnlyAfterLoss'
  BY <1>3, <1>4 DEF IInv, SpentOnlyAfterLoss
<1> QED
  BY <1>5, <1>6, <1>7, <1>8, <1>9, <1>10, <1>11 DEF IInv

(* Sign-in: the pair is in the ref and queued for storage in one step.     *)
LEMMA LoginStep ==
  ASSUME ClientSessionConstants, IInv, TypeOK', NEW u \in Users, Login(u)
  PROVE  IInv'
<1>1. /\ row \in [Pairs -> {"none", "live", "spent", "gone"}] /\ MaxPair \in Nat
      /\ issued \in 0..MaxPair /\ issued < MaxPair /\ NoPair = 0
      /\ row' = [row EXCEPT ![issued + 1] = "live"]
  BY TypeFacts DEF IInv, Login, Issue, NoPair
<1>2. issued + 1 \in Pairs /\ 1..issued \subseteq Pairs
  BY <1>1 DEF Pairs
<1>3. /\ row'[issued + 1] = "live"
      /\ \A n \in 1..issued : row'[n] = row[n]
      /\ \A n \in Pairs : n > issued + 1 => row'[n] = row[n]
  BY <1>1, <1>2
<1>4. /\ issued' = issued + 1
      /\ \A n \in Pairs : (n > issued' <=> row'[n] = "none")
                      /\ (n > issued' <=> family'[n] = NoPair)
  BY <1>1, <1>3, IssueStep DEF Login
<1> DEFINE w == Write("login", issued + 1)
<1>5. w \in Storable /\ w.by = "login" /\ w.pair = issued + 1
  <2>1. issued + 1 \in 0..MaxPair /\ "login" \in Writers
    BY <1>1 DEF Writers
  <2> QED
    BY <2>1, RecordFacts
<1>6. \A n : n = w.pair => Excused(n)'
  BY <1>3, <1>5 DEF Excused
<1>7. w.pair \in 0..issued' /\ w.pair \notin 1..issued /\ issued' >= issued
  BY <1>1, <1>4, <1>5
<1>8. /\ UNCHANGED <<stored, token, boot, lost, broken, renewal, logout>> /\ boot # "reading"
      /\ writes' = Append(writes, w) /\ ref' = w.pair
  BY <1>5 DEF Login, ghosts
<1>9. logout'.at = "calling" => logout'.using \in 1..issued'
  BY <1>1, <1>4, <1>8 DEF IInv, IssuedInv
<1> HIDE DEF w
<1>10. \A x \in Storable : x = w => IInv'
  BY <1>3, <1>4, <1>5, <1>6, <1>7, <1>8, <1>9, PushStep
<1> QED
  BY <1>5, <1>10

(* clearSession: sign-out, or a session the server has ended.              *)
LEMMA ClearingStep ==
  ASSUME ClientSessionConstants, IInv, TypeOK', NEW by \in Writers, StartClearing(by),
         UNCHANGED <<issued, family, stored, token, boot, lost, broken>>, boot # "reading",
         row' \in [Pairs -> {"none", "live", "spent", "gone"}],
         \A n \in Pairs : row'[n] = row[n] \/ (row'[n] = "gone" /\ n <= issued),
         logout'.at = "calling" => logout'.using \in 1..issued',
         \/ by = "logout" /\ UNCHANGED renewal
         \/ /\ renewal.at = "answered" /\ renewal.answer = NoPair /\ by = "over"
            /\ renewal' = [renewal EXCEPT !.at = "clearing"]
  PROVE  IInv'
<1>1. /\ issued \in 0..MaxPair /\ MaxPair \in Nat /\ NoPair = 0 /\ renewal \in RenewalState
  BY TypeFacts DEF IInv, NoPair
<1>2. 1..issued \subseteq Pairs /\ 0 \in 0..issued /\ 0 \in 0..MaxPair /\ 0 \notin 1..issued
  BY <1>1 DEF Pairs
<1>3. \A n \in Pairs : (n > issued' <=> row'[n] = "none")
                   /\ (n > issued' <=> family'[n] = NoPair)
  BY <1>1 DEF IInv, IssuedInv, Pairs
<1> DEFINE w == Write(by, NoPair)
<1>4. w \in Storable /\ w.by = by /\ w.pair = NoPair
  BY <1>1, <1>2, RecordFacts
<1>5. \A n : n = NoPair => Excused(n)'
  BY DEF Excused
<1>6. writes' = Append(writes, w) /\ ref' = NoPair
  BY DEF StartClearing
<1>7. /\ \A n \in 1..issued : row'[n] = "spent" => row[n] = "spent"
      /\ \A n \in 1..issued : row[n] = "gone" => row'[n] = "gone"
      /\ issued' >= issued
  BY <1>1, <1>2
<1>8. CASE by = "logout" /\ UNCHANGED renewal
  BY <1>1, <1>2, <1>3, <1>4, <1>5, <1>6, <1>7, <1>8, PushStep
<1>9. CASE /\ renewal.at = "answered" /\ renewal.answer = NoPair /\ by = "over"
           /\ renewal' = [renewal EXCEPT !.at = "clearing"]
  <2>1. /\ renewal'.using = renewal.using /\ renewal'.answer = renewal.answer
        /\ renewal'.at = "clearing"
    BY <1>1, <1>9 DEF RenewalState
  <2> QED
    BY <1>1, <1>2, <1>3, <1>4, <1>5, <1>6, <1>7, <1>9, <2>1, PushStep
<1> QED
  BY <1>8, <1>9

(* Sign-out: the server is told first, and answers or not.                 *)
LEMMA LogoutStep ==
  ASSUME ClientSessionConstants, IInv, TypeOK', Logout \/ LogoutAnswered
  PROVE  IInv'
<1>1. /\ row \in [Pairs -> {"none", "live", "spent", "gone"}]
      /\ issued \in 0..MaxPair /\ MaxPair \in Nat /\ NoPair = 0 /\ "logout" \in Writers
  BY TypeFacts DEF IInv, NoPair, Writers
<1>2. ([NoLogout EXCEPT !.at = "clearing"]).at # "calling"
  BY DEF NoLogout
<1>3. CASE Logout /\ ref # NoPair
  <2>1. /\ UNCHANGED <<issued, row, family, stored, writes, ref, token, boot, renewal, lost, broken>>
        /\ boot # "reading" /\ logout'.using = ref
    BY <1>3 DEF Logout, server, ghosts
  <2>2. ref \in 1..issued
    BY <1>1, <1>3 DEF IInv, IssuedInv
  <2>3. IssuedInv'
    BY <2>1, <2>2 DEF IInv, IssuedInv
  <2>4. ReadingInv' /\ WritesInv' /\ RenewalInv'
    BY <2>1 DEF IInv, ReadingInv, WritesInv, OfRenewal, RenewalInv
  <2>5. KeptInv' /\ OneSession' /\ SpentOnlyAfterLoss'
    BY <2>1 DEF IInv, KeptInv, Excused, Rotated, OneSession, LastWrite, SpentOnlyAfterLoss
  <2> QED
    BY <2>3, <2>4, <2>5 DEF IInv
<1>4. CASE Logout /\ ref = NoPair
  <2>1. /\ StartClearing("logout") /\ boot # "reading"
        /\ UNCHANGED <<issued, row, family, stored, token, boot, renewal, lost, broken>>
        /\ logout' = [NoLogout EXCEPT !.at = "clearing"]
    BY <1>4 DEF Logout, server, ghosts
  <2> QED
    BY <1>1, <1>2, <2>1, ClearingStep
<1>5. CASE LogoutAnswered
  <2>1. /\ StartClearing("logout") /\ boot # "reading"
        /\ UNCHANGED <<issued, family, stored, token, boot, renewal, lost, broken>>
        /\ logout' = [NoLogout EXCEPT !.at = "clearing"]
    BY <1>5 DEF LogoutAnswered, ghosts, IInv, ReadingInv, NoLogout
  <2>2. logout.using \in 1..issued
    BY <1>5 DEF LogoutAnswered, IInv, IssuedInv
  <2>3. /\ row' \in [Pairs -> {"none", "live", "spent", "gone"}]
        /\ \A n \in Pairs : row'[n] = row[n] \/ (row'[n] = "gone" /\ n <= issued)
    BY <1>1, <1>5, <2>2 DEF LogoutAnswered, Pairs
  <2> QED
    BY <1>1, <1>2, <2>1, <2>3, ClearingStep
<1> QED
  BY <1>3, <1>4, <1>5

(* The renewer, answered: it keeps the new pair, or the session is over.   *)
LEMMA RenewalAnsweredStep ==
  ASSUME ClientSessionConstants, IInv, TypeOK', RenewalAnswered
  PROVE  IInv'
<1>1. /\ row \in [Pairs -> {"none", "live", "spent", "gone"}] /\ renewal \in RenewalState
      /\ issued \in 0..MaxPair /\ MaxPair \in Nat /\ NoPair = 0
      /\ "over" \in Writers /\ "renew" \in Writers
  BY TypeFacts DEF IInv, NoPair, Writers
<1>2. /\ UNCHANGED <<issued, row, family, stored, token, boot, lost, broken, logout>>
      /\ renewal.at = "answered"
      /\ boot # "reading"
  BY DEF RenewalAnswered, server, ghosts, IInv, ReadingInv, NoRenewal
<1>3. logout'.at = "calling" => logout'.using \in 1..issued'
  BY <1>2 DEF IInv, IssuedInv
<1>4. CASE renewal.answer = NoPair
  <2>1. StartClearing("over") /\ renewal' = [renewal EXCEPT !.at = "clearing"]
    BY <1>4 DEF RenewalAnswered
  <2> QED
    BY <1>1, <1>2, <1>3, <1>4, <2>1, ClearingStep
<1>5. CASE renewal.answer # NoPair
  <2> DEFINE w == Write("renew", renewal.answer)
  <2>1. /\ renewal.answer \in 0..MaxPair /\ renewal.answer \in 0..issued'
        /\ renewal.answer \in Pairs
    BY <1>1, <1>2, <1>5 DEF IInv, IssuedInv, RenewalState, Pairs
  <2>2. w \in Storable /\ w.by = "renew" /\ w.pair = renewal.answer
    BY <1>1, <2>1, RecordFacts
  <2>3. /\ writes' = Append(writes, w) /\ ref' = w.pair
        /\ renewal' = [renewal EXCEPT !.at = "storing"]
    BY <1>5, <2>2 DEF RenewalAnswered
  <2>4. /\ renewal'.using = renewal.using /\ renewal'.answer = renewal.answer
        /\ renewal'.at = "storing"
    BY <1>1, <2>3 DEF RenewalState
  <2>5. \A n : n = w.pair => Excused(n)'
    BY <1>2, <1>5, <2>2 DEF Excused, IInv, RenewalInv
  <2>6. /\ \A n \in Pairs : (n > issued' <=> row'[n] = "none")
                        /\ (n > issued' <=> family'[n] = NoPair)
        /\ issued' >= issued
    BY <1>1, <1>2 DEF IInv, IssuedInv
  <2> HIDE DEF w
  <2>7. \A x \in Storable : x = w => IInv'
    BY <1>2, <1>3, <1>5, <2>1, <2>2, <2>3, <2>4, <2>5, <2>6, PushStep
  <2> QED
    BY <2>2, <2>7
<1> QED
  BY <1>4, <1>5

(* A storage operation ends, and what it was for goes on.                  *)
LEMMA PopStep ==
  ASSUME ClientSessionConstants, IInv, TypeOK', UNCHANGED <<issued, row, family, ref, lost>>,
         writes # <<>>, writes' = Tail(writes), boot' # "reading",
         OfRenewal(1) => renewal' = NoRenewal, ~OfRenewal(1) => UNCHANGED renewal,
         logout' \in {logout, NoLogout},
         \/ stored' = Head(writes).pair /\ token' = Head(writes).pair /\ UNCHANGED broken
         \/ UNCHANGED stored /\ broken'
  PROVE  IInv'
<1> DEFINE w == Head(writes)
<1>1. /\ w = writes[1] /\ 1 \in DOMAIN writes
      /\ \A i \in DOMAIN writes' : i \in Nat /\ i >= 1 /\ i + 1 \in DOMAIN writes
                                  /\ writes'[i] = writes[i + 1]
      /\ writes' = <<>> => Last(writes) = w
      /\ writes' # <<>> => Last(writes') = Last(writes)
  BY Popped, TypeFacts DEF IInv
<1>2. issued \in 0..MaxPair /\ NoPair = 0
  BY TypeFacts DEF IInv, NoPair
<1>3. /\ NoRenewal.at = "idle" /\ NoRenewal.answer = NoPair /\ NoLogout.at = "idle"
      /\ boot # "reading"
  BY DEF NoRenewal, NoLogout, IInv, ReadingInv
<1> HIDE DEF w
<1>4. IssuedInv'
  <2>1. stored' \in 0..issued' /\ ref' \in 0..issued'
    BY <1>1 DEF IInv, IssuedInv, w
  <2>2. \A i \in DOMAIN writes' : writes'[i].pair \in 0..issued'
    BY <1>1 DEF IInv, IssuedInv
  <2>3. /\ renewal'.at # "idle" => renewal'.using \in 1..issued'
        /\ renewal'.answer \in 0..issued'
    BY <1>2, <1>3 DEF IInv, IssuedInv
  <2>4. logout'.at = "calling" => logout'.using \in 1..issued'
    BY <1>3 DEF IInv, IssuedInv
  <2> QED
    BY <2>1, <2>2, <2>3, <2>4 DEF IInv, IssuedInv
<1>5. ReadingInv'
  BY DEF ReadingInv
<1>6. OfRenewal(1) => \A i \in DOMAIN writes' :
        ~OfRenewal(i)' /\ writes'[i].pair # renewal.using
  BY <1>1 DEF IInv, WritesInv, OfRenewal
<1>7. WritesInv'
  <2>1. CASE OfRenewal(1)
    BY <1>1, <1>6, <2>1 DEF IInv, WritesInv, OfRenewal
  <2>2. ASSUME ~OfRenewal(1), NEW i \in DOMAIN writes'
        PROVE  /\ writes'[i].by \in {"over", "logout"} => writes'[i].pair = NoPair
               /\ writes'[i].by = "renew" =>
                    renewal'.at = "storing" /\ writes'[i].pair = renewal'.answer
               /\ writes'[i].by = "over" => renewal'.at = "clearing"
    BY <1>1, <2>2 DEF IInv, WritesInv
  <2>3. ASSUME ~OfRenewal(1), NEW i \in DOMAIN writes', NEW j \in DOMAIN writes',
               OfRenewal(i)', j > i
        PROVE  ~OfRenewal(j)' /\ writes'[j].pair # renewal'.using
    <3>1. /\ i + 1 \in DOMAIN writes /\ j + 1 \in DOMAIN writes /\ j + 1 > i + 1
          /\ writes'[i] = writes[i + 1] /\ writes'[j] = writes[j + 1]
      BY <1>1, <2>3
    <3> QED
      BY <2>3, <3>1 DEF IInv, WritesInv, OfRenewal
  <2> QED
    BY <2>1, <2>2, <2>3 DEF WritesInv
<1>8. RenewalInv'
  BY <1>3 DEF IInv, RenewalInv
<1>9. KeptInv'
  <2>1. ASSUME NEW n, Excused(n), OfRenewal(1) => ~Rotated(n)  PROVE Excused(n)'
    BY <2>1 DEF Excused, Rotated
  <2>2. OfRenewal(1) => ~Rotated(w.pair)
    BY <1>1 DEF IInv, WritesInv, RenewalInv, OfRenewal, Rotated
  <2>3. OfRenewal(1) => \A i \in DOMAIN writes' : ~Rotated(writes'[i].pair)
    BY <1>6 DEF Rotated
  <2>4. ASSUME ~broken', NEW n, NEW i \in DOMAIN writes', n = writes'[i].pair
        PROVE  Excused(n)'
    <3>1. Excused(n)
      BY <1>1, <2>4 DEF IInv, KeptInv
    <3> QED
      BY <2>1, <2>3, <2>4, <3>1
  <2>5. ASSUME ~broken', NEW n, n = stored'  PROVE Excused(n)'
    <3>1. Excused(n) /\ n = w.pair
      BY <1>1, <2>5 DEF IInv, KeptInv, w
    <3> QED
      BY <2>1, <2>2, <3>1
  <2> QED
    BY <2>4, <2>5 DEF KeptInv, Excused, Rotated
<1>10. OneSession'
  <2>1. ~broken' => token' = stored' /\ LastWrite' = LastWrite /\ ref = LastWrite
    BY <1>1, <1>3 DEF IInv, OneSession, LastWrite, w
  <2> QED
    BY <2>1 DEF OneSession
<1>11. SpentOnlyAfterLoss'
  BY <1>1, <1>3 DEF IInv, SpentOnlyAfterLoss
<1> QED
  BY <1>4, <1>5, <1>7, <1>8, <1>9, <1>10, <1>11 DEF IInv

(* A storage operation done or failed, and what it resumes.                *)
LEMMA StorageStep ==
  ASSUME ClientSessionConstants, IInv, TypeOK', Storage
  PROVE  IInv'
<1>1. /\ writes # <<>> /\ writes' = Tail(writes)
      /\ UNCHANGED <<issued, row, family, ref, lost>>
  BY DEF Storage, WriteDone, WriteFails, server, ghosts
<1> DEFINE w == Head(writes)
<1>2. /\ w = writes[1] /\ w.by \in Writers
      /\ w.by \in {"over", "logout"} => w.pair = NoPair
      /\ boot # "reading"
  <2>1. w = writes[1] /\ w \in Storable /\ 1 \in DOMAIN writes
    BY <1>1, Popped, TypeFacts DEF IInv
  <2> QED
    BY <1>1, <2>1 DEF IInv, WritesInv, ReadingInv, Storable
<1>3. OfRenewal(1) <=> w.by \in {"renew", "over"}
  BY <1>2 DEF OfRenewal
<1> HIDE DEF w
<1>4. ASSUME After(w)
      PROVE  /\ token' = w.pair /\ boot' # "reading" /\ logout' \in {logout, NoLogout}
             /\ OfRenewal(1) => renewal' = NoRenewal
             /\ ~OfRenewal(1) => UNCHANGED renewal
  BY <1>2, <1>3, <1>4
     DEF After, AfterLogin, AfterRenewal, AfterOver, AfterLogout, BootAfter
<1>5. CASE WriteDone
  <2>1. After(w) /\ stored' = w.pair /\ UNCHANGED broken
    BY <1>5 DEF WriteDone, w, ghosts
  <2> QED
    BY <1>1, <1>4, <2>1, PopStep DEF w
<1>6. CASE WriteFails
  <2>1. broken' /\ UNCHANGED stored
    BY <1>6 DEF WriteFails
  <2>2. CASE w.by = "login"
    <3>1. UNCHANGED <<boot, renewal, logout>> /\ ~OfRenewal(1)
      BY <1>3, <1>6, <2>2 DEF WriteFails, w
    <3> QED
      BY <1>1, <1>2, <2>1, <3>1, PopStep
  <2>3. CASE w.by # "login"
    <3>1. After(w)
      BY <1>6, <2>3 DEF WriteFails, w
    <3> QED
      BY <1>1, <1>4, <2>1, <3>1, PopStep
  <2> QED
    BY <2>2, <2>3
<1> QED
  BY <1>5, <1>6 DEF Storage

(* The server rotates the refresh token it is shown, or refuses it.        *)
LEMMA RefreshStep ==
  ASSUME ClientSessionConstants, IInv, TypeOK', Refresh
  PROVE  IInv'
<1> DEFINE t == renewal.using
<1>1. /\ row \in [Pairs -> {"none", "live", "spent", "gone"}] /\ renewal \in RenewalState
      /\ family \in [Pairs -> 0..MaxPair]
      /\ issued \in 0..MaxPair /\ MaxPair \in Nat /\ NoPair = 0
  BY TypeFacts DEF IInv, NoPair
<1>2. /\ renewal.at = "sent" /\ renewal.answer = NoPair
      /\ UNCHANGED <<stored, writes, ref, token, boot, logout, lost, broken>>
  BY DEF Refresh, ghosts, IInv, RenewalInv
<1>3. t \in 1..issued /\ t \in Pairs /\ 1..issued \subseteq Pairs /\ boot # "reading"
  BY <1>1, <1>2 DEF IInv, IssuedInv, Pairs, ReadingInv, NoRenewal
<1>4. \A i \in DOMAIN writes : ~OfRenewal(i)
  BY <1>2 DEF IInv, WritesInv, OfRenewal
<1>5. \A n : ~Rotated(n)
  BY <1>2 DEF Rotated
<1>6. ReadingInv'
  BY <1>2, <1>3 DEF ReadingInv
<1>7. WritesInv'
  BY <1>2, <1>4 DEF IInv, WritesInv, OfRenewal
<1>8. OneSession'
  BY <1>2 DEF IInv, OneSession, LastWrite
<1>9. CASE /\ row[t] = "live" /\ Issue(family[t], owner[t])
           /\ row' = [row EXCEPT ![t] = "spent", ![issued + 1] = "live"]
           /\ renewal' = [renewal EXCEPT !.at = "answered", !.answer = issued + 1]
  <2>1. /\ renewal'.at = "answered" /\ renewal'.using = t /\ renewal'.answer = issued + 1
    BY <1>1, <1>9 DEF RenewalState
  <2>2. issued + 1 \in Pairs /\ issued + 1 # t /\ issued < MaxPair
    BY <1>1, <1>3, <1>9 DEF Issue, Pairs
  <2>3. /\ row'[issued + 1] = "live" /\ row'[t] = "spent"
        /\ \A n \in Pairs : n # t /\ n # issued + 1 => row'[n] = row[n]
    BY <1>1, <1>3, <1>9, <2>2
  <2>4. /\ \A n \in 1..issued : row'[n] = "none" <=> row[n] = "none"
        /\ \A n \in Pairs : n > issued + 1 => row'[n] = row[n]
    BY <1>1, <1>3, <1>9, <2>3
  <2>5. /\ issued' = issued + 1
        /\ \A n \in Pairs : (n > issued' <=> row'[n] = "none")
                        /\ (n > issued' <=> family'[n] = NoPair)
    <3>1. family[t] \in 0..MaxPair
      BY <1>1, <1>3
    <3> QED
      BY <1>9, <2>3, <2>4, <3>1, IssueStep
  <2>6. IssuedInv'
    <3>1. /\ stored' \in 0..issued' /\ ref' \in 0..issued'
          /\ \A i \in DOMAIN writes' : writes'[i].pair \in 0..issued'
      BY <1>1, <1>2, <2>5 DEF IInv, IssuedInv
    <3>2. renewal'.using \in 1..issued' /\ renewal'.answer \in 0..issued'
      BY <1>1, <1>3, <2>1, <2>5
    <3>3. logout'.at = "calling" => logout'.using \in 1..issued'
      BY <1>1, <1>2, <2>5 DEF IInv, IssuedInv
    <3> QED
      BY <2>5, <3>1, <3>2, <3>3 DEF IssuedInv
  <2>7. RenewalInv'
    BY <1>1, <2>1, <2>2, <2>3 DEF RenewalInv
  <2>8. ASSUME NEW n \in 0..issued, Excused(n)  PROVE Excused(n)'
    <3>1. n # NoPair => n \in Pairs /\ n # issued + 1
      BY <1>1, <1>3
    <3>2. CASE n = t
      BY <1>1, <2>1, <2>2, <3>2 DEF Excused, Rotated
    <3>3. CASE n # t
      BY <1>2, <1>5, <2>3, <2>8, <3>1, <3>3 DEF Excused
    <3> QED
      BY <3>2, <3>3
  <2>9. KeptInv'
    <3>1. ASSUME ~broken  PROVE /\ Excused(stored)
                                /\ \A i \in DOMAIN writes : Excused(writes[i].pair)
      BY <3>1 DEF IInv, KeptInv
    <3>2. ASSUME ~broken, NEW n, n = stored \/ \E i \in DOMAIN writes : n = writes[i].pair
          PROVE  Excused(n)'
      BY <2>8, <3>1, <3>2 DEF IInv, IssuedInv
    <3> QED
      BY <1>2, <3>2 DEF KeptInv, Excused, Rotated
  <2>10. SpentOnlyAfterLoss'
    BY <2>1 DEF SpentOnlyAfterLoss
  <2> QED
    BY <1>6, <1>7, <1>8, <2>6, <2>7, <2>9, <2>10 DEF IInv
<1>10. CASE /\ row[t] # "live"
            /\ row' = [n \in Pairs |-> IF row[t] = "spent" /\ family[n] = family[t]
                                          THEN "gone" ELSE row[n]]
            /\ renewal' = [renewal EXCEPT !.at = "answered"]
            /\ UNCHANGED <<issued, family, owner>>
  <2>1. /\ renewal'.at = "answered" /\ renewal'.using = t /\ renewal'.answer = NoPair
    BY <1>1, <1>2, <1>10 DEF RenewalState
  <2>2. family[t] # NoPair /\ row[t] # "none"
    BY <1>1, <1>3 DEF IInv, IssuedInv
  <2>3. \A n \in Pairs : row'[n] = row[n] \/ (row'[n] = "gone" /\ n <= issued)
    BY <1>1, <1>10, <2>2 DEF IInv, IssuedInv, Pairs
  <2>4. row'[t] = "gone"
    BY <1>1, <1>3, <1>10, <2>2
  <2>5. IssuedInv'
    <3>1. \A n \in Pairs : (n > issued' <=> row'[n] = "none")
                       /\ (n > issued' <=> family'[n] = NoPair)
      BY <1>1, <1>10, <2>3 DEF IInv, IssuedInv, Pairs
    <3>2. renewal'.using \in 1..issued' /\ renewal'.answer \in 0..issued'
      BY <1>1, <1>3, <1>10, <2>1
    <3> QED
      BY <1>2, <1>10, <3>1, <3>2 DEF IInv, IssuedInv
  <2>6. RenewalInv'
    BY <1>1, <2>1, <2>4 DEF RenewalInv
  <2>7. ASSUME NEW n \in 0..issued, Excused(n)  PROVE Excused(n)'
    <3>1. n # NoPair => n \in Pairs
      BY <1>1, <1>3
    <3> QED
      BY <1>2, <1>5, <2>3, <2>7, <3>1 DEF Excused
  <2>8. KeptInv'
    <3>1. ASSUME ~broken  PROVE /\ Excused(stored)
                                /\ \A i \in DOMAIN writes : Excused(writes[i].pair)
      BY <3>1 DEF IInv, KeptInv
    <3>2. ASSUME ~broken, NEW n, n = stored \/ \E i \in DOMAIN writes : n = writes[i].pair
          PROVE  Excused(n)'
      BY <2>7, <3>1, <3>2 DEF IInv, IssuedInv
    <3> QED
      BY <1>2, <3>2 DEF KeptInv, Excused, Rotated
  <2>9. SpentOnlyAfterLoss'
    BY <2>1 DEF SpentOnlyAfterLoss
  <2> QED
    BY <1>6, <1>7, <1>8, <2>5, <2>6, <2>8, <2>9 DEF IInv
<1> QED
  BY <1>9, <1>10 DEF Refresh

(* The refresh call fails, on its way or on the way back.                  *)
LEMMA RenewalFailsStep ==
  ASSUME ClientSessionConstants, IInv, TypeOK', RenewalFails
  PROVE  IInv'
<1>1. /\ UNCHANGED <<issued, row, family, stored, writes, ref, token, logout, broken>>
      /\ renewal' = NoRenewal /\ renewal.at \in {"sent", "answered"}
      /\ lost \subseteq lost'
      /\ renewal.answer # NoPair => renewal.using \in lost'
      /\ boot # "reading" /\ boot' # "reading"
  BY DEF RenewalFails, EndFailed, BootAfter, server, IInv, ReadingInv, NoRenewal
<1>2. NoRenewal.at = "idle" /\ NoRenewal.answer = NoPair
  BY DEF NoRenewal
<1>3. issued \in Nat /\ NoPair = 0
  BY TypeFacts DEF IInv, NoPair
<1>4. \A i \in DOMAIN writes : ~OfRenewal(i)
  BY <1>1 DEF IInv, WritesInv, OfRenewal
<1>5. IssuedInv'
  <2>1. renewal'.at = "idle" /\ renewal'.answer \in 0..issued'
    BY <1>1, <1>2, <1>3
  <2> QED
    BY <1>1, <2>1 DEF IInv, IssuedInv
<1>6. ReadingInv' /\ WritesInv' /\ RenewalInv'
  BY <1>1, <1>2, <1>4 DEF IInv, ReadingInv, WritesInv, OfRenewal, RenewalInv
<1>7. \A n : Excused(n) => Excused(n)'
  BY <1>1 DEF Excused, Rotated
<1>8. KeptInv'
  <2>1. ASSUME ~broken  PROVE /\ Excused(stored)
                              /\ \A i \in DOMAIN writes : Excused(writes[i].pair)
    BY <2>1 DEF IInv, KeptInv
  <2>2. ASSUME ~broken, NEW n, n = stored \/ \E i \in DOMAIN writes : n = writes[i].pair
        PROVE  Excused(n)'
    BY <1>7, <2>1, <2>2
  <2> QED
    BY <1>1, <2>2 DEF KeptInv, Excused, Rotated
<1>9. OneSession' /\ SpentOnlyAfterLoss'
  BY <1>1, <1>2 DEF IInv, OneSession, LastWrite, SpentOnlyAfterLoss
<1> QED
  BY <1>5, <1>6, <1>8, <1>9 DEF IInv

(* The app starts again: it reads what is stored, or cannot.               *)
LEMMA BootStep ==
  ASSUME ClientSessionConstants, IInv, TypeOK', Boot
  PROVE  IInv'
<1>1. /\ UNCHANGED <<issued, row, family, stored, writes, renewal, logout, lost>>
      /\ boot = "reading" /\ boot' # "reading"
      /\ ref' \in {stored, ref}
      /\ broken => broken'
  <2>1. CASE ReadStored
    BY <2>1 DEF ReadStored, server, ghosts
  <2>2. CASE ReadFails
    BY <2>2 DEF ReadFails, server
  <2> QED
    BY <2>1, <2>2 DEF Boot
<1>2. /\ writes = <<>> /\ renewal = NoRenewal /\ NoRenewal.at = "idle" /\ DOMAIN writes = {}
  BY <1>1 DEF IInv, ReadingInv, NoRenewal
<1>3. IssuedInv'
  BY <1>1 DEF IInv, IssuedInv
<1>4. ReadingInv' /\ WritesInv' /\ RenewalInv'
  BY <1>1 DEF IInv, ReadingInv, WritesInv, OfRenewal, RenewalInv
<1>5. KeptInv' /\ SpentOnlyAfterLoss'
  BY <1>1, <1>2 DEF IInv, KeptInv, Excused, Rotated, SpentOnlyAfterLoss
<1>6. OneSession'
  BY <1>2 DEF Boot, ReadStored, ReadFails, OneSession, LastWrite
<1> QED
  BY <1>3, <1>4, <1>5, <1>6 DEF IInv

(* The app is killed: an answer that was not stored is lost.               *)
LEMMA KillStep ==
  ASSUME ClientSessionConstants, IInv, TypeOK', Kill
  PROVE  IInv'
<1>1. /\ UNCHANGED <<issued, row, family, stored, broken>>
      /\ writes' = <<>> /\ ref' = NoPair /\ boot' = "reading"
      /\ renewal' = NoRenewal /\ logout' = NoLogout /\ call' = [c \in Calls |-> NoCall]
      /\ lost \subseteq lost'
      /\ \A n : Rotated(n) => n \in lost'
  BY DEF Kill, server, Rotated
<1>2. /\ NoRenewal.at = "idle" /\ NoRenewal.answer = NoPair /\ NoLogout.at = "idle"
      /\ NoCall.at = "idle" /\ DOMAIN writes' = {}
  BY <1>1 DEF NoRenewal, NoLogout, NoCall
<1>3. NoPair \in 0..issued
  BY TypeFacts DEF IInv, NoPair
<1>4. IssuedInv'
  BY <1>1, <1>2, <1>3 DEF IInv, IssuedInv
<1>5. ReadingInv' /\ WritesInv' /\ RenewalInv'
  BY <1>1, <1>2 DEF ReadingInv, WritesInv, RenewalInv
<1>6. \A n : Excused(n) => Excused(n)'
  BY <1>1 DEF Excused
<1>7. KeptInv'
  <2>1. ASSUME ~broken, NEW n, n = stored  PROVE Excused(n)'
    BY <1>6, <2>1 DEF IInv, KeptInv
  <2> QED
    BY <1>1, <1>2, <2>1 DEF KeptInv, Excused, Rotated
<1>8. OneSession' /\ SpentOnlyAfterLoss'
  BY <1>1, <1>2 DEF OneSession, SpentOnlyAfterLoss
<1> QED
  BY <1>4, <1>5, <1>7, <1>8 DEF IInv

(* ------------------------------ the theorems ----------------------------*)

(* The invariant holds when the app is first opened.                       *)
LEMMA InitIInv == ASSUME ClientSessionConstants, Init  PROVE IInv
<1>1. DOMAIN writes = {} /\ writes = <<>> /\ boot = "reading" /\ issued = 0 /\ NoPair = 0
  BY DEF Init, NoPair
<1>2. TypeOK
  <2>1. Typed
    <3>1. renewal \in RenewalState /\ logout \in LogoutState
      BY DEF Init, NoRenewal, NoLogout, RenewalState, LogoutState, NoPair, ClientSessionConstants
    <3>2. call \in [Calls -> CallState]
      BY DEF Init, NoCall, CallState, NoPair, ClientSessionConstants
    <3>3. /\ row \in [Pairs -> {"none", "live", "spent", "gone"}]
          /\ family \in [Pairs -> 0..MaxPair] /\ owner \in [Pairs -> Users \cup {Nobody}]
      BY DEF Init, NoPair, ClientSessionConstants
    <3>4. writes \in Seq(Storable)
      BY <1>1
    <3>5. /\ issued \in 0..MaxPair /\ stale \in 0..MaxPair /\ faults \in 0..MaxFaults
          /\ stored \in 0..MaxPair /\ ref \in 0..MaxPair /\ token \in 0..MaxPair
      BY DEF Init, NoPair, ClientSessionConstants
    <3> QED
      BY <3>1, <3>2, <3>3, <3>4, <3>5 DEF Init, Typed
  <2> QED
    BY <2>1, TypedIsTypeOK
<1>3. IssuedInv
  BY <1>1 DEF Init, IssuedInv, Pairs, NoRenewal, NoLogout, ClientSessionConstants
<1>4. ReadingInv /\ WritesInv /\ RenewalInv
  BY <1>1 DEF Init, ReadingInv, WritesInv, RenewalInv, NoRenewal, NoCall
<1>5. KeptInv /\ OneSession /\ SpentOnlyAfterLoss
  BY <1>1 DEF Init, KeptInv, Excused, OneSession, SpentOnlyAfterLoss, NoRenewal
<1> QED
  BY <1>2, <1>3, <1>4, <1>5 DEF IInv

(* Every step keeps the invariant.                                         *)
LEMMA NextIInv == ASSUME ClientSessionConstants, IInv, [Next]_vars  PROVE IInv'
<1>1. CASE UNCHANGED vars
  <2>1. TypeOK'
    BY <1>1, TypedIsTypeOK DEF IInv, Typed, vars, server, ghosts
  <2> QED
    BY <1>1, <2>1, QuietStep DEF IInv, ReadingInv, vars, server, ghosts
<1>2. CASE Next
  <2>1. TypeOK'
    BY <1>2, StepTypeOK DEF IInv
  <2>2. CASE \/ \E c \in Calls : Call(c)
             \/ \E c \in Screens : StartCall(c)
    BY <2>1, <2>2, CallStep DEF Call
  <2>3. CASE Expire \/ \E n \in Pairs : Revoke(n)
    BY <2>1, <2>3, ElsewhereStep
  <2>4. CASE \E u \in Users : Login(u)
    BY <2>1, <2>4, LoginStep
  <2>5. CASE Logout \/ LogoutAnswered
    BY <2>1, <2>5, LogoutStep
  <2>6. CASE Renewal
    BY <2>1, <2>6, RefreshStep, RenewalAnsweredStep, RenewalFailsStep DEF Renewal
  <2>7. CASE Storage
    BY <2>1, <2>7, StorageStep
  <2>8. CASE Boot
    BY <2>1, <2>8, BootStep
  <2>9. CASE Kill
    BY <2>1, <2>9, KillStep
  <2> QED
    BY <1>2, <2>2, <2>3, <2>4, <2>5, <2>6, <2>7, <2>8, <2>9 DEF Next
<1> QED
  BY <1>1, <1>2

(* The inductive invariant of the device's session: every conjunct of IInv *)
(* holds whatever screens, renewals, storage operations and lost answers   *)
(* overlap (AuthContext.tsx, api.ts).                                      *)
THEOREM Invariance == Spec => []IInv
<1>1. Init => IInv
  BY InitIInv, ClientSessionConstants
<1>2. IInv /\ [Next]_vars => IInv'
  BY NextIInv, ClientSessionConstants
<1> QED
  BY <1>1, <1>2, PTL DEF Spec

(* Memory, storage and screens hold one session, however many screens call *)
(* and however sign-in, sign-out, renewal and kills overlap (login,        *)
(* clearSession and the renewer in AuthContext.tsx).                       *)
THEOREM SessionIsOne == Spec => []OneSession
<1>1. IInv => OneSession
  BY DEF IInv
<1> QED
  BY <1>1, Invariance, PTL

(* The renewer presents no token twice unless an answer was lost, and ends *)
(* only a session the server has ended (renewOnce, the renewer).           *)
THEOREM RenewerIsSafe == Spec => []RenewerSafe
<1>1. IInv => RenewerSafe
  <2> SUFFICES ASSUME IInv  PROVE SignsOutOnlyDeadSession
    BY DEF IInv, RenewerSafe
  <2> QED
    BY DEF IInv, RenewalInv, SignsOutOnlyDeadSession
<1> QED
  BY <1>1, Invariance, PTL

(***************************************************************************)
(* The inbox.                                                              *)
(***************************************************************************)

(* A list of the newest alerts is no longer than MAX_ITEMS: an alert is    *)
(* told from the others by the number of those newer than it.              *)
LEMMA NewestBound ==
  ASSUME InboxConstants, NEW alerts \in SUBSET Alerts
  PROVE  IsFiniteSet(NewestOf(alerts)) /\ Cardinality(NewestOf(alerts)) <= MAX_ITEMS
<1> DEFINE Newer(a) == {b \in alerts : b > a}
           S == NewestOf(alerts)
           T == 0..(MAX_ITEMS - 1)
           f == [a \in S |-> Cardinality(Newer(a))]
<1> USE DEF InboxConstants
<1>1. IsFiniteSet(alerts)
  <2>1. IsFiniteSet(Alerts)
    BY FS_Interval DEF Alerts
  <2> QED
    BY <2>1, FS_Subset
<1>2. \A a \in alerts : IsFiniteSet(Newer(a)) /\ Cardinality(Newer(a)) \in Nat
  <2> SUFFICES ASSUME NEW a \in alerts PROVE IsFiniteSet(Newer(a)) /\ Cardinality(Newer(a)) \in Nat
    OBVIOUS
  <2>1. Newer(a) \in SUBSET alerts
    OBVIOUS
  <2>2. IsFiniteSet(Newer(a))
    BY <1>1, <2>1, FS_Subset
  <2> QED
    BY <2>2, FS_CardinalityType
<1>3. \A a, b \in alerts : a < b => Cardinality(Newer(b)) < Cardinality(Newer(a))
  <2> SUFFICES ASSUME NEW a \in alerts, NEW b \in alerts, a < b
               PROVE  Cardinality(Newer(b)) < Cardinality(Newer(a))
    OBVIOUS
  <2>1. a \in Int /\ b \in Int /\ alerts \subseteq Int
    BY DEF Alerts
  <2>2. \A x \in Newer(b) : x \in Newer(a)
    <3> SUFFICES ASSUME NEW x \in Newer(b) PROVE x \in Newer(a)
      OBVIOUS
    <3>1. x \in alerts /\ x > b
      OBVIOUS
    <3>2. x > a
      BY <2>1, <3>1
    <3> QED
      BY <3>1, <3>2
  <2>3. b \in Newer(a) /\ b \notin Newer(b)
    BY <2>1
  <2> HIDE DEF Newer
  <2>4. /\ Cardinality(Newer(b)) <= Cardinality(Newer(a))
        /\ Cardinality(Newer(a)) = Cardinality(Newer(b)) => Newer(a) = Newer(b)
    BY <1>2, <2>2, FS_Subset
  <2>5. Cardinality(Newer(b)) # Cardinality(Newer(a))
    BY <2>4, <2>3
  <2> QED
    BY <1>2, <2>4, <2>5
<1>4. S \subseteq alerts /\ \A a \in S : Cardinality(Newer(a)) < MAX_ITEMS
  BY DEF NewestOf
<1> HIDE DEF Newer, S
<1>5. f \in [S -> T]
  <2>1. \A a \in S : Cardinality(Newer(a)) \in T
    BY <1>2, <1>4
  <2> QED
    BY <2>1
<1>6. \A a, b \in S : f[a] = f[b] => a = b
  <2> SUFFICES ASSUME NEW a \in S, NEW b \in S, f[a] = f[b] PROVE a = b
    OBVIOUS
  <2>1. a \in Int /\ b \in Int
    BY <1>4 DEF Alerts
  <2>2. Cardinality(Newer(a)) = Cardinality(Newer(b))
    OBVIOUS
  <2>3. ~(a < b) /\ ~(b < a)
    BY <1>2, <1>3, <1>4, <2>2
  <2> QED
    BY <2>1, <2>3
<1>7. f \in Injection(S, T)
  BY <1>5, <1>6 DEF Injection, IsInjective
<1>8. IsFiniteSet(T) /\ Cardinality(T) = MAX_ITEMS
  BY FS_Interval
<1> HIDE DEF S, T, f
<1>9. IsFiniteSet(S) /\ Cardinality(S) <= Cardinality(T)
  BY <1>7, <1>8, FS_Injection
<1> QED
  BY <1>8, <1>9 DEF S

(* An image of a finite set is no larger.                                  *)
LEMMA ImageBound ==
  ASSUME NEW S, IsFiniteSet(S), NEW T, NEW f \in [S -> T], \A t \in T : \E x \in S : f[x] = t,
         NEW n \in Nat, Cardinality(S) <= n
  PROVE  IsFiniteSet(T) /\ Cardinality(T) <= n
<1>1. f \in Surjection(S, T)
  BY DEF Surjection
<1>2. IsFiniteSet(T) /\ Cardinality(T) <= Cardinality(S)
  BY <1>1, FS_Surjection
<1> QED
  BY <1>2, FS_CardinalityType

(* What the handlers store is a list of items.                             *)
LEMMA SyncedIsList ==
  ASSUME InboxConstants, NEW h \in Handlers, run[h].feed \in Windows, NEW n \in 1..MaxSyncs
  PROVE  /\ Synced(h, n) \in SUBSET Items /\ IsList(Synced(h, n))
         /\ AlertsOf(Synced(h, n)) = NewestOf(In(run[h].feed) \ run[h].dismissed)
<1> DEFINE alerts == In(run[h].feed) \ run[h].dismissed
           S == NewestOf(alerts)
           Read(a) == a \in {i.alert : i \in {j \in run[h].items : j.read}}
           f == [a \in S |-> [alert |-> a, list |-> n, read |-> Read(a)]]
           T == Synced(h, n)
<1>1. alerts \in SUBSET Alerts
  <2>1. run[h].feed.lo \in 1..(MaxAlert + 1) /\ run[h].feed.hi \in 0..MaxAlert
    BY DEF Windows
  <2>2. In(run[h].feed) \subseteq Alerts
    BY <2>1 DEF In, Alerts, InboxConstants
  <2> QED
    BY <2>2
<1>2. T = {[alert |-> a, list |-> n, read |-> Read(a)] : a \in S}
  BY DEF Synced
<1> HIDE DEF alerts, T
<1>3. S \subseteq Alerts
  BY <1>1 DEF NewestOf
<1>4. \A a \in S : Read(a) \in BOOLEAN
  OBVIOUS
<1> HIDE DEF Read
<1>5. T \subseteq Items
  BY <1>2, <1>3, <1>4 DEF Items
<1>6. \A i, j \in T : i.list = j.list /\ (i.alert = j.alert => i = j)
  BY <1>2
<1>7. AlertsOf(T) = S
  <2>1. \A i \in T : i.alert \in S
    BY <1>2
  <2> HIDE DEF S
  <2>2. \A a \in S : \E i \in T : i.alert = a
    <3> SUFFICES ASSUME NEW a \in S PROVE \E i \in T : i.alert = a
      OBVIOUS
    <3>1. [alert |-> a, list |-> n, read |-> Read(a)] \in T
      BY <1>2
    <3> QED
      BY <3>1
  <2> QED
    BY <2>1, <2>2 DEF AlertsOf
<1>8. IsFiniteSet(S) /\ Cardinality(S) <= MAX_ITEMS
  BY <1>1, NewestBound
<1>9. f \in [S -> T] /\ \A t \in T : \E x \in S : f[x] = t
  BY <1>2
<1> HIDE DEF S, f
<1>10. IsFiniteSet(T) /\ Cardinality(T) <= MAX_ITEMS
  BY <1>8, <1>9, ImageBound DEF InboxConstants
<1> QED
  BY <1>5, <1>6, <1>7, <1>10 DEF T, S, alerts, IsList

(* Marking alerts read leaves a list of the same alerts.                   *)
LEMMA MarkedIsList ==
  ASSUME InboxConstants, NEW items \in SUBSET Items, IsList(items), NEW item
  PROVE  /\ Marked(items, item) \in SUBSET Items /\ IsList(Marked(items, item))
         /\ AlertsOf(Marked(items, item)) = AlertsOf(items)
<1> DEFINE M(i) == IF item = NoItem \/ SameId(i, item) THEN [i EXCEPT !.read = TRUE] ELSE i
           T == Marked(items, item)
           f == [i \in items |-> M(i)]
<1>1. T = {M(i) : i \in items}
  BY DEF Marked
<1>2. \A i \in items : /\ M(i) \in Items
                       /\ M(i).alert = i.alert /\ M(i).list = i.list
  BY DEF Items
<1> HIDE DEF M, T
<1>3. T \subseteq Items
  BY <1>1, <1>2
<1>4. \A i, j \in T : i.list = j.list /\ (i.alert = j.alert => i = j)
  BY <1>1, <1>2 DEF IsList
<1>5. AlertsOf(T) = AlertsOf(items)
  BY <1>1, <1>2 DEF AlertsOf
<1>6. f \in [items -> T] /\ \A t \in T : \E x \in items : f[x] = t
  BY <1>1
<1> HIDE DEF f
<1>7. IsFiniteSet(T) /\ Cardinality(T) <= MAX_ITEMS
  BY <1>6, ImageBound DEF IsList, InboxConstants
<1> QED
  BY <1>3, <1>4, <1>5, <1>7 DEF T, IsList

(* Removing an alert leaves a list.                                        *)
LEMMA WithoutIsList ==
  ASSUME InboxConstants, NEW items \in SUBSET Items, IsList(items), NEW item
  PROVE  Without(items, item) \in SUBSET items /\ IsList(Without(items, item))
<1> DEFINE T == Without(items, item)
<1>1. T \in SUBSET items
  BY DEF Without
<1> HIDE DEF T
<1>2. IsFiniteSet(T) /\ Cardinality(T) <= Cardinality(items)
  BY <1>1, FS_Subset DEF IsList
<1>3. Cardinality(T) <= MAX_ITEMS
  BY <1>1, <1>2, FS_CardinalityType DEF IsList, InboxConstants
<1> QED
  BY <1>1, <1>2, <1>3 DEF T, IsList

(* The handler's record, field by field.                                   *)
LEMMA RunTypes ==
  /\ Idle \in Runs /\ Idle.pc = "idle"
  /\ \A r \in Runs, pc \in PCs : [r EXCEPT !.pc = pc] \in Runs
  /\ \A r \in Runs, pc \in PCs : \A items \in SUBSET Items :
       [r EXCEPT !.pc = pc, !.items = items] \in Runs
  /\ \A r \in Runs, pc \in PCs : \A d \in SUBSET Alerts :
       [r EXCEPT !.pc = pc, !.dismissed = d] \in Runs
  /\ \A r \in Runs, pc \in PCs, answer \in Windows :
       [r EXCEPT !.pc = pc, !.feed = answer] \in Runs
  /\ \A item \in Items \cup {NoItem}, pc \in PCs : \A items \in SUBSET Items :
       [Idle EXCEPT !.pc = pc, !.item = item, !.items = items] \in Runs
<1>1. NoItem \in Items \cup {NoItem} /\ NoCopy \in Windows \cup {NoCopy}
  OBVIOUS
<1>2. Idle \in Runs /\ Idle.pc = "idle"
  BY <1>1 DEF Idle, Runs, PCs
<1>3. \A r \in Runs, pc \in PCs : [r EXCEPT !.pc = pc] \in Runs
  BY DEF Runs
<1>4. \A r \in Runs, pc \in PCs : \A items \in SUBSET Items :
        [r EXCEPT !.pc = pc, !.items = items] \in Runs
  BY DEF Runs
<1>5. \A r \in Runs, pc \in PCs : \A d \in SUBSET Alerts :
        [r EXCEPT !.pc = pc, !.dismissed = d] \in Runs
  BY DEF Runs
<1>6. \A r \in Runs, pc \in PCs, answer \in Windows :
        [r EXCEPT !.pc = pc, !.feed = answer] \in Runs
  BY DEF Runs
<1>7. \A item \in Items \cup {NoItem}, pc \in PCs : \A items \in SUBSET Items :
        [Idle EXCEPT !.pc = pc, !.item = item, !.items = items] \in Runs
  BY <1>2 DEF Runs
<1> QED
  BY <1>2, <1>3, <1>4, <1>5, <1>6, <1>7

(* An empty inbox, nothing dismissed and no handler under way.             *)
LEMMA InboxStart ==
  ASSUME InboxConstants, InboxInit
  PROVE  InboxInv
<1> USE DEF InboxInit, InboxConstants
<1>1. IsList({}) /\ Cardinality({}) = 0
  BY FS_EmptySet DEF IsList
<1>2. feed \in Windows
  BY DEF Windows
<1>3. \A h \in Handlers : run[h] = Idle
  OBVIOUS
<1>4. InboxTypeOK
  <2>1. \A h \in Handlers : run[h].items = {} /\ run[h].dismissed = {}
    BY <1>3 DEF Idle
  <2>2. newest \in Windows /\ Cardinality(inbox) <= MAX_ITEMS
    BY <1>1, <1>2
  <2>3. /\ inbox = {} /\ screen = {} /\ dismissed = {} /\ deleted = {} /\ read = {} /\ alone = {}
        /\ syncs = 0 /\ overlapped = FALSE /\ backward = FALSE
    OBVIOUS
  <2> HIDE DEF InboxInit
  <2>4. /\ {feed, newest} \subseteq Windows
        /\ inbox \subseteq Items
    BY <1>2, <2>2, <2>3
  <2>5. screen \subseteq Items /\ dismissed \subseteq Alerts /\ deleted \subseteq Alerts /\ read \subseteq Alerts
    BY <2>3
  <2>6. syncs \in 0..MaxSyncs
    BY <2>3
  <2>7. /\ alone \subseteq Handlers /\ overlapped \in BOOLEAN /\ backward \in BOOLEAN
    BY <2>3
  <2> QED
    BY <2>1, <2>2, <2>4, <2>5, <2>6, <2>7 DEF InboxTypeOK
<1>5. HandlerInv
  BY <1>1, <1>3, RunTypes DEF HandlerInv, Idle, Deleting, Fetched
<1>6. ReadInv /\ ReadStaysRead
  BY <1>3 DEF ReadInv, ReadBy, ReadsMarked, ReadStaysRead, KeepsReads, Idle, Syncing, Fetched, Deleting
<1>7. DeletedInv /\ DeletedStaysDeleted
  BY <1>3 DEF DeletedInv, AnsweredInv, AnsweredFor, DeletedStaysDeleted, Idle, Fetched,
              Deleting, HasFound, AlertsOf, At
<1>8. ScreenInv /\ ScreenShowsStored
  BY <1>3 DEF ScreenInv, ScreenFor, ScreenShowsStored, Idle, Syncing, Fetched, Deleting, At
<1> QED
  BY <1>4, <1>5, <1>6, <1>7, <1>8 DEF InboxInv, InboxSafe

(* One handler goes on, and its own record is all that changes in run.     *)
LEMMA HandlerKept ==
  ASSUME HandlerInv, NEW h \in Handlers, NEW r \in Runs, run' = [run EXCEPT ![h] = r],
         IsList(inbox'), IsList(r.items),
         r.pc \in Deleting \cup {"removed"} => r.item \in Items,
         r.pc \in Fetched => r.feed \in Windows,
         \/ ~At(h, "idle") /\ alone' \subseteq alone
         \/ alone' = IF Others(h) = {} THEN {h} ELSE {}
  PROVE  HandlerInv'
<1>1. run' \in [Handlers -> Runs]
  BY DEF HandlerInv
<1>2. run'[h] = r /\ \A g \in Handlers : g # h => run'[g] = run[g]
  BY DEF HandlerInv
<1>3. \A g \in Handlers : IsList(run'[g].items)
  BY <1>2 DEF HandlerInv
<1>4. ASSUME NEW g \in Handlers
      PROVE  /\ run'[g].pc \in Deleting \cup {"removed"} => run'[g].item \in Items
             /\ run'[g].pc \in Fetched => run'[g].feed \in Windows
  BY <1>2 DEF HandlerInv
<1>5. ASSUME NEW g \in alone', NEW k \in Handlers, k # g
      PROVE  run'[k].pc = "idle"
  <2>1. CASE ~At(h, "idle") /\ alone' \subseteq alone
    <3>1. Others(g) = {}
      BY <1>5, <2>1 DEF HandlerInv
    <3>2. run[k].pc = "idle"
      BY <1>5, <3>1 DEF Others, At
    <3>3. k # h
      BY <2>1, <3>2 DEF At
    <3> QED
      BY <1>2, <3>2, <3>3
  <2>2. CASE alone' = IF Others(h) = {} THEN {h} ELSE {}
    <3>1. g = h /\ Others(h) = {}
      BY <1>5, <2>2
    <3>2. run[k].pc = "idle"
      BY <1>5, <3>1 DEF Others, At
    <3> QED
      BY <1>2, <1>5, <3>1, <3>2
  <2> QED
    BY <2>1, <2>2
<1>6. \A g \in alone' : Others(g)' = {}
  BY <1>5 DEF Others, At
<1> QED
  BY <1>1, <1>3, <1>4, <1>6 DEF HandlerInv

(* The record a step gives its handler.                                    *)
LEMMA RunAfter ==
  ASSUME HandlerInv, NEW h \in Handlers
  PROVE  /\ \A pc : [run EXCEPT ![h].pc = pc] = [run EXCEPT ![h] = [run[h] EXCEPT !.pc = pc]]
         /\ \A pc, x : [run EXCEPT ![h].pc = pc, ![h].items = x]
                         = [run EXCEPT ![h] = [run[h] EXCEPT !.pc = pc, !.items = x]]
         /\ \A pc, x : [run EXCEPT ![h].pc = pc, ![h].dismissed = x]
                         = [run EXCEPT ![h] = [run[h] EXCEPT !.pc = pc, !.dismissed = x]]
         /\ \A pc, x : [run EXCEPT ![h].pc = pc, ![h].feed = x]
                         = [run EXCEPT ![h] = [run[h] EXCEPT !.pc = pc, !.feed = x]]
  BY DEF HandlerInv

(* Every step keeps the types, and every copy of the list a list.          *)
LEMMA InboxTypesKept ==
  ASSUME InboxConstants, InboxTypeOK, HandlerInv, InboxNext
  PROVE  InboxTypeOK' /\ HandlerInv'
<1> DEFINE NextTyped == InboxTypeOK' /\ HandlerInv'
<1>1. ASSUME AppUnchanged, feed' \in Windows
      PROVE  NextTyped
  BY <1>1 DEF InboxTypeOK, HandlerInv, AppUnchanged, inboxGhosts, Others, At
<1>2. CASE Publish
  BY <1>1, <1>2 DEF Publish, InboxTypeOK, Windows, InboxConstants
<1>3. CASE AgeOut
  BY <1>1, <1>3 DEF AgeOut, InboxTypeOK, Windows, InboxConstants
<1>4. CASE KillApp
  <2>1. \A h \in Handlers : run'[h] = Idle
    BY <1>4 DEF KillApp
  <2>2. IsList({})
    BY FS_EmptySet DEF IsList, InboxConstants
  <2>3. HandlerInv'
    BY <1>4, <2>1, <2>2, RunTypes DEF KillApp, HandlerInv, Idle, Deleting, Fetched
  <2>4. InboxTypeOK'
    BY <1>4, <2>1 DEF KillApp, InboxTypeOK, Idle
  <2> QED
    BY <2>3, <2>4
<1>5. ASSUME NEW h \in Handlers, Handler(h)
      PROVE  NextTyped
  <2> DEFINE r0 == run[h]
  <2>1. /\ r0 \in Runs /\ IsList(r0.items) /\ IsList(inbox) /\ inbox \in SUBSET Items
        /\ r0.items \in SUBSET Items /\ r0.dismissed \in SUBSET Alerts /\ r0.pc \in PCs
    BY DEF HandlerInv, InboxTypeOK, Runs
  <2>2. ASSUME NEW r \in Runs, run' = [run EXCEPT ![h] = r],
               inbox' \in SUBSET Items, IsList(inbox'), IsList(r.items),
               screen' \in SUBSET Items, dismissed' \in SUBSET Alerts,
               deleted' \in SUBSET Alerts, read' \in SUBSET Alerts,
               syncs' \in 0..MaxSyncs, overlapped' \in BOOLEAN, backward' \in BOOLEAN,
               feed' = feed, newest' \in Windows,
               r.pc \in Deleting \cup {"removed"} => r.item \in Items,
               r.pc \in Fetched => r.feed \in Windows,
               \/ ~At(h, "idle") /\ alone' \subseteq alone
               \/ alone' = IF Others(h) = {} THEN {h} ELSE {}
        PROVE  NextTyped
    <3>1. HandlerInv'
      BY <2>2, HandlerKept
    <3>2. \A g \in Handlers : run'[g].items \subseteq Items /\ run'[g].dismissed \subseteq Alerts
      BY <3>1 DEF HandlerInv, Runs
    <3>3. alone' \subseteq Handlers
      BY <2>2 DEF InboxTypeOK
    <3>4. Cardinality(inbox') <= MAX_ITEMS
      BY <2>2 DEF IsList
    <3> QED
      BY <2>2, <3>1, <3>2, <3>3, <3>4 DEF InboxTypeOK
  <2> HIDE DEF r0, NextTyped
  <2>3. /\ feed \in Windows /\ newest \in Windows /\ syncs \in 0..MaxSyncs
        /\ screen \in SUBSET Items /\ dismissed \in SUBSET Alerts /\ deleted \in SUBSET Alerts
        /\ read \in SUBSET Alerts /\ overlapped \in BOOLEAN /\ backward \in BOOLEAN
    BY DEF InboxTypeOK
  <2>4. IsList({}) /\ {} \in SUBSET Items /\ Idle.items = {}
    BY FS_EmptySet DEF IsList, InboxConstants, Idle
  <2>5. read \cap AlertsOf(inbox') \in SUBSET Alerts
    BY <2>3
  <2>6. ASSUME NEW r, End(h)
        PROVE  /\ run' = [run EXCEPT ![h] = Idle] /\ Idle \in Runs /\ IsList(Idle.items)
               /\ alone' \subseteq alone
               /\ Idle.pc \notin Deleting \cup {"removed"} /\ Idle.pc \notin Fetched
    BY <2>4, <2>6, RunTypes DEF End, Set, Deleting, Fetched
  <2>7. CASE LoadInbox(h)
    <3> DEFINE r == [Idle EXCEPT !.pc = "existing"]
    <3>1. r \in Runs /\ r.items = {} /\ r.pc = "existing"
      BY RunTypes DEF PCs, Idle
    <3> HIDE DEF r
    <3>2. /\ run' = [run EXCEPT ![h] = r]
          /\ alone' = IF Others(h) = {} THEN {h} ELSE {}
          /\ overlapped' \in BOOLEAN
      BY <2>7, <2>3 DEF LoadInbox, Start, Set, r
    <3>3. screen' = inbox /\ UNCHANGED <<feed, inbox, dismissed, syncs, deleted, read, newest, backward>>
      BY <2>7 DEF LoadInbox
    <3> QED
      BY <2>1, <2>2, <2>3, <2>4, <3>1, <3>2, <3>3 DEF Deleting, Fetched
  <2>8. CASE LoadExisting(h)
    <3> DEFINE r == [r0 EXCEPT !.pc = "fetch", !.items = inbox]
    <3>1. r \in Runs
      BY <2>1, RunTypes DEF PCs
    <3>2. r.items = inbox /\ r.pc = "fetch"
      BY <2>1 DEF Runs
    <3>3. run' = [run EXCEPT ![h] = r]
      BY <2>8, RunAfter DEF LoadExisting, r0
    <3> HIDE DEF r
    <3>4. UNCHANGED <<feed, inbox, dismissed, screen, syncs, inboxGhosts>> /\ ~At(h, "idle")
      BY <2>8 DEF LoadExisting, At
    <3> QED
      BY <2>1, <2>2, <2>3, <3>1, <3>3, <3>4, <3>2 DEF Deleting, Fetched, inboxGhosts
  <2>9. ASSUME NEW answer \in Recent, FetchFeed(h, answer)
        PROVE  NextTyped
    <3> DEFINE r == [r0 EXCEPT !.pc = "dismissed", !.feed = answer]
    <3>1. answer \in Windows
      BY DEF Recent
    <3>2. r \in Runs
      BY <2>1, <3>1, RunTypes DEF PCs
    <3>3. r.items = r0.items /\ r.pc = "dismissed" /\ r.feed = answer
      BY <2>1 DEF Runs
    <3>4. run' = [run EXCEPT ![h] = r]
      BY <2>9, RunAfter DEF FetchFeed, r0
    <3> HIDE DEF r
    <3>5. /\ UNCHANGED <<feed, inbox, dismissed, screen, syncs, deleted, read, alone, overlapped>>
          /\ newest' = answer /\ backward' \in BOOLEAN /\ ~At(h, "idle")
      BY <2>9, <2>3 DEF FetchFeed, At
    <3> QED
      BY <2>1, <2>2, <2>3, <3>1, <3>2, <3>4, <3>5, <3>3 DEF Deleting, Fetched
  <2>10. CASE FetchFails(h)
    <3>1. End(h) /\ screen' = r0.items /\ ~At(h, "idle")
      BY <2>10 DEF FetchFails, At, r0
    <3>2. UNCHANGED <<feed, inbox, dismissed, syncs, deleted, read, overlapped, newest, backward>>
      BY <2>10 DEF FetchFails
    <3> QED
      BY <2>1, <2>2, <2>3, <2>6, <3>1, <3>2
  <2>11. CASE LoadDismissed(h)
    <3> DEFINE r == [r0 EXCEPT !.pc = "prune", !.dismissed = dismissed]
    <3>1. r \in Runs
      BY <2>1, <2>3, RunTypes DEF PCs
    <3>2. r.items = r0.items /\ r.pc = "prune" /\ r.feed = r0.feed
      BY <2>1 DEF Runs
    <3>3. run' = [run EXCEPT ![h] = r]
      <4>1. run' = [run EXCEPT ![h].pc = "prune", ![h].dismissed = dismissed]
        BY <2>11 DEF LoadDismissed
      <4>2. [run EXCEPT ![h].pc = "prune", ![h].dismissed = dismissed] = [run EXCEPT ![h] = r]
        BY RunAfter DEF r0
      <4> QED
        BY <4>1, <4>2
    <3> HIDE DEF r
    <3>4. UNCHANGED <<feed, inbox, dismissed, screen, syncs, inboxGhosts>> /\ ~At(h, "idle")
      BY <2>11 DEF LoadDismissed, At
    <3>5. r0.feed \in Windows
      BY <2>11 DEF LoadDismissed, At, HandlerInv, Fetched, r0
    <3> QED
      BY <2>1, <2>2, <2>3, <3>1, <3>3, <3>4, <3>5, <3>2 DEF Deleting, Fetched, inboxGhosts
  <2>12. ASSUME NEW pc \in PCs, Goto(h, pc)
         PROVE  \E r \in Runs : /\ run' = [run EXCEPT ![h] = r]
                                /\ r.pc = pc /\ r.item = r0.item /\ r.items = r0.items
                                /\ r.dismissed = r0.dismissed /\ r.feed = r0.feed
    <3>1. run' = [run EXCEPT ![h] = [r0 EXCEPT !.pc = pc]]
      BY <2>12, RunAfter DEF Goto, r0
    <3>2. [r0 EXCEPT !.pc = pc] \in Runs
      BY <2>1, RunTypes
    <3> QED
      BY <2>1, <3>1, <3>2 DEF Runs
  <2>13. CASE Prune(h)
    <3>1. Goto(h, "persist") /\ ~At(h, "idle")
      BY <2>13 DEF Prune, At
    <3>2. UNCHANGED <<feed, inbox, screen, syncs, inboxGhosts>>
      BY <2>13 DEF Prune
    <3>3. dismissed' \in SUBSET Alerts
      BY <2>13, <2>1, <2>3 DEF Prune, StillLive, r0
    <3>4. r0.feed \in Windows
      BY <2>13 DEF Prune, At, HandlerInv, Fetched, r0
    <3>5. PICK r \in Runs : /\ run' = [run EXCEPT ![h] = r]
                            /\ r.pc = "persist" /\ r.item = r0.item /\ r.items = r0.items
                            /\ r.feed = r0.feed
      BY <3>1, <2>12 DEF PCs
    <3> QED
      BY <2>1, <2>2, <2>3, <3>1, <3>2, <3>3, <3>4, <3>5 DEF Deleting, Fetched, inboxGhosts
  <2>14. CASE PersistSynced(h)
    <3> DEFINE r == [r0 EXCEPT !.pc = "shown", !.items = inbox']
    <3>1. syncs' \in 1..MaxSyncs
      BY <2>14, <2>3 DEF PersistSynced, InboxConstants
    <3>2. r0.feed \in Windows
      BY <2>14 DEF PersistSynced, At, HandlerInv, Fetched, r0
    <3>3. inbox' = Synced(h, syncs')
      BY <2>14 DEF PersistSynced
    <3>4. inbox' \in SUBSET Items /\ IsList(inbox')
      BY <3>1, <3>2, <3>3, SyncedIsList DEF r0
    <3>5. r \in Runs
      BY <2>1, <3>4, RunTypes DEF PCs
    <3>6. r.items = inbox' /\ r.pc = "shown"
      BY <2>1 DEF Runs
    <3>7. run' = [run EXCEPT ![h].pc = "shown", ![h].items = inbox']
      BY <2>14 DEF PersistSynced
    <3>8. run' = [run EXCEPT ![h] = r]
      <4>1. [run EXCEPT ![h].pc = "shown", ![h].items = inbox'] = [run EXCEPT ![h] = r]
        BY RunAfter DEF r0
      <4> QED
        BY <3>7, <4>1
    <3> HIDE DEF r
    <3>9. /\ UNCHANGED <<feed, dismissed, screen, deleted, alone, overlapped, newest, backward>>
          /\ read' = read \cap AlertsOf(inbox') /\ ~At(h, "idle")
      BY <2>14 DEF PersistSynced, At, Keep
    <3>10. syncs' \in 0..MaxSyncs
      BY <3>1 DEF InboxConstants
    <3> QED
      BY <2>2, <2>3, <2>5, <3>4, <3>5, <3>8, <3>9, <3>6, <3>10 DEF Deleting, Fetched
  <2>15. CASE ShowSynced(h)
    <3>1. End(h) /\ screen' = r0.items /\ ~At(h, "idle")
      BY <2>15 DEF ShowSynced, At, r0
    <3>2. UNCHANGED <<feed, inbox, dismissed, syncs, deleted, read, overlapped, newest, backward>>
      BY <2>15 DEF ShowSynced
    <3> QED
      BY <2>1, <2>2, <2>3, <2>6, <3>1, <3>2
  <2>16. CASE MarkRead(h)
    <3>1. PICK i \in screen \cup {NoItem} :
            Start(h, [Idle EXCEPT !.pc = "marked", !.item = i, !.items = inbox])
      BY <2>16 DEF MarkRead
    <3> DEFINE r == [Idle EXCEPT !.pc = "marked", !.item = i, !.items = inbox]
    <3>2. i \in Items \cup {NoItem}
      BY <2>3
    <3>3. r \in Runs /\ r.items = inbox /\ r.pc = "marked"
      BY <2>1, <3>2, RunTypes DEF PCs, Idle
    <3> HIDE DEF r
    <3>4. /\ run' = [run EXCEPT ![h] = r]
          /\ alone' = IF Others(h) = {} THEN {h} ELSE {}
          /\ overlapped' \in BOOLEAN
      BY <3>1, <2>3 DEF Start, Set, r
    <3>5. UNCHANGED <<feed, inbox, dismissed, screen, syncs, deleted, read, newest, backward>>
      BY <2>16 DEF MarkRead
    <3> QED
      BY <2>1, <2>2, <2>3, <3>3, <3>4, <3>5 DEF Deleting, Fetched
  <2>17. CASE PersistMarked(h)
    <3>1. inbox' = Marked(r0.items, r0.item)
      BY <2>17 DEF PersistMarked, r0
    <3>2. inbox' \in SUBSET Items /\ IsList(inbox')
      BY <2>1, <3>1, MarkedIsList
    <3>3. read' \in SUBSET Alerts
      <4>1. \A i \in Items : i.alert \in Alerts
        BY DEF Items
      <4> QED
        BY <2>17, <2>3, <3>2, <4>1 DEF PersistMarked, AlertsOf
    <3>4. Goto(h, "marked shown") /\ ~At(h, "idle")
      BY <2>17 DEF PersistMarked, At
    <3>5. UNCHANGED <<feed, dismissed, screen, syncs, deleted, alone, overlapped, newest, backward>>
      BY <2>17 DEF PersistMarked
    <3>6. PICK r \in Runs : /\ run' = [run EXCEPT ![h] = r]
                            /\ r.pc = "marked shown" /\ r.items = r0.items
      BY <3>4, <2>12 DEF PCs
    <3> QED
      BY <2>1, <2>2, <2>3, <3>2, <3>3, <3>4, <3>5, <3>6 DEF Deleting, Fetched
  <2>18. CASE ShowMarked(h)
    <3>1. End(h) /\ screen' = Marked(screen, r0.item) /\ ~At(h, "idle")
      BY <2>18 DEF ShowMarked, At, r0
    <3>2. screen' \in SUBSET Items
      BY <3>1, <2>3 DEF Marked, Items
    <3>3. UNCHANGED <<feed, inbox, dismissed, syncs, deleted, read, overlapped, newest, backward>>
      BY <2>18 DEF ShowMarked
    <3> QED
      BY <2>1, <2>2, <2>3, <2>6, <3>1, <3>2, <3>3
  <2>19. CASE Delete(h)
    <3>1. PICK i \in screen :
            Start(h, [Idle EXCEPT !.item = i, !.items = inbox,
                                  !.pc = IF \E j \in inbox : SameId(i, j) THEN "dismiss"
                                         ELSE "remove"])
      BY <2>19 DEF Delete
    <3> DEFINE pc == IF \E j \in inbox : SameId(i, j) THEN "dismiss" ELSE "remove"
               r == [Idle EXCEPT !.pc = pc, !.item = i, !.items = inbox]
    <3>2. pc \in {"dismiss", "remove"}
      OBVIOUS
    <3>3. r = [Idle EXCEPT !.item = i, !.items = inbox, !.pc = pc]
      BY DEF Idle
    <3> HIDE DEF pc
    <3>4. i \in Items
      BY <2>3
    <3>5. r \in Runs /\ r.items = inbox /\ r.pc = pc /\ r.item = i
      BY <2>1, <3>2, <3>4, RunTypes DEF PCs, Idle
    <3> HIDE DEF r
    <3>6. /\ run' = [run EXCEPT ![h] = r]
          /\ alone' = IF Others(h) = {} THEN {h} ELSE {}
          /\ overlapped' \in BOOLEAN
      BY <3>1, <3>3, <2>3 DEF Start, Set, pc
    <3>7. UNCHANGED <<feed, inbox, dismissed, screen, syncs, deleted, read, newest, backward>>
      BY <2>19 DEF Delete
    <3> QED
      BY <2>1, <2>2, <2>3, <3>2, <3>4, <3>5, <3>6, <3>7 DEF Deleting, Fetched
  <2>20. CASE LoadToDismiss(h)
    <3> DEFINE d == dismissed \cup {r0.item.alert}
               r == [r0 EXCEPT !.pc = "dismissing", !.dismissed = d]
    <3>1. r0.item \in Items
      BY <2>20 DEF LoadToDismiss, At, HandlerInv, Deleting, r0
    <3>2. d \in SUBSET Alerts
      BY <2>3, <3>1 DEF Items
    <3> HIDE DEF d
    <3>3. r \in Runs
      BY <2>1, <3>2, RunTypes DEF PCs
    <3>4. r.items = r0.items /\ r.pc = "dismissing" /\ r.item = r0.item
      BY <2>1 DEF Runs
    <3>5. run' = [run EXCEPT ![h] = r]
      <4>1. run' = [run EXCEPT ![h].pc = "dismissing", ![h].dismissed = d]
        BY <2>20 DEF LoadToDismiss, r0, d
      <4>2. [run EXCEPT ![h].pc = "dismissing", ![h].dismissed = d]
              = [run EXCEPT ![h] = [run[h] EXCEPT !.pc = "dismissing", !.dismissed = d]]
        BY DEF HandlerInv
      <4> QED
        BY <4>1, <4>2 DEF r0
    <3> HIDE DEF r
    <3>6. UNCHANGED <<feed, inbox, dismissed, screen, syncs, inboxGhosts>> /\ ~At(h, "idle")
      BY <2>20 DEF LoadToDismiss, At
    <3> QED
      BY <2>1, <2>2, <2>3, <3>1, <3>3, <3>5, <3>6, <3>4 DEF Deleting, Fetched, inboxGhosts
  <2>21. CASE PersistDismissed(h)
    <3>1. Goto(h, "remove") /\ ~At(h, "idle") /\ dismissed' = r0.dismissed
      BY <2>21 DEF PersistDismissed, At, r0
    <3>2. UNCHANGED <<feed, inbox, screen, syncs, inboxGhosts>>
      BY <2>21 DEF PersistDismissed
    <3>3. r0.item \in Items
      BY <2>21 DEF PersistDismissed, At, HandlerInv, Deleting, r0
    <3>4. PICK r \in Runs : /\ run' = [run EXCEPT ![h] = r]
                            /\ r.pc = "remove" /\ r.item = r0.item /\ r.items = r0.items
      BY <3>1, <2>12 DEF PCs
    <3> QED
      BY <2>1, <2>2, <2>3, <3>1, <3>2, <3>3, <3>4 DEF Deleting, Fetched, inboxGhosts
  <2>22. CASE PersistRemoved(h)
    <3>1. /\ Goto(h, "removed") /\ ~At(h, "idle")
          /\ inbox' = Without(r0.items, r0.item) /\ read' = read \cap AlertsOf(inbox')
      BY <2>22 DEF PersistRemoved, At, Keep, r0
    <3>2. UNCHANGED <<feed, dismissed, screen, syncs, alone, overlapped, newest, backward>>
      BY <2>22 DEF PersistRemoved
    <3>3. r0.item \in Items
      BY <2>22 DEF PersistRemoved, At, HandlerInv, Deleting, r0
    <3>4. inbox' \in SUBSET Items /\ IsList(inbox')
      BY <2>1, <3>1, WithoutIsList
    <3>5. deleted' \in SUBSET Alerts
      BY <2>22, <2>3, <3>3 DEF PersistRemoved, Items, r0
    <3>6. PICK r \in Runs : /\ run' = [run EXCEPT ![h] = r]
                            /\ r.pc = "removed" /\ r.item = r0.item /\ r.items = r0.items
      BY <3>1, <2>12 DEF PCs
    <3> QED
      BY <2>1, <2>2, <2>3, <2>5, <3>1, <3>2, <3>3, <3>4, <3>5, <3>6 DEF Deleting, Fetched
  <2>23. CASE ShowRemoved(h)
    <3>1. End(h) /\ screen' = Without(screen, r0.item) /\ ~At(h, "idle")
      BY <2>23 DEF ShowRemoved, At, r0
    <3>2. screen' \in SUBSET Items
      BY <3>1, <2>3 DEF Without
    <3>3. UNCHANGED <<feed, inbox, dismissed, syncs, deleted, read, overlapped, newest, backward>>
      BY <2>23 DEF ShowRemoved
    <3> QED
      BY <2>1, <2>2, <2>3, <2>6, <3>1, <3>2, <3>3
  <2> QED
    BY <1>5, <2>7, <2>8, <2>9, <2>10, <2>11, <2>13, <2>14, <2>15, <2>16, <2>17, <2>18, <2>19, <2>20,
       <2>21, <2>22, <2>23 DEF Handler
<1> QED
  BY <1>2, <1>3, <1>4, <1>5 DEF InboxNext

(* What each action does to its handler, and that it touches no other.     *)
LEMMA HandlerMoves ==
  ASSUME HandlerInv, NEW h \in Handlers
  PROVE  /\ Handler(h) => \A g \in Handlers : g # h => run'[g] = run[g]
         /\ LoadInbox(h) => run[h].pc = "idle" /\ run'[h].pc = "existing"
         /\ LoadExisting(h) =>
              run[h].pc = "existing" /\ run'[h].pc = "fetch" /\ run'[h].items = inbox
         /\ \A answer : FetchFeed(h, answer) =>
              /\ run[h].pc = "fetch" /\ run'[h].pc = "dismissed"
              /\ run'[h].items = run[h].items /\ run'[h].feed = answer
         /\ LoadDismissed(h) =>
              /\ run[h].pc = "dismissed" /\ run'[h].pc = "prune"
              /\ run'[h].items = run[h].items /\ run'[h].feed = run[h].feed
              /\ run'[h].dismissed = dismissed
         /\ Prune(h) =>
              /\ run[h].pc = "prune" /\ run'[h].pc = "persist"
              /\ run'[h].items = run[h].items /\ run'[h].feed = run[h].feed
              /\ run'[h].dismissed = run[h].dismissed
         /\ PersistSynced(h) =>
              run[h].pc = "persist" /\ run'[h].pc = "shown" /\ run'[h].items = inbox'
         /\ MarkRead(h) => run[h].pc = "idle" /\ run'[h].pc = "marked" /\ run'[h].items = inbox
         /\ PersistMarked(h) =>
              run[h].pc = "marked" /\ run'[h].pc = "marked shown" /\ run'[h].item = run[h].item
         /\ LoadToDismiss(h) =>
              /\ run[h].pc = "dismiss" /\ run'[h].pc = "dismissing"
              /\ run'[h].item = run[h].item /\ run'[h].items = run[h].items
              /\ run'[h].dismissed = dismissed \cup {run[h].item.alert}
         /\ PersistDismissed(h) =>
              /\ run[h].pc = "dismissing" /\ run'[h].pc = "remove"
              /\ run'[h].item = run[h].item /\ run'[h].items = run[h].items
              /\ run'[h].dismissed = run[h].dismissed
         /\ PersistRemoved(h) =>
              run[h].pc = "remove" /\ run'[h].pc = "removed" /\ run'[h].item = run[h].item
         /\ FetchFails(h) => run[h].pc = "fetch" /\ run'[h].pc = "idle"
         /\ ShowSynced(h) => run[h].pc = "shown" /\ run'[h].pc = "idle"
         /\ ShowMarked(h) => run[h].pc = "marked shown" /\ run'[h].pc = "idle"
         /\ ShowRemoved(h) => run[h].pc = "removed" /\ run'[h].pc = "idle"
<1>1. run \in [Handlers -> Runs] /\ run[h] \in Runs
  BY DEF HandlerInv
<1>2. ASSUME NEW pc, Goto(h, pc)
      PROVE  /\ run'[h].pc = pc /\ run'[h].item = run[h].item /\ run'[h].items = run[h].items
             /\ run'[h].dismissed = run[h].dismissed /\ run'[h].feed = run[h].feed
  BY <1>1, <1>2 DEF Goto, Runs
<1>3. ASSUME NEW r, Set(h, r)
      PROVE  run'[h] = r
  BY <1>1, <1>3 DEF Set
<1>4. Handler(h) => \A g \in Handlers : g # h => run'[g] = run[g]
  BY <1>1 DEF Handler, LoadInbox, LoadExisting, FetchFails, FetchFeed, LoadDismissed, Prune,
     PersistSynced, ShowSynced, MarkRead, PersistMarked, ShowMarked, Delete, LoadToDismiss,
     PersistDismissed, PersistRemoved, ShowRemoved, Start, End, Set, Goto
<1>5. LoadInbox(h) => run[h].pc = "idle" /\ run'[h].pc = "existing"
  BY <1>3 DEF LoadInbox, Start, At, Idle
<1>6. LoadExisting(h) =>
        run[h].pc = "existing" /\ run'[h].pc = "fetch" /\ run'[h].items = inbox
  BY <1>1 DEF LoadExisting, At, Runs
<1>7. \A answer : FetchFeed(h, answer) =>
        /\ run[h].pc = "fetch" /\ run'[h].pc = "dismissed"
        /\ run'[h].items = run[h].items /\ run'[h].feed = answer
  BY <1>1 DEF FetchFeed, At, Runs
<1>8. LoadDismissed(h) =>
        /\ run[h].pc = "dismissed" /\ run'[h].pc = "prune"
        /\ run'[h].items = run[h].items /\ run'[h].feed = run[h].feed
        /\ run'[h].dismissed = dismissed
  BY <1>1 DEF LoadDismissed, At, Runs
<1>9. Prune(h) =>
        /\ run[h].pc = "prune" /\ run'[h].pc = "persist"
        /\ run'[h].items = run[h].items /\ run'[h].feed = run[h].feed
        /\ run'[h].dismissed = run[h].dismissed
  BY <1>2 DEF Prune, At
<1>10. PersistSynced(h) =>
         run[h].pc = "persist" /\ run'[h].pc = "shown" /\ run'[h].items = inbox'
  BY <1>1 DEF PersistSynced, At, Runs
<1>11. MarkRead(h) => run[h].pc = "idle" /\ run'[h].pc = "marked" /\ run'[h].items = inbox
  BY <1>3 DEF MarkRead, Start, At, Idle
<1>12. PersistMarked(h) =>
         run[h].pc = "marked" /\ run'[h].pc = "marked shown" /\ run'[h].item = run[h].item
  BY <1>2 DEF PersistMarked, At
<1>13. LoadToDismiss(h) =>
         /\ run[h].pc = "dismiss" /\ run'[h].pc = "dismissing"
         /\ run'[h].item = run[h].item /\ run'[h].items = run[h].items
         /\ run'[h].dismissed = dismissed \cup {run[h].item.alert}
  BY <1>1 DEF LoadToDismiss, At, Runs
<1>14. PersistDismissed(h) =>
         /\ run[h].pc = "dismissing" /\ run'[h].pc = "remove"
         /\ run'[h].item = run[h].item /\ run'[h].items = run[h].items
         /\ run'[h].dismissed = run[h].dismissed
  BY <1>2 DEF PersistDismissed, At
<1>15. PersistRemoved(h) =>
         run[h].pc = "remove" /\ run'[h].pc = "removed" /\ run'[h].item = run[h].item
  BY <1>2 DEF PersistRemoved, At
<1>16. /\ FetchFails(h) => run[h].pc = "fetch" /\ run'[h].pc = "idle"
       /\ ShowSynced(h) => run[h].pc = "shown" /\ run'[h].pc = "idle"
       /\ ShowMarked(h) => run[h].pc = "marked shown" /\ run'[h].pc = "idle"
       /\ ShowRemoved(h) => run[h].pc = "removed" /\ run'[h].pc = "idle"
  <2>1. End(h) => run'[h].pc = "idle"
    BY <1>3, RunTypes DEF End
  <2> QED
    BY <2>1 DEF FetchFails, ShowSynced, ShowMarked, ShowRemoved, At
<1> QED
  BY <1>4, <1>5, <1>6, <1>7, <1>8, <1>9, <1>10, <1>11, <1>12, <1>13, <1>14, <1>15, <1>16

(* A handler that starts to delete has its item from the screen, and the   *)
(* list as it is stored, in which it finds the item or not.                *)
LEMMA DeleteMoves ==
  ASSUME HandlerInv, NEW h \in Handlers, Delete(h)
  PROVE  /\ run[h].pc = "idle" /\ run'[h].pc \in {"dismiss", "remove"}
         /\ run'[h].items = inbox /\ run'[h].item \in screen /\ run'[h].dismissed = {}
         /\ run'[h].pc = "dismiss" <=> \E j \in inbox : SameId(run'[h].item, j)
<1>1. PICK i \in screen :
        Start(h, [Idle EXCEPT !.item = i, !.items = inbox,
                              !.pc = IF \E j \in inbox : SameId(i, j) THEN "dismiss"
                                     ELSE "remove"])
  BY DEF Delete
<1> DEFINE pc == IF \E j \in inbox : SameId(i, j) THEN "dismiss" ELSE "remove"
<1>2. run[h].pc = "idle" /\ run'[h] = [Idle EXCEPT !.item = i, !.items = inbox, !.pc = pc]
  BY <1>1 DEF Start, Set, At, HandlerInv
<1>3. pc \in {"dismiss", "remove"} /\ (pc = "dismiss" <=> \E j \in inbox : SameId(i, j))
  OBVIOUS
<1> HIDE DEF pc
<1>4. /\ run'[h].pc = pc /\ run'[h].item = i /\ run'[h].items = inbox
      /\ run'[h].dismissed = {}
  BY <1>2 DEF Idle
<1> QED
  BY <1>2, <1>3, <1>4

(* A read mark that counts stays: every list that may be stored has it.    *)
LEMMA ReadKept ==
  ASSUME ReadInv, HandlerInv, NEW h \in Handlers,
         \A g \in Handlers : g # h => run'[g] = run[g],
         read' \subseteq read \/ Others(h) = {},
         KeepsReads(inbox)', ReadBy(h)'
  PROVE  ReadInv'
<1>1. ASSUME NEW g \in Handlers, g # h
      PROVE  ReadBy(g)'
  <2>1. run'[g] = run[g] /\ ReadBy(g)
    BY <1>1 DEF ReadInv
  <2>2. CASE read' \subseteq read
    <3>1. \A items : /\ ReadsMarked(items) => \A i \in items : i.alert \in read' => i.read
                     /\ KeepsReads(items) => read' \subseteq AlertsOf(items)
      BY <2>2 DEF ReadsMarked, KeepsReads
    <3> QED
      BY <2>1, <3>1 DEF ReadBy, ReadsMarked, KeepsReads
  <2>3. CASE Others(h) = {}
    <3>1. run[g].pc = "idle"
      BY <1>1, <2>3 DEF Others, At
    <3> QED
      BY <2>1, <3>1 DEF ReadBy, Syncing, Fetched, Deleting
  <2> QED
    BY <2>2, <2>3
<1> QED
  BY <1>1 DEF ReadInv

(* Every step keeps the read marks where they may be stored.               *)
LEMMA ReadStep ==
  ASSUME InboxConstants, InboxTypeOK, HandlerInv, ReadInv, InboxNext
  PROVE  ReadInv'
<1>1. CASE Publish \/ AgeOut
  BY <1>1 DEF Publish, AgeOut, AppUnchanged, inboxGhosts, ReadInv, ReadBy, ReadsMarked, KeepsReads
<1>2. CASE KillApp
  BY <1>2, RunTypes DEF KillApp, ReadInv, ReadBy, ReadsMarked, KeepsReads, Syncing, Fetched, Deleting
<1>3. ASSUME NEW h \in Handlers, Handler(h)
      PROVE  ReadInv'
  <2>1. \A g \in Handlers : g # h => run'[g] = run[g]
    BY <1>3, HandlerMoves
  <2>2. ASSUME read' = read, inbox' = inbox, ReadBy(h)'
        PROVE  ReadInv'
    <3>1. KeepsReads(inbox)'
      BY <2>2 DEF ReadInv, KeepsReads, ReadsMarked
    <3> QED
      BY <2>1, <2>2, <3>1, ReadKept
  <2>3. ASSUME read' = read, inbox' = inbox,
               run'[h].pc \notin Syncing \cup Deleting \cup {"marked"}
        PROVE  ReadInv'
    BY <2>2, <2>3 DEF ReadBy
  <2>4. ASSUME read' = read, inbox' = inbox, run'[h].items = inbox
        PROVE  ReadInv'
    <3>1. ReadBy(h)'
      BY <2>4 DEF ReadInv, ReadBy, KeepsReads, ReadsMarked
    <3> QED
      BY <2>2, <2>4, <3>1
  <2>5. ASSUME read' = read, inbox' = inbox, run'[h].items = run[h].items,
               \/ run[h].pc \in Syncing /\ run'[h].pc \in Syncing
               \/ run[h].pc \in Deleting /\ run'[h].pc \in Deleting
        PROVE  ReadInv'
    <3>1. ReadBy(h)
      BY DEF ReadInv
    <3>2. ReadBy(h)'
      BY <2>5, <3>1 DEF ReadBy, KeepsReads, ReadsMarked, Syncing, Fetched, Deleting
    <3> QED
      BY <2>2, <2>5, <3>2
  <2>6. ASSUME read' = read \cap AlertsOf(inbox'), ReadsMarked(inbox)',
               run'[h].pc \in {"shown", "removed"}
        PROVE  ReadInv'
    <3>1. read' \subseteq read /\ KeepsReads(inbox)'
      BY <2>6 DEF KeepsReads
    <3>2. ReadBy(h)'
      BY <2>6 DEF ReadBy, Syncing, Fetched, Deleting
    <3> QED
      BY <2>1, <3>1, <3>2, ReadKept
  <2>7. CASE LoadInbox(h)
    BY <2>3, <2>7, HandlerMoves DEF LoadInbox, Syncing, Fetched, Deleting
  <2>8. CASE LoadExisting(h)
    BY <2>4, <2>8, HandlerMoves DEF LoadExisting, inboxGhosts
  <2>9. ASSUME NEW answer, FetchFeed(h, answer)
        PROVE  ReadInv'
    BY <2>5, <2>9, HandlerMoves DEF FetchFeed, Syncing, Fetched
  <2>10. CASE FetchFails(h)
    BY <2>3, <2>10, HandlerMoves DEF FetchFails, Syncing, Fetched, Deleting
  <2>11. CASE LoadDismissed(h)
    BY <2>5, <2>11, HandlerMoves DEF LoadDismissed, inboxGhosts, Syncing, Fetched
  <2>12. CASE Prune(h)
    BY <2>5, <2>12, HandlerMoves DEF Prune, inboxGhosts, Syncing, Fetched
  <2>13. CASE PersistSynced(h)
    <3>1. run[h].pc = "persist" /\ run'[h].pc = "shown"
      BY <2>13, HandlerMoves
    <3>2. read' = read \cap AlertsOf(inbox') /\ inbox' = Synced(h, syncs')
      BY <2>13 DEF PersistSynced, Keep
    <3>3. KeepsReads(run[h].items)
      BY <3>1 DEF ReadInv, ReadBy, Syncing, Fetched
    <3>4. ASSUME NEW i \in inbox', i.alert \in read'
          PROVE  i.read
      <4>1. i.alert \in read
        BY <3>2, <3>4
      <4>2. PICK j \in run[h].items : j.alert = i.alert
        BY <3>3, <4>1 DEF KeepsReads, AlertsOf
      <4>3. j.read
        BY <3>3, <4>1, <4>2 DEF KeepsReads, ReadsMarked
      <4>4. i.alert \in {k.alert : k \in {l \in run[h].items : l.read}}
        BY <4>2, <4>3
      <4>5. i.read = (i.alert \in {k.alert : k \in {l \in run[h].items : l.read}})
        BY <3>2 DEF Synced
      <4> QED
        BY <4>4, <4>5
    <3>5. ReadsMarked(inbox)'
      BY <3>4 DEF ReadsMarked
    <3> QED
      BY <2>6, <3>1, <3>2, <3>5
  <2>14. CASE ShowSynced(h)
    BY <2>3, <2>14, HandlerMoves DEF ShowSynced, Syncing, Fetched, Deleting
  <2>15. CASE MarkRead(h)
    BY <2>4, <2>15, HandlerMoves DEF MarkRead
  <2>16. CASE PersistMarked(h)
    <3> DEFINE items == run[h].items
               new == AlertsOf(inbox' \ items)
    <3>1. run[h].pc = "marked" /\ run'[h].pc = "marked shown"
      BY <2>16, HandlerMoves
    <3>2. inbox' = Marked(items, run[h].item)
      BY <2>16 DEF PersistMarked
    <3>3. read' = (read \cap AlertsOf(inbox')) \cup (IF h \in alone THEN new ELSE {})
      BY <2>16 DEF PersistMarked
    <3>4. ReadsMarked(items)
      BY <3>1 DEF ReadInv, ReadBy
    <3>5. IsList(inbox') /\ items \in SUBSET Items /\ IsList(items)
      BY <3>2, MarkedIsList DEF HandlerInv, Runs
    <3>6. \A i \in inbox' : i.read \/ i \in items
      BY <3>2, <3>5 DEF Marked, Items
    <3>7. ASSUME NEW i \in inbox', i.alert \in read'
          PROVE  i.read
      <4>1. CASE i.alert \in read
        BY <3>4, <3>6, <4>1 DEF ReadsMarked
      <4>2. CASE i.alert \in new
        <5>1. PICK j \in inbox' \ items : j.alert = i.alert
          BY <4>2 DEF AlertsOf
        <5>2. i = j
          BY <3>5, <5>1 DEF IsList
        <5> QED
          BY <3>6, <5>1, <5>2
      <4> QED
        BY <3>3, <3>7, <4>1, <4>2
    <3>8. KeepsReads(inbox)'
      <4>1. read' \subseteq AlertsOf(inbox')
        BY <3>3 DEF AlertsOf
      <4> QED
        BY <3>7, <4>1 DEF KeepsReads, ReadsMarked
    <3>9. read' \subseteq read \/ Others(h) = {}
      BY <3>3 DEF HandlerInv
    <3>10. ReadBy(h)'
      BY <3>1 DEF ReadBy, Syncing, Fetched, Deleting
    <3> QED
      BY <2>1, <3>8, <3>9, <3>10, ReadKept
  <2>17. CASE ShowMarked(h)
    BY <2>3, <2>17, HandlerMoves DEF ShowMarked, Syncing, Fetched, Deleting
  <2>18. CASE Delete(h)
    BY <2>4, <2>18, DeleteMoves DEF Delete
  <2>19. CASE LoadToDismiss(h)
    BY <2>5, <2>19, HandlerMoves DEF LoadToDismiss, inboxGhosts, Deleting
  <2>20. CASE PersistDismissed(h)
    BY <2>5, <2>20, HandlerMoves DEF PersistDismissed, inboxGhosts, Deleting
  <2>21. CASE PersistRemoved(h)
    <3>1. run[h].pc = "remove" /\ run'[h].pc = "removed"
      BY <2>21, HandlerMoves
    <3>2. /\ read' = read \cap AlertsOf(inbox')
          /\ inbox' = Without(run[h].items, run[h].item)
      BY <2>21 DEF PersistRemoved, Keep
    <3>3. ReadsMarked(run[h].items)
      BY <3>1 DEF ReadInv, ReadBy, Deleting
    <3>4. ReadsMarked(inbox)'
      BY <3>2, <3>3 DEF ReadsMarked, Without
    <3> QED
      BY <2>6, <3>1, <3>2, <3>4
  <2>22. CASE ShowRemoved(h)
    BY <2>3, <2>22, HandlerMoves DEF ShowRemoved, Syncing, Fetched, Deleting
  <2> QED
    BY <1>3, <2>7, <2>8, <2>9, <2>10, <2>11, <2>12, <2>13, <2>14, <2>15, <2>16, <2>17, <2>18, <2>19,
       <2>20, <2>21, <2>22 DEF Handler
<1> QED
  BY <1>1, <1>2, <1>3 DEF InboxNext

(* Whoever still counts as alone after a step has made it.                 *)
LEMMA AloneActs ==
  ASSUME HandlerInv, NEW h \in Handlers, Handler(h)
  PROVE  alone' \subseteq {h}
<1>1. \/ alone' = IF Others(h) = {} THEN {h} ELSE {}
      \/ run[h].pc # "idle" /\ alone' \subseteq alone
  <2>1. CASE LoadInbox(h) \/ MarkRead(h) \/ Delete(h)
    BY <2>1 DEF LoadInbox, MarkRead, Delete, Start
  <2>2. CASE FetchFails(h) \/ ShowSynced(h) \/ ShowMarked(h) \/ ShowRemoved(h)
    BY <2>2, HandlerMoves DEF FetchFails, ShowSynced, ShowMarked, ShowRemoved, End
  <2>3. CASE \/ LoadExisting(h) \/ LoadDismissed(h) \/ Prune(h) \/ LoadToDismiss(h)
             \/ PersistDismissed(h)
    BY <2>3, HandlerMoves
       DEF LoadExisting, LoadDismissed, Prune, LoadToDismiss, PersistDismissed, inboxGhosts
  <2>4. CASE \/ PersistSynced(h) \/ PersistMarked(h) \/ PersistRemoved(h)
             \/ \E answer \in Recent : FetchFeed(h, answer)
    BY <2>4, HandlerMoves DEF FetchFeed, PersistSynced, PersistMarked, PersistRemoved
  <2> QED
    BY <2>1, <2>2, <2>3, <2>4 DEF Handler
<1>2. ASSUME NEW g \in alone, g # h
      PROVE  run[h].pc = "idle"
  BY <1>2 DEF HandlerInv, Others, At
<1> QED
  BY <1>1, <1>2

(* A deletion that counts stays, if the acting handler's copies are right. *)
LEMMA DeletedKept ==
  ASSUME InboxTypeOK, InboxTypeOK', HandlerInv, DeletedInv, ~backward, NEW h \in Handlers,
         \A g \in Handlers : g # h => run'[g] = run[g],
         alone' \subseteq {h}, feed' = feed, newest.hi <= newest'.hi,
         \A i \in inbox' : i.alert <= newest'.hi,
         AnsweredFor(h)',
         deleted' \subseteq deleted \/ Others(h) = {},
         \A a \in deleted' : a >= feed.lo =>
           a \in dismissed' /\ a \notin AlertsOf(inbox') /\ a <= newest'.hi /\ DismissedBy(h, a)'
  PROVE  DeletedInv'
<1>1. newest.hi \in Int /\ newest'.hi \in Int
  BY DEF InboxTypeOK, Windows
<1>2. ASSUME NEW g \in Handlers, g # h
      PROVE  AnsweredFor(g)'
  <2>1. run'[g] = run[g] /\ AnsweredFor(g) /\ g \notin alone'
    BY <1>2 DEF DeletedInv, AnsweredInv
  <2>2. run[g].pc \in Fetched => run[g].feed.hi \in Int
    BY DEF HandlerInv, Windows
  <2>3. run[g].pc \in Fetched => run[g].feed.hi <= newest'.hi
    BY <1>1, <2>1, <2>2 DEF AnsweredFor
  <2>4. run[g].pc \in Deleting \cup {"marked"} => \A i \in run[g].items : i.alert <= newest'.hi
    <3>1. \A i \in run[g].items : i.alert \in Int
      BY DEF HandlerInv, Runs, Items, Alerts
    <3> QED
      BY <1>1, <2>1, <3>1 DEF AnsweredFor
  <2> QED
    BY <2>1, <2>3, <2>4 DEF AnsweredFor, HasFound, At
<1>3. ASSUME NEW a \in deleted', a >= feed.lo, NEW g \in Handlers, g # h
      PROVE  DismissedBy(g, a)'
  <2>1. run'[g] = run[g]
    BY <1>3
  <2>2. CASE deleted' \subseteq deleted
    <3>1. DismissedBy(g, a)
      BY <1>3, <2>2 DEF DeletedInv, StaysDeleted
    <3> QED
      BY <2>1, <3>1 DEF DismissedBy
  <2>3. CASE Others(h) = {}
    <3>1. run[g].pc = "idle"
      BY <1>3, <2>3 DEF Others, At
    <3> QED
      BY <2>1, <3>1 DEF DismissedBy, Fetched, Deleting
  <2> QED
    BY <2>2, <2>3
<1>4. AnsweredInv'
  BY <1>2 DEF AnsweredInv
<1>5. \A a \in deleted' : a >= feed'.lo => StaysDeleted(a)'
  BY <1>3 DEF StaysDeleted
<1> QED
  BY <1>4, <1>5 DEF DeletedInv

(* Every step keeps a deleted alert out, or the reason it cannot return.   *)
LEMMA DeletedStep ==
  ASSUME InboxConstants, InboxTypeOK, InboxTypeOK', HandlerInv, DeletedInv, InboxNext
  PROVE  DeletedInv'
<1>1. CASE Publish \/ AgeOut
  <2>1. /\ UNCHANGED <<inbox, dismissed, run, alone, deleted, newest, backward>>
        /\ feed'.lo = feed.lo \/ feed'.lo = feed.lo + 1
    BY <1>1 DEF Publish, AgeOut, AppUnchanged, inboxGhosts, InboxTypeOK, Windows
  <2>2. feed.lo \in Int /\ \A a \in deleted : a \in Int
    BY DEF InboxTypeOK, Windows, Alerts
  <2>3. ASSUME ~backward, NEW h \in Handlers
        PROVE  AnsweredFor(h)'
    <3>1. AnsweredFor(h)
      BY <2>3 DEF DeletedInv, AnsweredInv
    <3>2. run[h].pc \in Fetched => run[h].feed.lo \in Int
      BY DEF HandlerInv, Windows
    <3>3. run[h].pc \in Fetched => run[h].feed.lo <= feed'.lo
      BY <2>1, <2>2, <3>1, <3>2 DEF AnsweredFor
    <3> QED
      BY <2>1, <3>1, <3>3 DEF AnsweredFor, HasFound, At
  <2>4. ASSUME NEW a \in deleted, a >= feed'.lo
        PROVE  a >= feed.lo
    BY <2>1, <2>2, <2>4
  <2>5. \A a : StaysDeleted(a) => StaysDeleted(a)'
    BY <2>1 DEF StaysDeleted, DismissedBy
  <2> QED
    BY <2>1, <2>3, <2>4, <2>5 DEF DeletedInv, AnsweredInv
<1>2. CASE KillApp
  <2>1. /\ UNCHANGED <<feed, inbox, dismissed, deleted, newest, backward>>
        /\ \A h \in Handlers : run'[h].pc = "idle"
    BY <1>2, RunTypes DEF KillApp
  <2>2. \A h \in Handlers : AnsweredFor(h)' /\ \A a : DismissedBy(h, a)'
    BY <2>1 DEF AnsweredFor, DismissedBy, HasFound, At, Fetched, Deleting
  <2> QED
    BY <2>1, <2>2 DEF DeletedInv, AnsweredInv, StaysDeleted
<1>3. ASSUME NEW h \in Handlers, Handler(h)
      PROVE  DeletedInv'
  <2>1. /\ \A g \in Handlers : g # h => run'[g] = run[g]
        /\ alone' \subseteq {h}
    BY <1>3, HandlerMoves, AloneActs
  <2>2. CASE backward'
    BY <2>2 DEF DeletedInv
  <2>3. CASE ~backward'
    <3>1. ~backward /\ newest.hi <= newest'.hi /\ feed' = feed
      <4>1. newest.hi \in Int
        BY DEF InboxTypeOK, Windows
      <4>2. ASSUME NEW answer \in Recent, FetchFeed(h, answer)
            PROVE  ~backward /\ newest.hi <= newest'.hi /\ feed' = feed
        <5>1. /\ newest' = answer /\ feed' = feed
              /\ backward' = (backward \/ answer.lo < newest.lo \/ answer.hi < newest.hi)
          BY <4>2 DEF FetchFeed
        <5>2. answer.hi \in Int
          BY DEF Recent, Windows
        <5>3. ~backward /\ ~(answer.hi < newest.hi)
          BY <2>3, <5>1
        <5>4. newest.hi <= answer.hi
          BY <4>1, <5>2, <5>3
        <5> QED
          BY <5>1, <5>3, <5>4
      <4>3. CASE UNCHANGED <<newest, backward, feed>>
        BY <2>3, <4>1, <4>3
      <4>4. (\E answer \in Recent : FetchFeed(h, answer)) \/ UNCHANGED <<newest, backward, feed>>
        BY <1>3 DEF Handler, LoadInbox, LoadExisting, FetchFails, LoadDismissed, Prune,
           PersistSynced, ShowSynced, MarkRead, PersistMarked, ShowMarked, Delete,
           LoadToDismiss, PersistDismissed, PersistRemoved, ShowRemoved, inboxGhosts
      <4> QED
        BY <4>2, <4>3, <4>4
    <3>2. /\ \A i \in inbox : i.alert <= newest.hi
          /\ AnsweredFor(h)
          /\ \A a \in deleted : a >= feed.lo =>
               /\ a \in dismissed /\ a \notin AlertsOf(inbox) /\ a <= newest.hi
               /\ DismissedBy(h, a)
      BY <3>1 DEF DeletedInv, AnsweredInv, StaysDeleted
    <3>3. /\ newest.hi \in Int /\ newest'.hi \in Int /\ feed.lo \in Int
          /\ \A a \in deleted : a \in Int
          /\ \A i \in Items : i.alert \in Int
          /\ inbox \subseteq Items /\ run[h].items \subseteq Items
      BY DEF InboxTypeOK, Windows, Alerts, Items, HandlerInv, Runs
    <3>4. /\ \A i \in inbox : i.alert <= newest'.hi
          /\ \A a \in deleted : a >= feed.lo => a <= newest'.hi
      BY <3>1, <3>2, <3>3
    <3>5. ASSUME inbox' = inbox, dismissed' = dismissed, deleted' = deleted,
                 AnsweredFor(h)', \A a \in deleted : a >= feed.lo => DismissedBy(h, a)'
          PROVE  DeletedInv'
      BY <2>1, <3>1, <3>2, <3>4, <3>5, DeletedKept
    <3>6. ASSUME inbox' = inbox, dismissed' = dismissed, deleted' = deleted,
                 run'[h].pc \notin Fetched \cup Deleting \cup {"marked"}
          PROVE  DeletedInv'
      <4>1. AnsweredFor(h)' /\ \A a : DismissedBy(h, a)'
        BY <3>6 DEF AnsweredFor, DismissedBy, HasFound, At, Fetched, Deleting
      <4> QED
        BY <3>5, <3>6, <4>1
    <3>7. CASE LoadInbox(h)
      BY <3>6, <3>7, HandlerMoves DEF LoadInbox, Fetched, Deleting
    <3>8. CASE LoadExisting(h)
      BY <3>6, <3>8, HandlerMoves DEF LoadExisting, inboxGhosts, Fetched, Deleting
    <3>9. ASSUME NEW answer \in Recent, FetchFeed(h, answer)
          PROVE  DeletedInv'
      <4>1. run'[h].pc = "dismissed" /\ run'[h].feed = answer
        BY <3>9, HandlerMoves
      <4>2. /\ newest' = answer /\ feed' = feed
            /\ inbox' = inbox /\ dismissed' = dismissed /\ deleted' = deleted
        BY <3>9 DEF FetchFeed
      <4>3. answer.lo <= feed.lo /\ answer.hi <= newest'.hi
        BY <3>3, <4>2 DEF Recent
      <4>4. AnsweredFor(h)'
        BY <4>1, <4>2, <4>3 DEF AnsweredFor, HasFound, At, Deleting
      <4>5. \A a \in deleted : a >= feed.lo => DismissedBy(h, a)'
        BY <3>4, <4>1, <4>2 DEF DismissedBy, Deleting
      <4> QED
        BY <3>5, <4>2, <4>4, <4>5
    <3>10. CASE FetchFails(h)
      BY <3>6, <3>10, HandlerMoves DEF FetchFails, Fetched, Deleting
    <3>11. CASE LoadDismissed(h)
      <4>1. /\ run[h].pc = "dismissed" /\ run'[h].pc = "prune" /\ run'[h].feed = run[h].feed
            /\ run'[h].dismissed = dismissed
        BY <3>11, HandlerMoves
      <4>2. UNCHANGED <<feed, newest, inbox, dismissed, deleted>>
        BY <3>11 DEF LoadDismissed, inboxGhosts
      <4>3. AnsweredFor(h)'
        BY <3>2, <4>1, <4>2 DEF AnsweredFor, HasFound, At, Deleting, Fetched
      <4>4. \A a \in deleted : a >= feed.lo => DismissedBy(h, a)'
        BY <3>2, <4>1 DEF DismissedBy, Deleting, Fetched
      <4> QED
        BY <3>5, <4>2, <4>3, <4>4
    <3>12. CASE Prune(h)
      <4>1. /\ run[h].pc = "prune" /\ run'[h].pc = "persist" /\ run'[h].feed = run[h].feed
            /\ run'[h].dismissed = run[h].dismissed
        BY <3>12, HandlerMoves
      <4>2. /\ UNCHANGED <<feed, newest, inbox, deleted>>
            /\ dismissed' \in {dismissed, run[h].dismissed \cap In(run[h].feed)}
        BY <3>12 DEF Prune, StillLive, inboxGhosts
      <4>3. AnsweredFor(h)'
        BY <3>2, <4>1, <4>2 DEF AnsweredFor, HasFound, At, Deleting, Fetched
      <4>4. \A a \in deleted : a >= feed.lo => DismissedBy(h, a)'
        BY <3>2, <4>1 DEF DismissedBy, Deleting, Fetched
      <4>5. ASSUME NEW a \in deleted, a >= feed.lo
            PROVE  a \in dismissed'
        <5>1. a \in dismissed /\ a \in run[h].dismissed /\ a <= run[h].feed.hi
          BY <3>2, <4>1, <4>5 DEF DismissedBy, Fetched
        <5>2. run[h].feed.lo <= feed.lo
          BY <3>2, <4>1 DEF AnsweredFor, Fetched
        <5>3. run[h].feed.lo \in Int /\ run[h].feed.hi \in Int
          BY <4>1 DEF HandlerInv, Windows, Fetched
        <5>4. a \in In(run[h].feed)
          BY <3>3, <4>5, <5>1, <5>2, <5>3 DEF In
        <5> QED
          BY <4>2, <5>1, <5>4
      <4> QED
        BY <2>1, <3>1, <3>2, <3>4, <4>2, <4>3, <4>4, <4>5, DeletedKept
    <3>13. CASE PersistSynced(h)
      <4>1. run[h].pc = "persist" /\ run'[h].pc = "shown"
        BY <3>13, HandlerMoves
      <4>2. /\ UNCHANGED <<feed, newest, dismissed, deleted>>
            /\ inbox' = Synced(h, syncs') /\ syncs' \in 1..MaxSyncs
        BY <3>13 DEF PersistSynced, InboxTypeOK, InboxConstants
      <4>3. run[h].feed \in Windows
        BY <4>1 DEF HandlerInv, Fetched
      <4>4. AlertsOf(inbox') \subseteq In(run[h].feed) \ run[h].dismissed
        BY <4>2, <4>3, SyncedIsList DEF NewestOf
      <4>5. \A i \in inbox' : i.alert \in In(run[h].feed) \ run[h].dismissed
        BY <4>4 DEF AlertsOf
      <4>6. run[h].feed.hi <= newest.hi /\ run[h].feed.hi \in Int /\ run[h].feed.lo \in Int
        BY <3>2, <4>1, <4>3 DEF AnsweredFor, Fetched, Windows
      <4>7. \A i \in inbox' : i.alert <= newest'.hi
        BY <3>3, <4>2, <4>5, <4>6 DEF In
      <4>8. \A a \in deleted : a >= feed.lo => a \notin AlertsOf(inbox')
        BY <3>2, <4>1, <4>4 DEF DismissedBy
      <4>9. AnsweredFor(h)' /\ \A a : DismissedBy(h, a)'
        BY <4>1 DEF AnsweredFor, DismissedBy, HasFound, At, Fetched, Deleting
      <4> QED
        BY <2>1, <3>1, <3>2, <3>4, <4>2, <4>7, <4>8, <4>9, DeletedKept
    <3>14. CASE ShowSynced(h)
      BY <3>6, <3>14, HandlerMoves DEF ShowSynced, Fetched, Deleting
    <3>15. CASE MarkRead(h)
      <4>1. run'[h].pc = "marked" /\ run'[h].items = inbox
        BY <3>15, HandlerMoves
      <4>2. UNCHANGED <<feed, newest, inbox, dismissed, deleted>>
        BY <3>15 DEF MarkRead
      <4>3. AnsweredFor(h)'
        BY <3>4, <4>1, <4>2 DEF AnsweredFor, HasFound, At, Fetched
      <4>4. \A a \in deleted : a >= feed.lo => DismissedBy(h, a)'
        BY <3>2, <4>1, <4>2 DEF DismissedBy, Fetched
      <4> QED
        BY <3>5, <4>2, <4>3, <4>4
    <3>16. CASE PersistMarked(h)
      <4>1. run[h].pc = "marked" /\ run'[h].pc = "marked shown"
        BY <3>16, HandlerMoves
      <4>2. /\ UNCHANGED <<feed, newest, dismissed, deleted>>
            /\ inbox' = Marked(run[h].items, run[h].item)
        BY <3>16 DEF PersistMarked
      <4>3. AlertsOf(inbox') = AlertsOf(run[h].items)
        BY <4>2, MarkedIsList DEF HandlerInv, Runs
      <4>4. \A i \in inbox' : \E j \in run[h].items : j.alert = i.alert
        BY <4>3 DEF AlertsOf
      <4>5. \A i \in inbox' : i.alert <= newest'.hi
        BY <3>2, <4>1, <4>2, <4>4 DEF AnsweredFor
      <4>6. \A a \in deleted : a >= feed.lo => a \notin AlertsOf(inbox')
        BY <3>2, <4>1, <4>3 DEF DismissedBy
      <4>7. AnsweredFor(h)' /\ \A a : DismissedBy(h, a)'
        BY <4>1 DEF AnsweredFor, DismissedBy, HasFound, At, Fetched, Deleting
      <4> QED
        BY <2>1, <3>1, <3>2, <3>4, <4>2, <4>5, <4>6, <4>7, DeletedKept
    <3>17. CASE ShowMarked(h)
      BY <3>6, <3>17, HandlerMoves DEF ShowMarked, Fetched, Deleting
    <3>18. CASE Delete(h)
      <4>1. UNCHANGED <<feed, newest, inbox, dismissed, deleted>>
        BY <3>18 DEF Delete
      <4>2. AnsweredFor(h)'
        BY <3>4, <3>18, <4>1, DeleteMoves DEF AnsweredFor, HasFound, At, Fetched
      <4>3. \A a \in deleted : a >= feed.lo => DismissedBy(h, a)'
        BY <3>2, <3>18, <4>1, DeleteMoves DEF DismissedBy, Fetched
      <4> QED
        BY <3>5, <4>1, <4>2, <4>3
    <3>19. CASE LoadToDismiss(h)
      <4>1. /\ run[h].pc = "dismiss" /\ run'[h].pc = "dismissing"
            /\ run'[h].item = run[h].item /\ run'[h].items = run[h].items
            /\ run'[h].dismissed = dismissed \cup {run[h].item.alert}
        BY <3>19, HandlerMoves
      <4>2. UNCHANGED <<feed, newest, inbox, dismissed, deleted>>
        BY <3>19 DEF LoadToDismiss, inboxGhosts
      <4>3. AnsweredFor(h)'
        BY <3>2, <4>1, <4>2 DEF AnsweredFor, HasFound, At, Fetched, Deleting
      <4>4. \A a \in deleted : a >= feed.lo => DismissedBy(h, a)'
        BY <3>2, <4>1, <4>2 DEF DismissedBy, Fetched, Deleting
      <4> QED
        BY <3>5, <4>2, <4>3, <4>4
    <3>20. CASE PersistDismissed(h)
      <4>1. /\ run[h].pc = "dismissing" /\ run'[h].pc = "remove"
            /\ run'[h].item = run[h].item /\ run'[h].items = run[h].items
            /\ run'[h].dismissed = run[h].dismissed
        BY <3>20, HandlerMoves
      <4>2. UNCHANGED <<feed, newest, inbox, deleted>> /\ dismissed' = run[h].dismissed
        BY <3>20 DEF PersistDismissed, inboxGhosts
      <4>3. AnsweredFor(h)'
        BY <3>2, <4>1, <4>2 DEF AnsweredFor, HasFound, At, Fetched, Deleting
      <4>4. \A a \in deleted : a >= feed.lo => a \in dismissed' /\ DismissedBy(h, a)'
        BY <3>2, <4>1, <4>2 DEF DismissedBy, Fetched, Deleting
      <4> QED
        BY <2>1, <3>1, <3>2, <3>4, <4>2, <4>3, <4>4, DeletedKept
    <3>21. CASE PersistRemoved(h)
      <4> DEFINE a0 == run[h].item.alert
                 items == run[h].items
      <4>1. run[h].pc = "remove" /\ run'[h].pc = "removed"
        BY <3>21, HandlerMoves
      <4>2. /\ UNCHANGED <<feed, newest, dismissed>>
            /\ inbox' = Without(items, run[h].item)
            /\ deleted' = IF h \in alone /\ run[h].dismissed # {} THEN deleted \cup {a0} ELSE deleted
        BY <3>21 DEF PersistRemoved
      <4>3. inbox' \subseteq items
        BY <4>2 DEF Without
      <4>4. \A i \in inbox' : i.alert <= newest'.hi
        BY <3>2, <4>1, <4>2, <4>3 DEF AnsweredFor, Deleting
      <4>5. \A a \in deleted : a >= feed.lo => a \notin AlertsOf(inbox')
        BY <3>2, <4>1, <4>3 DEF DismissedBy, Deleting, AlertsOf
      <4>6. ASSUME h \in alone, run[h].dismissed # {}
            PROVE  a0 \in dismissed /\ a0 \notin AlertsOf(inbox') /\ a0 <= newest'.hi
        <5>1. HasFound(h) /\ At(h, "remove")
          BY <4>1, <4>6 DEF HasFound, At
        <5>2. PICK i \in items : SameId(run[h].item, i)
          BY <3>2, <5>1 DEF AnsweredFor
        <5>3. a0 \in dismissed
          BY <3>2, <4>6, <5>1 DEF AnsweredFor
        <5>4. a0 <= newest'.hi
          BY <3>2, <4>1, <4>2, <5>2 DEF AnsweredFor, Deleting, SameId
        <5>5. \A j \in items : j.alert = a0 => SameId(j, run[h].item)
          BY <5>2 DEF HandlerInv, IsList, SameId
        <5>6. a0 \notin AlertsOf(inbox')
          BY <4>2, <5>5 DEF Without, AlertsOf
        <5> QED
          BY <5>3, <5>4, <5>6
      <4>7. AnsweredFor(h)' /\ \A a : DismissedBy(h, a)'
        BY <4>1 DEF AnsweredFor, DismissedBy, HasFound, At, Fetched, Deleting
      <4>8. deleted' \subseteq deleted \/ Others(h) = {}
        BY <4>2 DEF HandlerInv
      <4>9. \A a \in deleted' : a >= feed.lo =>
              a \in dismissed' /\ a \notin AlertsOf(inbox') /\ a <= newest'.hi
        BY <3>2, <3>4, <4>2, <4>5, <4>6
      <4> QED
        BY <2>1, <3>1, <4>2, <4>4, <4>7, <4>8, <4>9, DeletedKept
    <3>22. CASE ShowRemoved(h)
      BY <3>6, <3>22, HandlerMoves DEF ShowRemoved, Fetched, Deleting
    <3> QED
      BY <1>3, <3>7, <3>8, <3>9, <3>10, <3>11, <3>12, <3>13, <3>14, <3>15, <3>16, <3>17, <3>18,
         <3>19, <3>20, <3>21, <3>22 DEF Handler
  <2> QED
    BY <2>2, <2>3
<1> QED
  BY <1>1, <1>2, <1>3 DEF InboxNext

(* Every step keeps the screen in line, where one handler runs alone.      *)
LEMMA ScreenStep ==
  ASSUME InboxTypeOK, HandlerInv, ScreenInv, InboxNext
  PROVE  ScreenInv'
<1>1. CASE Publish \/ AgeOut
  BY <1>1 DEF Publish, AgeOut, AppUnchanged, inboxGhosts, ScreenInv, ScreenFor, ScreenShowsStored, At
<1>2. CASE KillApp
  <2>1. screen' = {} /\ \A h \in Handlers : run'[h].pc = "idle"
    BY <1>2, RunTypes DEF KillApp
  <2> QED
    BY <2>1 DEF ScreenInv, ScreenFor, ScreenShowsStored, At, Syncing, Fetched, Deleting
<1>3. ASSUME NEW h \in Handlers, Handler(h)
      PROVE  ScreenInv'
  <2>1. CASE overlapped'
    BY <2>1 DEF ScreenInv
  <2>2. CASE ~overlapped'
    <3>1. ~overlapped /\ (run[h].pc = "idle" => Others(h) = {})
      <4>1. CASE LoadInbox(h) \/ MarkRead(h) \/ Delete(h)
        BY <2>2, <4>1 DEF LoadInbox, MarkRead, Delete, Start
      <4>2. CASE UNCHANGED overlapped /\ run[h].pc # "idle"
        BY <2>2, <4>2
      <4>3. \/ LoadInbox(h) \/ MarkRead(h) \/ Delete(h)
            \/ UNCHANGED overlapped /\ run[h].pc # "idle"
        BY <1>3, HandlerMoves DEF Handler, LoadExisting, FetchFails, FetchFeed, LoadDismissed,
           Prune, PersistSynced, ShowSynced, PersistMarked, ShowMarked, LoadToDismiss,
           PersistDismissed, PersistRemoved, ShowRemoved, inboxGhosts
      <4> QED
        BY <4>1, <4>2, <4>3
    <3>2. ScreenShowsStored /\ ScreenFor(h)
      BY <3>1 DEF ScreenInv
    <3>3. \A g \in Handlers : g # h => run'[g] = run[g] /\ run[g].pc = "idle"
      <4>1. \A g \in Handlers : g # h => run'[g] = run[g]
        BY <1>3, HandlerMoves
      <4>2. ASSUME NEW g \in Handlers, g # h
            PROVE  run[g].pc = "idle"
        BY <3>1, <4>2 DEF ScreenInv, Others, At
      <4> QED
        BY <4>1, <4>2
    <3>4. ASSUME ScreenFor(h)', run'[h].pc = "idle" => screen' \in {{}, inbox'}
          PROVE  ScreenInv'
      <4>1. \A g \in Handlers : g # h => run'[g].pc = "idle" /\ ScreenFor(g)'
        BY <3>3 DEF ScreenFor, At, Syncing, Fetched, Deleting
      <4>2. ScreenShowsStored'
        BY <3>4 DEF ScreenShowsStored, At
      <4> QED
        BY <3>4, <4>1, <4>2 DEF ScreenInv, At
    <3>5. run[h].pc = "idle" => screen \in {{}, inbox}
      BY <3>1, <3>2, <3>3 DEF ScreenShowsStored, At
    <3>6. CASE LoadInbox(h)
      <4>1. screen' = inbox /\ inbox' = inbox /\ run'[h].pc = "existing"
        BY <3>6, HandlerMoves DEF LoadInbox
      <4> QED
        BY <3>4, <4>1 DEF ScreenFor, At, Syncing, Fetched, Deleting
    <3>7. CASE LoadExisting(h)
      <4>1. /\ UNCHANGED <<screen, inbox>>
            /\ run[h].pc = "existing" /\ run'[h].pc = "fetch" /\ run'[h].items = inbox
        BY <3>7, HandlerMoves DEF LoadExisting
      <4> QED
        BY <3>2, <3>4, <4>1 DEF ScreenFor, At, Syncing, Fetched, Deleting
    <3>8. ASSUME UNCHANGED <<screen, inbox>>, run'[h].items = run[h].items,
                 \/ run[h].pc \in Syncing /\ run'[h].pc \in Syncing
                 \/ run[h].pc \in Deleting /\ run'[h].pc \in Deleting
          PROVE  ScreenInv'
      BY <3>2, <3>4, <3>8 DEF ScreenFor, At, Syncing, Fetched, Deleting
    <3>9. ASSUME NEW answer \in Recent, FetchFeed(h, answer)
          PROVE  ScreenInv'
      BY <3>8, <3>9, HandlerMoves DEF FetchFeed, Syncing, Fetched
    <3>10. CASE LoadDismissed(h)
      BY <3>8, <3>10, HandlerMoves DEF LoadDismissed, Syncing, Fetched
    <3>11. CASE Prune(h)
      BY <3>8, <3>11, HandlerMoves DEF Prune, Syncing, Fetched
    <3>12. CASE LoadToDismiss(h)
      BY <3>8, <3>12, HandlerMoves DEF LoadToDismiss, Deleting
    <3>13. CASE PersistDismissed(h)
      BY <3>8, <3>13, HandlerMoves DEF PersistDismissed, Deleting
    <3>14. ASSUME run'[h].pc = "idle", inbox' = inbox, screen' \in {{}, inbox}
           PROVE  ScreenInv'
      BY <3>4, <3>14 DEF ScreenFor, At, Syncing, Fetched, Deleting
    <3>15. CASE FetchFails(h)
      <4>1. /\ run[h].pc = "fetch" /\ run'[h].pc = "idle"
            /\ inbox' = inbox /\ screen' = run[h].items
        BY <3>15, HandlerMoves DEF FetchFails
      <4> QED
        BY <3>2, <3>14, <4>1 DEF ScreenFor, Syncing
    <3>16. CASE PersistSynced(h)
      <4>1. run'[h].pc = "shown" /\ run'[h].items = inbox'
        BY <3>16, HandlerMoves
      <4> QED
        BY <3>4, <4>1 DEF ScreenFor, At, Syncing, Fetched, Deleting
    <3>17. CASE ShowSynced(h)
      <4>1. /\ run[h].pc = "shown" /\ run'[h].pc = "idle"
            /\ inbox' = inbox /\ screen' = run[h].items
        BY <3>17, HandlerMoves DEF ShowSynced
      <4> QED
        BY <3>2, <3>14, <4>1 DEF ScreenFor
    <3>18. CASE MarkRead(h)
      <4>1. /\ run[h].pc = "idle" /\ run'[h].pc = "marked" /\ run'[h].items = inbox
            /\ UNCHANGED <<screen, inbox>>
        BY <3>18, HandlerMoves DEF MarkRead
      <4> QED
        BY <3>4, <3>5, <4>1 DEF ScreenFor, At, Syncing, Fetched, Deleting
    <3>19. CASE PersistMarked(h)
      <4>1. /\ run[h].pc = "marked" /\ run'[h].pc = "marked shown" /\ run'[h].item = run[h].item
            /\ screen' = screen /\ inbox' = Marked(run[h].items, run[h].item)
        BY <3>19, HandlerMoves DEF PersistMarked
      <4>2. run[h].items = inbox /\ screen \in {{}, inbox}
        BY <3>2, <4>1 DEF ScreenFor
      <4>3. Marked({}, run[h].item) = {}
        BY DEF Marked
      <4>4. Marked(screen, run[h].item) \in {{}, inbox'}
        BY <4>1, <4>2, <4>3
      <4>5. Marked(screen', run'[h].item) \in {{}, inbox'}
        BY <4>1, <4>4
      <4>6. ScreenFor(h)'
        BY <4>1, <4>5 DEF ScreenFor, At, Marked, Syncing, Fetched, Deleting
      <4> QED
        BY <3>4, <4>1, <4>6
    <3>20. CASE ShowMarked(h)
      <4>1. /\ run[h].pc = "marked shown" /\ run'[h].pc = "idle"
            /\ inbox' = inbox /\ screen' = Marked(screen, run[h].item)
        BY <3>20, HandlerMoves DEF ShowMarked
      <4> QED
        BY <3>2, <3>14, <4>1 DEF ScreenFor, At
    <3>21. CASE Delete(h)
      <4>1. UNCHANGED <<screen, inbox>>
        BY <3>21 DEF Delete
      <4> QED
        BY <3>4, <3>5, <3>21, <4>1, DeleteMoves DEF ScreenFor, At, Syncing, Fetched, Deleting
    <3>22. CASE PersistRemoved(h)
      <4>1. /\ run[h].pc = "remove" /\ run'[h].pc = "removed" /\ run'[h].item = run[h].item
            /\ screen' = screen /\ inbox' = Without(run[h].items, run[h].item)
        BY <3>22, HandlerMoves DEF PersistRemoved
      <4>2. run[h].items = inbox /\ screen \in {{}, inbox}
        BY <3>2, <4>1 DEF ScreenFor, Deleting
      <4>3. Without({}, run[h].item) = {}
        BY DEF Without
      <4>4. Without(screen, run[h].item) \in {{}, inbox'}
        BY <4>1, <4>2, <4>3
      <4>5. Without(screen', run'[h].item) \in {{}, inbox'}
        BY <4>1, <4>4
      <4>6. ScreenFor(h)'
        BY <4>1, <4>5 DEF ScreenFor, At, Without, Syncing, Fetched, Deleting
      <4> QED
        BY <3>4, <4>1, <4>6
    <3>23. CASE ShowRemoved(h)
      <4>1. /\ run[h].pc = "removed" /\ run'[h].pc = "idle"
            /\ inbox' = inbox /\ screen' = Without(screen, run[h].item)
        BY <3>23, HandlerMoves DEF ShowRemoved
      <4> QED
        BY <3>2, <3>14, <4>1 DEF ScreenFor, At
    <3> QED
      BY <1>3, <3>6, <3>7, <3>9, <3>10, <3>11, <3>12, <3>13, <3>15, <3>16, <3>17, <3>18, <3>19,
         <3>20, <3>21, <3>22, <3>23 DEF Handler
  <2> QED
    BY <2>1, <2>2
<1> QED
  BY <1>1, <1>2, <1>3 DEF InboxNext

(* The inductive invariant of the inbox holds in every state, however many *)
(* handlers overlap, with a feed answered in any order and kills anywhere. *)
THEOREM InboxInvariance == InboxSpec => []InboxInv
<1> USE InboxConstants
<1>1. InboxInit => InboxInv
  BY InboxStart
<1>2. InboxInv /\ [InboxNext]_inboxVars => InboxInv'
  <2>1. ASSUME InboxInv, InboxNext
        PROVE  InboxInv'
    <3>1. InboxTypeOK /\ HandlerInv /\ ReadInv /\ DeletedInv /\ ScreenInv
      BY <2>1 DEF InboxInv, InboxSafe
    <3>2. InboxTypeOK' /\ HandlerInv'
      BY <2>1, <3>1, InboxTypesKept
    <3>3. ReadInv' /\ DeletedInv' /\ ScreenInv'
      BY <2>1, <3>1, <3>2, ReadStep, DeletedStep, ScreenStep
    <3>4. (InboxSafe /\ DeletedStaysDeleted)'
      <4>1. ReadStaysRead'
        BY <3>3 DEF ReadInv, KeepsReads, ReadsMarked, ReadStaysRead
      <4>2. DeletedStaysDeleted'
        BY <3>3 DEF DeletedInv, StaysDeleted, DeletedStaysDeleted
      <4>3. ScreenShowsStored'
        BY <3>3 DEF ScreenInv, ScreenShowsStored
      <4> QED
        BY <3>2, <4>1, <4>2, <4>3 DEF InboxSafe
    <3> QED
      BY <3>2, <3>3, <3>4 DEF InboxInv
  <2>2. ASSUME InboxInv, UNCHANGED inboxVars
        PROVE  InboxInv'
    <3> USE <2>2 DEF InboxInv, InboxSafe, inboxVars, inboxGhosts
    <3>1. InboxTypeOK' /\ HandlerInv'
      BY DEF InboxTypeOK, HandlerInv, Others, At
    <3>2. ReadInv' /\ ReadStaysRead'
      BY DEF ReadInv, ReadBy, KeepsReads, ReadsMarked, ReadStaysRead
    <3>3. DeletedInv' /\ DeletedStaysDeleted'
      BY DEF DeletedInv, AnsweredInv, AnsweredFor, HasFound, At, StaysDeleted, DismissedBy,
             DeletedStaysDeleted
    <3>4. ScreenInv' /\ ScreenShowsStored'
      BY DEF ScreenInv, ScreenFor, ScreenShowsStored, At
    <3> QED
      BY <3>1, <3>2, <3>3, <3>4
  <2> QED
    BY <2>1, <2>2
<1> QED
  BY <1>1, <1>2, PTL DEF InboxSpec

(* The stored list keeps its read marks and its length, and the screen is  *)
(* in line with it, for any number of handlers and alerts                  *)
(* (notifications.ts, NotificationsScreen.tsx).                            *)
THEOREM InboxIsSafe == InboxSpec => []InboxSafe
<1>1. InboxInv => InboxSafe
  BY DEF InboxInv
<1> QED
  BY InboxInvariance, <1>1, PTL

(* A deleted alert does not come back while the server lists it, whatever  *)
(* handlers overlap and wherever the app is killed                         *)
(* (deleteNotification, syncFromRecentAlerts).                             *)
THEOREM DeletionHolds == InboxSpec => []DeletedStaysDeleted
<1>1. InboxInv => DeletedStaysDeleted
  BY DEF InboxInv
<1> QED
  BY InboxInvariance, <1>1, PTL

(***************************************************************************)
(* The settings.                                                           *)
(***************************************************************************)

(* Nothing is under way when the screen is first opened.                   *)
LEMMA SettingsStart == SettingsInit => SettingsInv
<1> SUFFICES ASSUME SettingsInit PROVE SettingsInv
  OBVIOUS
<1>1. \A s \in Slots : put[s] = NoPut
  BY DEF SettingsInit
<1>2. SettingsTypeOK
  <2>1. NoPut \in Puts
    BY DEF NoPut, Puts
  <2> QED
    BY <2>1 DEF SettingsInit, SettingsTypeOK, NoLoad
<1>3. CrossingInv
  BY <1>1 DEF SettingsInit, CrossingInv, LoadInv, UnderWay
<1> QED
  BY <1>2, <1>3 DEF SettingsInit, SettingsInv, SettingsSafe, ShownIsKept

(* Every PUT is of one of the two kinds, and typed.                        *)
LEMMA PutKinds ==
  ASSUME SettingsTypeOK, NEW s \in UnderWay
  PROVE  /\ s \in Slots
         /\ put[s].applied \in BOOLEAN
         /\ \/ put[s].kind = "category" /\ put[s].category \in Categories /\ put[s].on \in BOOLEAN
            \/ /\ put[s].kind = "lines"
               /\ put[s].next \in SUBSET Lines /\ put[s].prev \in SUBSET Lines
  BY DEF SettingsTypeOK, UnderWay, Puts, NoPut

(* The sets and requests a step assigns have their types.                  *)
LEMMA SettingsTypes ==
  /\ \A set \in SUBSET Categories, c \in Categories : \A b : With(set, c, b) \in SUBSET Categories
  /\ \A set \in SUBSET Lines, l \in Lines : \A b : With(set, l, b) \in SUBSET Lines
  /\ NoPut \in Puts
  /\ \A c \in Categories, b \in BOOLEAN : Toggled(c, b) \in Puts
  /\ \A next, prev \in SUBSET Lines : Selected(next, prev) \in Puts
  BY DEF With, NoPut, Toggled, Selected, Puts

(* Every step keeps the types of the settings.                             *)
LEMMA SettingsTypesKept ==
  ASSUME SettingsTypeOK, SettingsNext
  PROVE  SettingsTypeOK'
<1> USE SettingsTypes DEF SettingsTypeOK
<1> DEFINE L == [pc : {"none", "asking"}, off : SUBSET Categories, lines : SUBSET Lines,
                 asked : SUBSET {"categories", "lines"}]
<1>1. NoLoad \in L
  BY DEF NoLoad
<1>2. CASE LoadPreferences
  <2>1. [NoLoad EXCEPT !.pc = "asking", !.asked = {"categories", "lines"}] \in L
    BY DEF NoLoad
  <2> QED
    BY <1>2, <2>1 DEF LoadPreferences, table, shown
<1>3. CASE LoadFails
  BY <1>1, <1>3 DEF LoadFails, table, shown
<1>4. ASSUME NEW kind \in {"categories", "lines"}, Answered(kind)
      PROVE  SettingsTypeOK'
  <2> DEFINE got == IF kind = "lines" THEN [load EXCEPT !.lines = lines]
                                      ELSE [load EXCEPT !.off = off]
  <2>1. got \in L
    OBVIOUS
  <2>2. [got EXCEPT !.asked = @ \ {kind}] \in L
    BY <2>1
  <2>3. got.off \in SUBSET Categories /\ got.lines \in SUBSET Lines
    BY <2>1
  <2> HIDE DEF got
  <2>4. /\ shownOff' \in {shownOff, got.off} /\ shownLines' \in {shownLines, got.lines}
        /\ loaded' \in {loaded, TRUE}
        /\ load' \in {NoLoad, [got EXCEPT !.asked = @ \ {kind}]}
        /\ UNCHANGED <<off, lines, put, muddled>>
    BY <1>4 DEF Answered, got, shown, table
  <2>5. load' \in L
    <3> HIDE DEF L
    <3> QED
      BY <1>1, <2>2, <2>4
  <2>6. /\ shownOff' \in SUBSET Categories /\ shownLines' \in SUBSET Lines
        /\ loaded' \in BOOLEAN
    <3> HIDE DEF L
    <3> QED
      BY <2>3, <2>4
  <2> QED
    BY <2>4, <2>5, <2>6
<1>5. ASSUME NEW s \in Slots, Applied(s)
      PROVE  SettingsTypeOK'
  <2>1. s \in UnderWay
    BY <1>5 DEF Applied, UnderWay
  <2>2. [put[s] EXCEPT !.applied = TRUE] \in Puts
    <3>1. \/ put[s] \in [kind : {"category"}, category : Categories, on : BOOLEAN, applied : BOOLEAN]
          \/ put[s] \in [kind : {"lines"}, next : SUBSET Lines, prev : SUBSET Lines, applied : BOOLEAN]
      BY <2>1 DEF UnderWay, Puts, NoPut
    <3> QED
      BY <3>1 DEF Puts
  <2>3. put' = [put EXCEPT ![s] = [put[s] EXCEPT !.applied = TRUE]]
    BY <1>5 DEF Applied
  <2>4. off' \in SUBSET Categories /\ lines' \in SUBSET Lines
    BY <1>5, <2>1, PutKinds DEF Applied, Replaced
  <2> QED
    BY <1>5, <2>2, <2>3, <2>4 DEF Applied, shown
<1>6. ASSUME NEW s \in Slots, Succeeded(s)
      PROVE  SettingsTypeOK'
  BY <1>6 DEF Succeeded, table, shown
<1>7. ASSUME NEW s \in Slots, Failed(s)
      PROVE  SettingsTypeOK'
  <2>1. s \in UnderWay
    BY <1>7 DEF Failed, UnderWay
  <2>2. shownOff' \in SUBSET Categories /\ shownLines' \in SUBSET Lines
    BY <1>7, <2>1, PutKinds DEF Failed, Revert
  <2>3. muddled' \in BOOLEAN
    BY <1>7, <2>1, PutKinds DEF Failed
  <2> QED
    BY <1>7, <2>2, <2>3 DEF Failed, table
<1>8. ASSUME NEW s \in Slots, NEW c \in Categories, HandleToggle(s, c)
      PROVE  SettingsTypeOK'
  <2>1. (c \in shownOff) \in BOOLEAN
    OBVIOUS
  <2>2. Toggled(c, c \in shownOff) \in Puts
    BY <2>1
  <2> QED
    BY <1>8, <2>2 DEF HandleToggle, Tap, table
<1>9. ASSUME NEW s \in Slots, NEW next \in SUBSET Lines, SaveBusLines(s, next)
      PROVE  SettingsTypeOK'
  <2>1. Selected(next, shownLines) \in Puts
    OBVIOUS
  <2> QED
    BY <1>9, <2>1 DEF SaveBusLines, Tap, table
<1> QED
  BY <1>2, <1>3, <1>4, <1>5, <1>6, <1>7, <1>8, <1>9 DEF SettingsNext

(* What a step does to the PUTs under way.                                 *)
LEMMA UnderWayKept ==
  ASSUME SettingsTypeOK, NEW s \in Slots, NEW p, put' = [put EXCEPT ![s] = p]
  PROVE  UnderWay' = IF p = NoPut THEN UnderWay \ {s} ELSE UnderWay \cup {s}
  BY DEF SettingsTypeOK, UnderWay

(* Every step keeps what may cross, and what is shown.                     *)
LEMMA SettingsStep ==
  ASSUME SettingsInv, SettingsNext
  PROVE  (CrossingInv /\ ShownIsKept)'
<1> USE DEF SettingsInv, SettingsSafe
<1>1. SettingsTypeOK'
  BY SettingsTypesKept
<1>2. CASE LoadPreferences
  BY <1>2 DEF LoadPreferences, CrossingInv, LoadInv, ShownIsKept, UnderWay, table, shown, NoLoad
<1>3. CASE LoadFails
  BY <1>3 DEF LoadFails, CrossingInv, ShownIsKept
<1>4. ASSUME NEW kind \in {"categories", "lines"}, Answered(kind)
      PROVE  (CrossingInv /\ ShownIsKept)'
  <2>1. load # NoLoad
    BY <1>4 DEF Answered, NoLoad
  <2>2. UnderWay' = UnderWay
    BY <1>4 DEF Answered, UnderWay
  <2>3. CASE muddled
    BY <1>4, <2>3 DEF Answered, CrossingInv, ShownIsKept
  <2>4. CASE ~muddled
    <3>1. LoadInv /\ UnderWay = {}
      BY <2>1, <2>4 DEF CrossingInv, LoadInv
    <3>2. load.asked \subseteq {"categories", "lines"} /\ kind \in load.asked
      BY <1>4 DEF SettingsTypeOK, Answered
    <3> DEFINE got == IF kind = "lines" THEN [load EXCEPT !.lines = lines]
                                        ELSE [load EXCEPT !.off = off]
    <3>3. /\ got.asked = load.asked
          /\ got.off = IF kind = "lines" THEN load.off ELSE off
          /\ got.lines = IF kind = "lines" THEN lines ELSE load.lines
          /\ [got EXCEPT !.asked = @ \ {kind}].asked = load.asked \ {kind}
          /\ [got EXCEPT !.asked = @ \ {kind}].off = got.off
          /\ [got EXCEPT !.asked = @ \ {kind}].lines = got.lines
      BY DEF SettingsTypeOK
    <3>4. /\ "categories" \notin load.asked \ {kind} => got.off = off
          /\ "lines" \notin load.asked \ {kind} => got.lines = lines
      BY <3>1, <3>3, <2>1 DEF LoadInv
    <3> HIDE DEF got
    <3>5. UNCHANGED <<off, lines>>
      BY <1>4 DEF Answered, table
    <3>6. CASE load.asked = {kind}
      <4>1. shownOff' = got.off /\ shownLines' = got.lines /\ load' = NoLoad
        BY <1>4, <3>6 DEF Answered, got
      <4> QED
        BY <4>1, <2>2, <3>1, <3>4, <3>5, <3>6 DEF CrossingInv, LoadInv, ShownIsKept
    <3>7. CASE load.asked # {kind}
      <4>1. load' = [got EXCEPT !.asked = @ \ {kind}]
        BY <1>4, <3>7 DEF Answered, got
      <4>2. load'.asked # {}
        BY <4>1, <3>2, <3>3, <3>7
      <4>3. load' # NoLoad
        BY <4>2 DEF NoLoad
      <4>4. LoadInv'
        BY <4>1, <2>2, <3>1, <3>3, <3>4, <3>5 DEF LoadInv
      <4> QED
        BY <4>3, <4>4, <2>2, <3>1 DEF CrossingInv, ShownIsKept
    <3> QED
      BY <3>6, <3>7
  <2> QED
    BY <2>3, <2>4 DEF SettingsTypeOK
<1>5. ASSUME NEW s \in Slots, Applied(s)
      PROVE  (CrossingInv /\ ShownIsKept)'
  <2>1. s \in UnderWay
    BY <1>5 DEF Applied, UnderWay
  <2>2. UnderWay' = UnderWay
    <3>1. [put[s] EXCEPT !.applied = TRUE] # NoPut
      BY <2>1, PutKinds DEF NoPut
    <3>2. put' = [put EXCEPT ![s] = [put[s] EXCEPT !.applied = TRUE]]
      BY <1>5 DEF Applied
    <3>3. UnderWay' = UnderWay \cup {s}
      BY <3>1, <3>2, UnderWayKept DEF SettingsInv, SettingsSafe
    <3> QED
      BY <2>1, <3>3
  <2>3. CASE muddled
    BY <1>5, <2>3 DEF Applied, CrossingInv, ShownIsKept
  <2>4. CASE ~muddled
    <3>1. UnderWay = {s} /\ PutInv(s) /\ load = NoLoad
      BY <2>1, <2>4 DEF CrossingInv, LoadInv
    <3>2. /\ put'[s] = [put[s] EXCEPT !.applied = TRUE] /\ ~put[s].applied
          /\ UNCHANGED <<shownOff, shownLines, loaded, load, muddled>>
      BY <1>5 DEF Applied, shown, SettingsTypeOK
    <3>3. PutInv(s)'
      <4>1. CASE put[s].kind = "category"
        <5>1. /\ put'[s].kind = "category" /\ put'[s].category = put[s].category
              /\ put'[s].on = put[s].on /\ put'[s].applied
          BY <2>1, <3>2, <4>1, PutKinds
        <5>2. off' = With(off, put[s].category, ~put[s].on) /\ lines' = lines
          BY <1>5, <4>1 DEF Applied
        <5>3. /\ shownLines = lines
              /\ shownOff = With(off, put[s].category, ~put[s].on)
          BY <3>1, <4>1 DEF PutInv
        <5>4. With(off, put[s].category, ~put[s].on)
                = With(With(off, put[s].category, ~put[s].on), put[s].category, ~put[s].on)
          BY DEF With
        <5>5. put'[s].applied = TRUE /\ put'[s].on \in BOOLEAN
          BY <2>1, <3>2, <4>1, PutKinds
        <5>6. put'[s].category \in off' <=> put'[s].on # put'[s].applied
          BY <5>1, <5>2, <5>5 DEF With
        <5> QED
          BY <5>1, <5>2, <5>3, <5>4, <5>6, <3>2 DEF PutInv
      <4>2. CASE put[s].kind = "lines"
        <5>1. /\ put'[s].kind = "lines" /\ put'[s].next = put[s].next /\ put'[s].applied
          BY <2>1, <3>2, <4>2, PutKinds
        <5>2. lines' = put[s].next /\ off' = off
          BY <1>5, <4>2 DEF Applied, Replaced
        <5>3. shownOff = off /\ shownLines = put[s].next
          BY <3>1, <4>2 DEF PutInv
        <5> QED
          BY <5>1, <5>2, <5>3, <3>2 DEF PutInv
      <4> QED
        BY <2>1, <4>1, <4>2, PutKinds
    <3> QED
      BY <2>2, <3>1, <3>2, <3>3 DEF CrossingInv, LoadInv, ShownIsKept
  <2> QED
    BY <2>3, <2>4 DEF SettingsTypeOK
<1>6. ASSUME NEW s \in Slots, Succeeded(s)
      PROVE  (CrossingInv /\ ShownIsKept)'
  <2>1. s \in UnderWay
    BY <1>6 DEF Succeeded, UnderWay
  <2>2. UnderWay' = UnderWay \ {s}
    BY <1>6, UnderWayKept DEF Succeeded
  <2>3. CASE muddled
    BY <1>6, <2>3 DEF Succeeded, CrossingInv, ShownIsKept
  <2>4. CASE ~muddled
    <3>1. UnderWay = {s} /\ PutInv(s) /\ load = NoLoad
      BY <2>1, <2>4 DEF CrossingInv, LoadInv
    <3>2. shownOff = off /\ shownLines = lines
      <4>1. put[s].applied
        BY <1>6 DEF Succeeded
      <4>2. CASE put[s].kind = "category"
        BY <3>1, <4>1, <4>2, <2>1, PutKinds DEF PutInv, With
      <4>3. CASE put[s].kind = "lines"
        BY <3>1, <4>1, <4>3 DEF PutInv
      <4> QED
        BY <2>1, <4>2, <4>3, PutKinds
    <3> QED
      BY <1>6, <2>2, <3>1, <3>2 DEF Succeeded, CrossingInv, LoadInv, ShownIsKept, table, shown
  <2> QED
    BY <2>3, <2>4 DEF SettingsTypeOK
<1>7. ASSUME NEW s \in Slots, Failed(s)
      PROVE  (CrossingInv /\ ShownIsKept)'
  <2>1. s \in UnderWay
    BY <1>7 DEF Failed, UnderWay
  <2>2. UnderWay' = UnderWay \ {s}
    BY <1>7, UnderWayKept DEF Failed
  <2>3. CASE muddled \/ put[s].applied
    BY <1>7, <2>3 DEF Failed, CrossingInv, ShownIsKept
  <2>4. CASE ~muddled /\ ~put[s].applied
    <3>1. UnderWay = {s} /\ PutInv(s) /\ load = NoLoad
      BY <2>1, <2>4 DEF CrossingInv, LoadInv
    <3>2. UNCHANGED <<off, lines, load>>
      BY <1>7 DEF Failed, table
    <3>3. shownOff' = off /\ shownLines' = lines
      <4>1. Revert(s)
        BY <1>7 DEF Failed
      <4>2. CASE put[s].kind = "category"
        BY <3>1, <4>1, <4>2, <2>1, <2>4, PutKinds DEF PutInv, With, Revert
      <4>3. CASE put[s].kind = "lines"
        BY <3>1, <4>1, <4>3, <2>4 DEF PutInv, Revert
      <4> QED
        BY <2>1, <4>2, <4>3, PutKinds
    <3> QED
      BY <2>2, <3>1, <3>2, <3>3 DEF CrossingInv, LoadInv, ShownIsKept
  <2> QED
    BY <2>1, <2>3, <2>4, PutKinds DEF SettingsTypeOK
<1>8. ASSUME NEW s \in Slots, NEW p, p # NoPut, Tap(s, p), ~muddled',
             PutInv(s)'
      PROVE  (CrossingInv /\ ShownIsKept)'
  <2>1. UnderWay = {} /\ load' = NoLoad
    BY <1>8 DEF Tap
  <2>2. UnderWay' = {s}
    BY <1>8, <2>1, UnderWayKept DEF Tap
  <2> QED
    BY <1>8, <2>1, <2>2 DEF CrossingInv, LoadInv, ShownIsKept
<1>9. ASSUME NEW s \in Slots, NEW p, Tap(s, p), muddled'
      PROVE  (CrossingInv /\ ShownIsKept)'
  BY <1>9 DEF CrossingInv, ShownIsKept
<1>10. ASSUME NEW s \in Slots, NEW p, Tap(s, p), ~muddled'
       PROVE  /\ shownOff = off /\ shownLines = lines
              /\ put'[s] = p /\ UNCHANGED <<off, lines>>
  BY <1>10 DEF Tap, ShownIsKept, table, SettingsTypeOK
<1>11. ASSUME NEW s \in Slots, NEW c \in Categories, HandleToggle(s, c)
       PROVE  (CrossingInv /\ ShownIsKept)'
  <2> DEFINE p == Toggled(c, c \in shownOff)
  <2>1. Tap(s, p)
    BY <1>11 DEF HandleToggle
  <2>2. /\ p # NoPut /\ p.kind = "category" /\ p.category = c
        /\ p.applied = FALSE /\ (p.on <=> c \in shownOff)
    BY DEF Toggled, NoPut
  <2> HIDE DEF p
  <2>3. CASE ~muddled'
    <3>1. /\ shownOff = off /\ shownLines = lines
          /\ put'[s] = p /\ UNCHANGED <<off, lines>>
      BY <1>10, <2>1, <2>3
    <3>2. shownOff' = With(shownOff, c, c \notin shownOff) /\ shownLines' = shownLines
      BY <1>11 DEF HandleToggle
    <3>3. p.on \in BOOLEAN
      BY DEF p, Toggled
    <3>4. PutInv(s)'
      <4>1. shownOff' = With(off', put'[s].category, ~put'[s].on)
        BY <2>2, <3>1, <3>2 DEF With
      <4>2. put'[s].category \in off' <=> put'[s].on # put'[s].applied
        <5>1. /\ put'[s].category = c /\ put'[s].applied = FALSE
              /\ put'[s].on \in BOOLEAN /\ (put'[s].on <=> c \in off)
          BY <2>2, <3>1, <3>3
        <5>2. off' = off
          BY <3>1
        <5>3. CASE c \in off
          <6>1. put'[s].on = TRUE
            BY <5>1, <5>3
          <6> QED
            BY <5>1, <5>2, <5>3, <6>1
        <5>4. CASE c \notin off
          <6>1. put'[s].on = FALSE
            BY <5>1, <5>4
          <6> QED
            BY <5>1, <5>2, <5>4, <6>1
        <5> QED
          BY <5>3, <5>4
      <4> QED
        BY <2>2, <3>1, <3>2, <4>1, <4>2 DEF PutInv
    <3> QED
      BY <1>8, <2>1, <2>2, <2>3, <3>4
  <2> QED
    BY <1>9, <2>1, <2>3
<1>12. ASSUME NEW s \in Slots, NEW next \in SUBSET Lines, SaveBusLines(s, next)
       PROVE  (CrossingInv /\ ShownIsKept)'
  <2> DEFINE p == Selected(next, shownLines)
  <2>1. Tap(s, p)
    BY <1>12 DEF SaveBusLines
  <2>2. p # NoPut /\ p.kind = "lines" /\ p.next = next /\ p.prev = shownLines /\ p.applied = FALSE
    BY DEF Selected, NoPut
  <2> HIDE DEF p
  <2>3. CASE ~muddled'
    <3>1. /\ shownOff = off /\ shownLines = lines
          /\ put'[s] = p /\ UNCHANGED <<off, lines>>
      BY <1>10, <2>1, <2>3
    <3>2. shownLines' = next /\ shownOff' = shownOff
      BY <1>12 DEF SaveBusLines
    <3>3. PutInv(s)'
      BY <2>2, <3>1, <3>2 DEF PutInv
    <3> QED
      BY <1>8, <2>1, <2>2, <2>3, <3>3
  <2> QED
    BY <1>9, <2>1, <2>3
<1> QED
  BY <1>2, <1>3, <1>4, <1>5, <1>6, <1>7, <1>11, <1>12 DEF SettingsNext

(* While nothing crosses, the screen shows what the server keeps: the      *)
(* optimistic tap, the PUT that arrives when it likes, its answer or its   *)
(* failure, and the two GETs of a load (handleToggle, saveBusLines,        *)
(* loadPreferences).                                                       *)
THEOREM SettingsAreSafe == SettingsSpec => []SettingsSafe
<1>1. SettingsInv /\ [SettingsNext]_settingsVars => SettingsInv'
  <2>1. ASSUME SettingsInv, SettingsNext
        PROVE  SettingsInv'
    BY <2>1, SettingsStep, SettingsTypesKept DEF SettingsInv, SettingsSafe
  <2>2. ASSUME SettingsInv, UNCHANGED settingsVars
        PROVE  SettingsInv'
    BY <2>2 DEF SettingsInv, SettingsSafe, SettingsTypeOK, ShownIsKept, CrossingInv, LoadInv,
                PutInv, UnderWay, settingsVars, table, shown
  <2> QED
    BY <2>1, <2>2
<1>2. SettingsInv => SettingsSafe
  BY DEF SettingsInv
<1> QED
  BY SettingsStart, <1>1, <1>2, PTL DEF SettingsSpec

(***************************************************************************)
(* The server's table of sessions.                                         *)
(***************************************************************************)
(* The table starts empty, and no request is under way.                    *)
LEMMA TokensInitInv ==
  ASSUME RefreshTokensConstants, TokensInit
  PROVE  TokensInv
<1> USE DEF RefreshTokensConstants, TokensInit, Tokens, NoToken
<1>1. TokensTypeOK
  <2>1. /\ status \in [Tokens -> RowStates]
        /\ family_id \in [Tokens -> 0..MaxToken]
        /\ user_id \in [Tokens -> Accounts \cup {NoUser}]
        /\ basis \in [Tokens -> 0..MaxResets]
    BY DEF RowStates
  <2>2. req \in [Requests -> RequestStates]
    BY DEF NoRequest, RequestStates, RowStates
  <2>3. filled \in 0..MaxToken /\ password \in [Accounts -> 0..MaxResets] /\ cleared \in [Accounts -> 0..MaxResets]
    OBVIOUS
  <2> QED
    BY <2>1, <2>2, <2>3 DEF TokensTypeOK
<1>2. TableInv /\ OneLivePerFamily /\ NoOrphanSession
  BY DEF TableInv, OneLivePerFamily, NoOrphanSession, LiveOf, RotatingOf, ReqAt, NoRequest
<1> QED
  BY <1>1, <1>2 DEF TokensInv

(* ------------------------------- the types ------------------------------ *)

(* A new record in a slot of a well-typed request table.                   *)
LEMMA GoType ==
  ASSUME req \in [Requests -> RequestStates], NEW r \in Requests,
         NEW q \in RequestStates, Go(r, q)
  PROVE  req' \in [Requests -> RequestStates]
  BY DEF Go

LEMMA IdleType ==
  ASSUME RefreshTokensConstants
  PROVE  NoRequest \in RequestStates
  BY DEF RefreshTokensConstants, NoRequest, RequestStates, RowStates, NoToken

LEMMA DeleteType ==
  ASSUME status \in [Tokens -> RowStates], NEW S, DeleteRows(S)
  PROVE  status' \in [Tokens -> RowStates]
  BY DEF DeleteRows, RowStates

LEMMA InsertType ==
  ASSUME RefreshTokensConstants, TokensTypeOK, NEW r \in Requests, NEW fam \in 0..MaxToken,
         NEW step \in {"answer", "get_user"}, Insert(r, fam, step)
  PROVE  TokensTypeOK'
<1> USE DEF RefreshTokensConstants, TokensTypeOK
<1>1. req[r] \in RequestStates /\ NoRequest \in RequestStates
  BY IdleType
<1>2. CASE req[r].user \in exists
  <2> DEFINE t == filled + 1
  <2>1. t \in Tokens /\ t \in 0..MaxToken
    BY DEF Insert, Tokens
  <2>2. req' \in [Requests -> RequestStates]
    <3> DEFINE q == [NoRequest EXCEPT !.at = step, !.token = t, !.user = req[r].user]
    <3>1. q \in RequestStates
      BY <1>1, <2>1 DEF RequestStates, NoRequest, NoToken
    <3>2. Go(r, q)
      BY <1>2 DEF Insert
    <3> QED
      BY <3>1, <3>2, GoType
  <2>3. status' \in [Tokens -> RowStates] /\ filled' \in 0..MaxToken
    BY <1>2, <2>1 DEF Insert, RowStates
  <2>4. /\ family_id' \in [Tokens -> 0..MaxToken]
        /\ user_id' \in [Tokens -> Accounts \cup {NoUser}]
        /\ basis' \in [Tokens -> 0..MaxResets]
    BY <1>1, <1>2, <2>1 DEF Insert, RequestStates
  <2> QED
    BY <2>2, <2>3, <2>4 DEF Insert, accounts
<1>3. CASE req[r].user \notin exists
  <2>1. req' \in [Requests -> RequestStates]
    BY <1>1, <1>3, GoType DEF Insert, EndRequest
  <2> QED
    BY <1>3, <2>1 DEF Insert, tokenTable, accounts
<1> QED
  BY <1>2, <1>3

(* The record a request goes on with is well typed.                        *)
LEMMA StepRequestType ==
  ASSUME RefreshTokensConstants, TokensInv, NEW r \in Requests, Step(r),
         ~OpenSession(r), ~InsertReplacement(r)
  PROVE  req' \in [Requests -> RequestStates]
<1>1. req[r] \in RequestStates /\ NoRequest \in RequestStates /\ req \in [Requests -> RequestStates]
  BY IdleType DEF TokensTypeOK, TokensInv
<1>2. CASE Answer(r) \/ KillFamily(r) \/ RevokeAll(r) \/ Drop(r)
  BY <1>1, <1>2, GoType DEF Answer, KillFamily, RevokeAll, Drop, EndRequest
<1>3. ASSUME NEW u \in Accounts, VerifyPassword(r, u) \/ SetPassword(r, u)
      PROVE  req' \in [Requests -> RequestStates]
  <2>1. /\ [NoRequest EXCEPT !.at = "verified", !.user = u, !.basis = password[u]] \in RequestStates
        /\ [NoRequest EXCEPT !.at = "revoke", !.user = u] \in RequestStates
    BY <1>1 DEF NoRequest, RequestStates, TokensTypeOK, TokensInv
  <2> QED
    BY <1>1, <1>3, <2>1, GoType DEF VerifyPassword, SetPassword
<1>4. ASSUME NEW t \in Tokens, PresentToken(r, t)
      PROVE  req' \in [Requests -> RequestStates]
  <2> [NoRequest EXCEPT !.at = "claim", !.token = t] \in RequestStates
    <3> t \in 0..MaxToken /\ status[t] \in RowStates
      BY DEF Tokens, TokensInv, TokensTypeOK, RefreshTokensConstants
    <3> QED
      BY <1>1 DEF NoRequest, RequestStates
  <2> QED
    BY <1>1, <1>4, GoType DEF PresentToken
<1>5. CASE ClaimToken(r) \/ LookUpSpent(r)
  <2> DEFINE t == req[r].token
             ins == [NoRequest EXCEPT !.at = "insert", !.family = family_id[t],
                                 !.user = user_id[t], !.basis = basis[t]]
             rep == [req[r] EXCEPT !.at = "replay"]
             kil == [NoRequest EXCEPT !.at = "kill", !.family = family_id[t]]
  <2>1. t \in Tokens
    BY <1>5 DEF ClaimToken, LookUpSpent, TokensInv, TableInv
  <2>2. ins \in RequestStates /\ rep \in RequestStates /\ kil \in RequestStates
    BY <1>1, <2>1 DEF NoRequest, RequestStates, TokensInv, TokensTypeOK
  <2>3. Go(r, ins) \/ Go(r, rep) \/ Go(r, kil) \/ Go(r, NoRequest)
    BY <1>5 DEF ClaimToken, LookUpSpent, EndRequest
  <2> HIDE DEF ins, rep, kil
  <2> QED
    BY <1>1, <2>2, <2>3, GoType
<1>6. CASE ReadUser(r)
  <2> [req[r] EXCEPT !.at = "answer"] \in RequestStates
    BY <1>1 DEF RequestStates
  <2> QED
    BY <1>1, <1>6, GoType DEF ReadUser, EndRequest
<1> QED
  BY <1>2, <1>3, <1>4, <1>5, <1>6 DEF Step

LEMMA NextType ==
  ASSUME RefreshTokensConstants, TokensInv, TokensNext
  PROVE  TokensTypeOK'
<1> USE DEF tokenTable, accounts
<1>1. TokensTypeOK /\ TableInv
  BY DEF TokensInv
<1>2. ASSUME NEW r \in Requests, Step(r)
      PROVE  TokensTypeOK'
  <2>1. CASE OpenSession(r)
    BY <1>1, <2>1, InsertType DEF OpenSession, NoToken, RefreshTokensConstants
  <2>2. CASE InsertReplacement(r)
    <3> req[r].family \in 0..MaxToken
      BY <1>1 DEF TokensTypeOK, RequestStates
    <3> QED
      BY <1>1, <2>2, InsertType DEF InsertReplacement
  <2>3. CASE ~OpenSession(r) /\ ~InsertReplacement(r)
    <3>1. req' \in [Requests -> RequestStates]
      BY <1>2, <2>3, StepRequestType
    <3>2. status' \in [Tokens -> RowStates]
      <4>1. CASE KillFamily(r) \/ RevokeAll(r)
        BY <1>1, <4>1, DeleteType DEF KillFamily, RevokeAll, TokensTypeOK
      <4>2. CASE ClaimToken(r)
        BY <1>1, <4>2 DEF ClaimToken, TokensTypeOK, RowStates
      <4> QED
        BY <1>1, <1>2, <2>3, <4>1, <4>2 DEF Step, VerifyPassword, SetPassword, PresentToken,
           Answer, ReadUser, LookUpSpent, Drop, TokensTypeOK
    <3>3. held' \subseteq Tokens
      <4>1. CASE Answer(r)
        BY <1>1, <4>1 DEF Answer, TokensTypeOK, TableInv
      <4> QED
        BY <1>1, <1>2, <2>3, <4>1 DEF Step, VerifyPassword, SetPassword, PresentToken,
           ClaimToken, KillFamily, RevokeAll, ReadUser, LookUpSpent, Drop, TokensTypeOK
    <3>4. password' \in [Accounts -> 0..MaxResets] /\ cleared' \in [Accounts -> 0..MaxResets]
      <4>1. ASSUME NEW u \in Accounts, SetPassword(r, u)
            PROVE  password' \in [Accounts -> 0..MaxResets] /\ cleared' \in [Accounts -> 0..MaxResets]
        BY <1>1, <4>1 DEF SetPassword, TokensTypeOK, RefreshTokensConstants
      <4>2. CASE RevokeAll(r)
        BY <1>1, <4>2 DEF RevokeAll, TokensTypeOK
      <4> QED
        BY <1>1, <1>2, <2>3, <4>1, <4>2 DEF Step, VerifyPassword, PresentToken, Answer,
           ClaimToken, KillFamily, ReadUser, LookUpSpent, Drop, TokensTypeOK
    <3>5. UNCHANGED <<filled, family_id, user_id, basis, exists>>
      BY <1>2, <2>3 DEF Step, VerifyPassword, SetPassword, PresentToken, Answer, ClaimToken,
         ReadUser, LookUpSpent, KillFamily, RevokeAll, Drop
    <3> QED
      BY <1>1, <3>1, <3>2, <3>3, <3>4, <3>5 DEF TokensTypeOK
  <2> QED
    BY <2>1, <2>2, <2>3
<1>3. ASSUME NEW t \in Tokens, LogoutToken(t) \/ ExpireToken(t) \/ CleanUp(t)
      PROVE  TokensTypeOK'
  <2> status' \in [Tokens -> RowStates]
    BY <1>1, <1>3, DeleteType DEF LogoutToken, ExpireToken, CleanUp, TokensTypeOK, RowStates
  <2> QED
    BY <1>1, <1>3 DEF LogoutToken, ExpireToken, CleanUp, TokensTypeOK
<1>4. ASSUME NEW u \in Accounts, DeleteUser(u)
      PROVE  TokensTypeOK'
  <2> status' \in [Tokens -> RowStates]
    BY <1>1, <1>4, DeleteType DEF DeleteUser, TokensTypeOK
  <2> QED
    BY <1>1, <1>4 DEF DeleteUser, TokensTypeOK
<1> QED
  BY <1>2, <1>3, <1>4 DEF TokensNext

(* --------------------------- what a step does --------------------------- *)

(* Rotations under way are those of before, or fewer.                      *)
NoNewRotation ==
  \A q \in Requests : ReqAt(q, "insert")' =>
    ReqAt(q, "insert") /\ req'[q].family = req[q].family

(* Rows leave, and leave for good.                                         *)
Shrinks ==
  /\ UNCHANGED <<filled, family_id, user_id>>
  /\ \A t \in Tokens : \/ status'[t] = status[t]
                       \/ status[t] # "none" /\ status'[t] = "deleted"
                       \/ status[t] = "live" /\ status'[t] = "expired"
  /\ NoNewRotation

(* Request r turns the live token t into a rotation of its family.         *)
Claims(r, t) ==
  /\ status[t] = "live" /\ status' = [status EXCEPT ![t] = "spent"]
  /\ UNCHANGED <<filled, family_id, user_id, exists>>
  /\ ~ReqAt(r, "insert") /\ ReqAt(r, "insert")' /\ req'[r].family = family_id[t]
  /\ \A q \in Requests \ {r} : req'[q] = req[q]

(* Request r stores token next + 1, live, in family fam.                   *)
Stores(r, fam) ==
  /\ filled + 1 \in Tokens /\ filled' = filled + 1
  /\ status' = [status EXCEPT ![filled + 1] = "live"]
  /\ family_id' = [family_id EXCEPT ![filled + 1] = fam]
  /\ \E u \in exists : user_id' = [user_id EXCEPT ![filled + 1] = u]
  /\ exists' = exists
  /\ ~ReqAt(r, "insert")'
  /\ \A q \in Requests \ {r} : req'[q] = req[q]

(* A request that goes anywhere but to its insert adds no rotation.        *)
LEMMA QuietTokenStep ==
  ASSUME req \in [Requests -> RequestStates], NEW r \in Requests,
         NEW q, q.at # "insert", Go(r, q)
  PROVE  NoNewRotation
  BY DEF NoNewRotation, Go, ReqAt

LEMMA InsertStep ==
  ASSUME RefreshTokensConstants, TokensInv, NEW r \in Requests, NEW fam \in 0..MaxToken,
         NEW step \in {"answer", "get_user"}, Insert(r, fam, step)
  PROVE  /\ exists' = exists
         /\ \/ Shrinks
            \/ fam = NoToken /\ Stores(r, filled + 1)
            \/ fam # NoToken /\ Stores(r, fam)
<1>1. /\ req \in [Requests -> RequestStates] /\ filled \in Nat /\ MaxToken \in Nat
  BY DEF TokensInv, TokensTypeOK, RefreshTokensConstants
<1>2. CASE req[r].user \in exists
  <2>1. filled + 1 \in Tokens /\ filled' = filled + 1 /\ exists' = exists
    BY <1>1, <1>2 DEF Insert, Tokens, accounts
  <2>2. req'[r].at = step /\ \A q \in Requests \ {r} : req'[q] = req[q]
    BY <1>1, <1>2 DEF Insert, Go, NoRequest
  <2>3. status' = [status EXCEPT ![filled + 1] = "live"] /\ \E u \in exists : user_id' = [user_id EXCEPT ![filled + 1] = u]
    BY <1>2 DEF Insert
  <2>4. family_id' = [family_id EXCEPT ![filled + 1] = IF fam = NoToken THEN filled + 1 ELSE fam]
    BY <1>2 DEF Insert
  <2>5. CASE fam = NoToken
    BY <2>1, <2>2, <2>3, <2>4, <2>5 DEF Stores, ReqAt
  <2>6. CASE fam # NoToken
    BY <2>1, <2>2, <2>3, <2>4, <2>6 DEF Stores, ReqAt
  <2> QED
    BY <2>1, <2>5, <2>6
<1>3. CASE req[r].user \notin exists
  <2>1. req' = [req EXCEPT ![r] = NoRequest] /\ UNCHANGED <<filled, status, family_id, user_id, exists>>
    BY <1>3 DEF Insert, EndRequest, Go, tokenTable, accounts
  <2>2. NoNewRotation
    BY <1>1, <2>1 DEF NoNewRotation, ReqAt, NoRequest
  <2> QED
    BY <2>1, <2>2 DEF Shrinks
<1> QED
  BY <1>2, <1>3

LEMMA RequestStep ==
  ASSUME RefreshTokensConstants, TokensInv, NEW r \in Requests, Step(r)
  PROVE  /\ exists' = exists
         /\ \/ Shrinks
            \/ \E t \in Tokens : Claims(r, t)
            \/ Stores(r, filled + 1)
            \/ ReqAt(r, "insert") /\ Stores(r, req[r].family)
<1> USE DEF ReqAt
<1>1. /\ req[r] \in RequestStates /\ req \in [Requests -> RequestStates]
      /\ status \in [Tokens -> RowStates] /\ filled \in Nat /\ MaxToken \in Nat
  BY DEF TokensInv, TokensTypeOK, RefreshTokensConstants
<1>3. CASE OpenSession(r)
  BY <1>1, <1>3, InsertStep DEF OpenSession, NoToken
<1>4. CASE InsertReplacement(r)
  <2> req[r].family # NoToken /\ req[r].family \in 0..MaxToken
    BY <1>1, <1>4 DEF InsertReplacement, TokensInv, TableInv, NoToken, RequestStates
  <2> QED
    BY <1>4, InsertStep DEF InsertReplacement
<1>5. CASE KillFamily(r) \/ RevokeAll(r)
  BY <1>1, <1>5 DEF KillFamily, RevokeAll, DeleteRows, EndRequest, Go, NoRequest, Shrinks, NoNewRotation, accounts
<1>6. CASE ClaimToken(r)
  <2> DEFINE t == req[r].token
  <2>1. t \in Tokens
    BY <1>6 DEF ClaimToken, TokensInv, TableInv
  <2>2. CASE status[t] = "live"
    <3>1. Claims(r, t)
      <4> DEFINE ins == [NoRequest EXCEPT !.at = "insert", !.family = family_id[t],
                                     !.user = user_id[t], !.basis = basis[t]]
      <4>1. Go(r, ins) /\ status' = [status EXCEPT ![t] = "spent"]
        BY <1>6, <2>2 DEF ClaimToken, Claimable
      <4>2. ~ReqAt(r, "insert") /\ UNCHANGED <<filled, family_id, user_id, exists>>
        BY <1>6 DEF ClaimToken, accounts
      <4>3. ins.at = "insert" /\ ins.family = family_id[t]
        BY DEF NoRequest
      <4>4. req'[r] = ins /\ \A q \in Requests \ {r} : req'[q] = req[q]
        <5> HIDE DEF ins
        <5> QED
          BY <1>1, <4>1 DEF Go
      <4> HIDE DEF ins
      <4> QED
        BY <2>2, <4>1, <4>2, <4>3, <4>4 DEF Claims
    <3>2. exists' = exists
      BY <1>6 DEF ClaimToken, accounts
    <3> QED
      BY <2>1, <3>1, <3>2
  <2>3. CASE status[t] # "live"
    <3>1. /\ Go(r, [req[r] EXCEPT !.at = "replay"])
          /\ UNCHANGED <<filled, status, family_id, user_id, exists>>
      BY <1>6, <2>3 DEF ClaimToken, Claimable, accounts
    <3>2. [req[r] EXCEPT !.at = "replay"].at # "insert"
      BY <1>1 DEF RequestStates
    <3> QED
      BY <1>1, <3>1, <3>2, QuietTokenStep DEF Shrinks
  <2> QED
    BY <2>2, <2>3
<1>7. ASSUME NEW u \in Accounts, VerifyPassword(r, u) \/ SetPassword(r, u)
      PROVE  exists' = exists /\ Shrinks
  BY <1>1, <1>7 DEF VerifyPassword, SetPassword, Go, NoRequest, Shrinks, NoNewRotation, tokenTable, accounts
<1>8. ASSUME NEW t \in Tokens, PresentToken(r, t)
      PROVE  exists' = exists /\ Shrinks
  BY <1>1, <1>8 DEF PresentToken, Go, NoRequest, Shrinks, NoNewRotation, tokenTable, accounts
<1>9. CASE Answer(r) \/ ReadUser(r) \/ LookUpSpent(r) \/ Drop(r)
  <2> DEFINE kil == [NoRequest EXCEPT !.at = "kill", !.family = family_id[req[r].token]]
             ans == [req[r] EXCEPT !.at = "answer"]
  <2>1. kil.at # "insert" /\ ans.at # "insert" /\ NoRequest.at # "insert"
    BY <1>1 DEF RequestStates, NoRequest
  <2>2. UNCHANGED <<filled, status, family_id, user_id, exists>>
    BY <1>9 DEF Answer, ReadUser, LookUpSpent, Drop, tokenTable, accounts
  <2>3. Go(r, kil) \/ Go(r, ans) \/ Go(r, NoRequest)
    BY <1>9 DEF Answer, ReadUser, LookUpSpent, Drop, EndRequest
  <2> HIDE DEF kil, ans
  <2> QED
    BY <1>1, <2>1, <2>2, <2>3, QuietTokenStep DEF Shrinks
<1> QED
  BY <1>3, <1>4, <1>5, <1>6, <1>7, <1>8, <1>9 DEF Step

LEMMA OtherStep ==
  ASSUME TokensInv, NEW t \in Tokens, LogoutToken(t) \/ ExpireToken(t) \/ CleanUp(t)
  PROVE  Shrinks /\ exists' = exists
  BY DEF TokensInv, TokensTypeOK, LogoutToken, ExpireToken, CleanUp, DeleteRows, Shrinks, NoNewRotation, ReqAt, accounts

LEMMA DeleteUserStep ==
  ASSUME TokensInv, NEW u \in Accounts, DeleteUser(u)
  PROVE  Shrinks
  BY DEF TokensInv, TokensTypeOK, DeleteUser, DeleteRows, Shrinks, NoNewRotation, ReqAt

(* What a request carries was read from the table, in the next state too.  *)
LEMMA CarriedStep ==
  ASSUME RefreshTokensConstants, TokensInv, NEW r \in Requests, Step(r), filled' \in Nat, filled <= filled'
  PROVE  /\ ReqAt(r, "insert")' \/ ReqAt(r, "kill")' => req'[r].family \in 1..filled'
         /\ ReqAt(r, "claim")' \/ ReqAt(r, "replay")' \/ ReqAt(r, "answer")' \/ ReqAt(r, "get_user")' =>
              req'[r].token \in Tokens
<1> USE DEF ReqAt
<1>1. /\ req[r] \in RequestStates /\ req \in [Requests -> RequestStates]
      /\ status \in [Tokens -> RowStates] /\ filled \in Nat /\ MaxToken \in Nat
  BY DEF TokensInv, TokensTypeOK, RefreshTokensConstants
<1>2. ASSUME NEW fam, NEW step \in {"answer", "get_user"}, Insert(r, fam, step)
      PROVE  req'[r] = NoRequest \/ (req'[r].at = step /\ req'[r].token \in Tokens)
  <2>1. CASE req[r].user \in exists
    <3> filled + 1 \in Tokens
      BY <1>1, <1>2 DEF Insert, Tokens
    <3> QED
      <4> DEFINE q == [NoRequest EXCEPT !.at = step, !.token = filled + 1, !.user = req[r].user]
      <4>1. req' = [req EXCEPT ![r] = q]
        BY <1>2, <2>1 DEF Insert, Go
      <4>2. q.at = step /\ q.token = filled + 1
        BY DEF NoRequest
      <4> HIDE DEF q
      <4> QED
        BY <1>1, <4>1, <4>2
  <2>2. CASE req[r].user \notin exists
    BY <1>1, <1>2, <2>2 DEF Insert, Go, EndRequest
  <2> QED
    BY <2>1, <2>2
<1>3. CASE OpenSession(r) \/ InsertReplacement(r)
  BY <1>2, <1>3 DEF OpenSession, InsertReplacement, NoRequest
<1>4. CASE Answer(r) \/ KillFamily(r) \/ RevokeAll(r) \/ Drop(r)
  <2> req'[r] = NoRequest
    BY <1>1, <1>4 DEF Answer, KillFamily, RevokeAll, Drop, EndRequest, Go
  <2> QED
    BY DEF NoRequest
<1>5. CASE ClaimToken(r) \/ LookUpSpent(r)
  <2> DEFINE t == req[r].token
  <2>1. t \in Tokens
    BY <1>5 DEF ClaimToken, LookUpSpent, TokensInv, TableInv
  <2>2. CASE (ClaimToken(r) /\ status[t] = "live") \/ (LookUpSpent(r) /\ status[t] = "spent")
    <3>1. family_id[t] \in 1..filled'
      <4> family_id[t] \in 1..filled
        BY <2>1, <2>2 DEF TokensInv, TableInv
      <4> QED
        BY <1>1
    <3>2. req'[r].at \in {"insert", "kill"} /\ req'[r].family = family_id[t]
      <4> DEFINE ins == [NoRequest EXCEPT !.at = "insert", !.family = family_id[t],
                                     !.user = user_id[t], !.basis = basis[t]]
                 kil == [NoRequest EXCEPT !.at = "kill", !.family = family_id[t]]
      <4>1. Go(r, ins) \/ Go(r, kil)
        BY <2>2 DEF ClaimToken, Claimable, LookUpSpent
      <4>2. ins.at = "insert" /\ ins.family = family_id[t] /\ kil.at = "kill" /\ kil.family = family_id[t]
        BY DEF NoRequest
      <4> HIDE DEF ins, kil
      <4> QED
        BY <1>1, <4>1, <4>2 DEF Go
    <3> QED
      BY <3>1, <3>2
  <2>3. CASE (ClaimToken(r) /\ status[t] # "live") \/ (LookUpSpent(r) /\ status[t] # "spent")
    <3>1. req'[r] = NoRequest \/ (ClaimToken(r) /\ req'[r] = [req[r] EXCEPT !.at = "replay"])
      BY <1>1, <2>3 DEF ClaimToken, Claimable, LookUpSpent, Go, EndRequest
    <3> QED
      BY <1>1, <2>1, <3>1 DEF RequestStates, NoRequest
  <2> QED
    BY <1>5, <2>2, <2>3
<1>6. ASSUME NEW u \in Accounts, VerifyPassword(r, u) \/ SetPassword(r, u)
      PROVE  req'[r].at \in {"verified", "revoke"}
  BY <1>1, <1>6 DEF VerifyPassword, SetPassword, Go, NoRequest
<1>7. ASSUME NEW t \in Tokens, PresentToken(r, t)
      PROVE  req'[r].at = "claim" /\ req'[r].token \in Tokens
  BY <1>1, <1>7 DEF PresentToken, Go, NoRequest
<1>8. CASE ReadUser(r)
  <2>1. req[r].token \in Tokens
    BY <1>8 DEF ReadUser, TokensInv, TableInv
  <2>2. req'[r] = NoRequest \/ req'[r] = [req[r] EXCEPT !.at = "answer"]
    BY <1>1, <1>8 DEF ReadUser, Go, EndRequest
  <2> QED
    BY <1>1, <2>1, <2>2 DEF RequestStates, NoRequest
<1> QED
  BY <1>3, <1>4, <1>5, <1>6, <1>7, <1>8 DEF Step

(* ------------------------ the invariant is kept -------------------------- *)

RowsInv ==
  /\ \A t \in Tokens : status[t] = "none" <=> t > filled
  /\ \A t \in Tokens : status[t] # "none" => family_id[t] \in 1..filled

OverKept == \A f \in Tokens : Over(f) => Over(f)'

LEMMA ShrinksKeeps ==
  ASSUME RefreshTokensConstants, TokensInv, Shrinks
  PROVE  RowsInv' /\ OneLivePerFamily' /\ OverKept
<1>1. \A t \in Tokens : /\ status'[t] = "none" <=> status[t] = "none"
                        /\ status'[t] = "live" => status[t] = "live"
  BY DEF Shrinks
<1>2. RowsInv'
  BY <1>1 DEF Shrinks, RowsInv, TokensInv, TableInv
<1>3. \A f \in Tokens : LiveOf(f)' \subseteq LiveOf(f) /\ RotatingOf(f)' \subseteq RotatingOf(f)
  <2>1. \A f \in Tokens : LiveOf(f)' \subseteq LiveOf(f)
    BY <1>1 DEF LiveOf, Shrinks
  <2>2. \A f \in Tokens : RotatingOf(f)' \subseteq RotatingOf(f)
    BY DEF RotatingOf, Shrinks, NoNewRotation, ReqAt
  <2> QED
    BY <2>1, <2>2
<1>4. OneLivePerFamily'
  <2> OneLivePerFamily
    BY DEF TokensInv
  <2> QED
    BY <1>3, Zenon DEF OneLivePerFamily
<1>5. OverKept
  BY <1>3 DEF OverKept, Over, Shrinks
<1> QED
  BY <1>2, <1>4, <1>5

LEMMA ClaimsKeeps ==
  ASSUME RefreshTokensConstants, TokensInv, NEW r \in Requests, NEW t \in Tokens, Claims(r, t)
  PROVE  RowsInv' /\ OneLivePerFamily' /\ OverKept
<1>1. /\ status \in [Tokens -> RowStates] /\ status' = [status EXCEPT ![t] = "spent"]
      /\ family_id' = family_id /\ filled' = filled /\ status[t] = "live"
  BY DEF TokensInv, TokensTypeOK, Claims
<1>2. RowsInv'
  BY <1>1 DEF RowsInv, TokensInv, TableInv
<1>3. \A f \in Tokens : LiveOf(f)' = LiveOf(f) \ {t}
  BY <1>1 DEF LiveOf
<1>4. \A f \in Tokens : RotatingOf(f)' = IF f = family_id[t] THEN RotatingOf(f) \cup {r} ELSE RotatingOf(f)
  BY DEF RotatingOf, ReqAt, Claims
<1>5. t \in LiveOf(family_id[t])
  BY <1>1 DEF LiveOf
<1>6. ASSUME NEW f \in Tokens
      PROVE  /\ \A x, y \in LiveOf(f)' : x = y
             /\ \A q, p \in RotatingOf(f)' : q = p
             /\ LiveOf(f)' = {} \/ RotatingOf(f)' = {}
  <2>1. /\ \A x, y \in LiveOf(f) : x = y
        /\ \A q, p \in RotatingOf(f) : q = p
        /\ LiveOf(f) = {} \/ RotatingOf(f) = {}
    BY DEF TokensInv, OneLivePerFamily
  <2>2. CASE f = family_id[t]
    BY <1>3, <1>4, <1>5, <2>1, <2>2
  <2>3. CASE f # family_id[t]
    BY <1>3, <1>4, <2>1, <2>3
  <2> QED
    BY <2>2, <2>3
<1>7. OverKept
  BY <1>1, <1>3, <1>4, <1>5 DEF OverKept, Over
<1> QED
  BY <1>2, <1>6, <1>7 DEF OneLivePerFamily

LEMMA StoresKeeps ==
  ASSUME RefreshTokensConstants, TokensInv, NEW r \in Requests, NEW fam, Stores(r, fam),
         fam = filled + 1 \/ (ReqAt(r, "insert") /\ fam = req[r].family)
  PROVE  RowsInv' /\ OneLivePerFamily' /\ OverKept
<1> DEFINE new == filled + 1
<1>1. /\ filled \in Nat /\ MaxToken \in Nat /\ filled' = new /\ new \in Tokens
      /\ status \in [Tokens -> RowStates] /\ status' = [status EXCEPT ![new] = "live"]
      /\ family_id \in [Tokens -> 0..MaxToken] /\ family_id' = [family_id EXCEPT ![new] = fam]
  BY DEF TokensInv, TokensTypeOK, Stores, RefreshTokensConstants
<1>2. RowsInv
  BY DEF TokensInv, TableInv, RowsInv
<1>3. fam \in 1..new
  BY <1>1 DEF TokensInv, TableInv
<1>4. RowsInv'
  <2> DEFINE fresh == filled'
  <2>1. fresh = filled + 1 /\ fresh \in Tokens /\ 1..filled \subseteq 1..fresh
    BY <1>1
  <2>2. \A t \in Tokens : t \in Nat /\ (t > fresh <=> t > filled /\ t # fresh)
    BY <1>1, <2>1 DEF Tokens
  <2>3. \A t \in Tokens : /\ status'[t] = IF t = fresh THEN "live" ELSE status[t]
                          /\ family_id'[t] = IF t = fresh THEN fam ELSE family_id[t]
    BY <1>1
  <2>4. fam \in 1..fresh
    BY <1>1, <1>3
  <2> HIDE DEF fresh
  <2>5. ASSUME NEW t \in Tokens
        PROVE  /\ status'[t] = "none" <=> t > fresh
               /\ status'[t] # "none" => family_id'[t] \in 1..fresh
    <3>1. /\ status[t] = "none" <=> t > filled
          /\ status[t] # "none" => family_id[t] \in 1..filled
      BY <1>2 DEF RowsInv
    <3>2. CASE t = fresh
      BY <2>2, <2>3, <2>4, <3>2
    <3>3. CASE t # fresh
      BY <2>1, <2>2, <2>3, <3>1, <3>3
    <3> QED
      BY <3>2, <3>3
  <2> QED
    BY <2>5 DEF RowsInv, fresh
<1>5. \A f \in Tokens : LiveOf(f)' = IF f = fam THEN LiveOf(f) \cup {new} ELSE LiveOf(f)
  <2> status[new] = "none"
    BY <1>1, <1>2 DEF RowsInv
  <2> QED
    BY <1>1 DEF LiveOf
<1>6. \A f \in Tokens : RotatingOf(f)' = RotatingOf(f) \ {r}
  BY DEF RotatingOf, ReqAt, Stores
<1>7. \/ ReqAt(r, "insert") /\ fam = req[r].family /\ \A f \in Tokens : f = fam => r \in RotatingOf(f)
      \/ fam = new /\ \A f \in Tokens : f = fam => LiveOf(f) = {} /\ RotatingOf(f) = {}
  <2>1. CASE ReqAt(r, "insert") /\ fam = req[r].family
    BY <2>1 DEF RotatingOf
  <2>2. CASE fam = new
    <3>1. \A t \in Tokens : status[t] = "live" => family_id[t] # new
      BY <1>1, <1>2 DEF RowsInv
    <3>2. \A q \in Requests : ReqAt(q, "insert") => req[q].family # new
      BY <1>1 DEF TokensInv, TableInv
    <3> QED
      BY <2>2, <3>1, <3>2 DEF LiveOf, RotatingOf
  <2> QED
    BY <2>1, <2>2
<1>8. ASSUME NEW f \in Tokens
      PROVE  /\ \A x, y \in LiveOf(f)' : x = y
             /\ \A q, p \in RotatingOf(f)' : q = p
             /\ LiveOf(f)' = {} \/ RotatingOf(f)' = {}
  <2>1. /\ \A x, y \in LiveOf(f) : x = y
        /\ \A q, p \in RotatingOf(f) : q = p
        /\ LiveOf(f) = {} \/ RotatingOf(f) = {}
    BY DEF TokensInv, OneLivePerFamily
  <2>2. CASE f = fam
    <3> LiveOf(f) = {} /\ RotatingOf(f) \subseteq {r}
      BY <1>7, <2>1, <2>2
    <3> QED
      BY <1>5, <1>6, <2>2
  <2>3. CASE f # fam
    BY <1>5, <1>6, <2>1, <2>3
  <2> QED
    BY <2>2, <2>3
<1>9. OverKept
  <2> SUFFICES ASSUME NEW f \in Tokens, Over(f)
               PROVE  Over(f)'
    BY DEF OverKept
  <2>1. f # fam /\ f <= filled
    BY <1>1, <1>7 DEF Over, Tokens
  <2>2. LiveOf(f)' = {} /\ RotatingOf(f)' = {}
    BY <1>5, <1>6, <2>1 DEF Over
  <2>3. f <= filled'
    BY <1>1, <2>1 DEF Tokens
  <2> QED
    BY <2>2, <2>3 DEF Over
<1> QED
  BY <1>4, <1>8, <1>9 DEF OneLivePerFamily

LEMMA NoOrphanKept ==
  ASSUME RefreshTokensConstants, TokensInv, TokensNext
  PROVE  NoOrphanSession'
<1>1. NoOrphanSession /\ status \in [Tokens -> RowStates] /\ user_id \in [Tokens -> Accounts \cup {NoUser}]
  BY DEF TokensInv, TokensTypeOK
<1>2. ASSUME Shrinks, exists' = exists
      PROVE  NoOrphanSession'
  BY <1>1, <1>2 DEF NoOrphanSession, Shrinks
<1>3. ASSUME NEW r \in Requests, NEW t \in Tokens, Claims(r, t)
      PROVE  NoOrphanSession'
  BY <1>1, <1>3 DEF NoOrphanSession, Claims
<1>4. ASSUME NEW r \in Requests, NEW fam, Stores(r, fam)
      PROVE  NoOrphanSession'
  BY <1>1, <1>4 DEF NoOrphanSession, Stores
<1>5. ASSUME NEW r \in Requests, Step(r)
      PROVE  NoOrphanSession'
  BY <1>2, <1>3, <1>4, <1>5, RequestStep
<1>6. ASSUME NEW t \in Tokens, LogoutToken(t) \/ ExpireToken(t) \/ CleanUp(t)
      PROVE  NoOrphanSession'
  BY <1>2, <1>6, OtherStep
<1>7. ASSUME NEW u \in Accounts, DeleteUser(u)
      PROVE  NoOrphanSession'
  BY <1>1, <1>7 DEF NoOrphanSession, DeleteUser, DeleteRows
<1> QED
  BY <1>5, <1>6, <1>7 DEF TokensNext

LEMMA CarriedKept ==
  ASSUME RefreshTokensConstants, TokensInv, RowsInv', TokensNext, filled' \in Nat
  PROVE  TableInv'
<1> DEFINE Carried(r) ==
      /\ ReqAt(r, "insert") \/ ReqAt(r, "kill") => req[r].family \in 1..filled
      /\ ReqAt(r, "claim") \/ ReqAt(r, "replay") \/ ReqAt(r, "answer") \/ ReqAt(r, "get_user") =>
           req[r].token \in Tokens
<1>1. \A r \in Requests : Carried(r)
  BY DEF TokensInv, TableInv
<1>2. filled \in Nat /\ filled <= filled'
  <2>1. filled \in Nat
    BY DEF TokensInv, TokensTypeOK, RefreshTokensConstants
  <2>2. ASSUME NEW r \in Requests, Step(r)
        PROVE  filled' = filled \/ filled' = filled + 1
    BY <2>2, RequestStep DEF Shrinks, Claims, Stores
  <2>3. ASSUME NEW t \in Tokens, LogoutToken(t) \/ ExpireToken(t) \/ CleanUp(t)
        PROVE  filled' = filled
    BY <2>3 DEF LogoutToken, ExpireToken, CleanUp
  <2>4. ASSUME NEW u \in Accounts, DeleteUser(u)
        PROVE  filled' = filled
    BY <2>4 DEF DeleteUser
  <2> QED
    BY <2>1, <2>2, <2>3, <2>4 DEF TokensNext
<1>3. ASSUME NEW q \in Requests, req'[q] = req[q]
      PROVE  Carried(q)'
  BY <1>1, <1>2, <1>3 DEF ReqAt
<1>4. \A q \in Requests : Carried(q)'
  <2>1. ASSUME NEW r \in Requests, Step(r)
        PROVE  \A q \in Requests : Carried(q)'
    <3>1. Carried(r)'
      BY <1>2, <2>1, CarriedStep
    <3>2. \A q \in Requests \ {r} : req'[q] = req[q]
      BY <2>1 DEF Step, VerifyPassword, SetPassword, PresentToken, OpenSession, Answer,
         ClaimToken, InsertReplacement, Insert, ReadUser, LookUpSpent, KillFamily,
         RevokeAll, Drop, EndRequest, Go, TokensInv, TokensTypeOK
    <3> QED
      BY <1>3, <3>1, <3>2
  <2>2. ASSUME NEW t \in Tokens, LogoutToken(t) \/ ExpireToken(t) \/ CleanUp(t)
        PROVE  req' = req
    BY <2>2 DEF LogoutToken, ExpireToken, CleanUp
  <2>3. ASSUME NEW u \in Accounts, DeleteUser(u)
        PROVE  req' = req
    BY <2>3 DEF DeleteUser
  <2> QED
    BY <1>3, <2>1, <2>2, <2>3 DEF TokensNext
<1> QED
  BY <1>4 DEF TableInv, RowsInv

LEMMA NextKeeps ==
  ASSUME RefreshTokensConstants, TokensInv, TokensNext
  PROVE  RowsInv' /\ OneLivePerFamily' /\ OverKept
<1>1. ASSUME NEW r \in Requests, Step(r)
      PROVE  RowsInv' /\ OneLivePerFamily' /\ OverKept
  BY <1>1, RequestStep, ShrinksKeeps, ClaimsKeeps, StoresKeeps
<1>2. ASSUME NEW t \in Tokens, LogoutToken(t) \/ ExpireToken(t) \/ CleanUp(t)
      PROVE  RowsInv' /\ OneLivePerFamily' /\ OverKept
  BY <1>2, OtherStep, ShrinksKeeps
<1>3. ASSUME NEW u \in Accounts, DeleteUser(u)
      PROVE  RowsInv' /\ OneLivePerFamily' /\ OverKept
  BY <1>3, DeleteUserStep, ShrinksKeeps
<1> QED
  BY <1>1, <1>2, <1>3 DEF TokensNext

LEMMA StepIInv ==
  ASSUME RefreshTokensConstants, TokensInv, [TokensNext]_tokenVars
  PROVE  TokensInv' /\ OverKept
<1>1. CASE TokensNext
  <2>1. TokensTypeOK' /\ RowsInv' /\ OneLivePerFamily' /\ NoOrphanSession' /\ OverKept
    BY <1>1, NextType, NextKeeps, NoOrphanKept
  <2>2. filled' \in Nat
    BY <2>1 DEF TokensTypeOK, RefreshTokensConstants
  <2> QED
    BY <1>1, <2>1, <2>2, CarriedKept DEF TokensInv
<1>2. CASE UNCHANGED tokenVars
  BY <1>2 DEF tokenVars, tokenTable, accounts, TokensInv, TokensTypeOK, TableInv, OneLivePerFamily,
     NoOrphanSession, LiveOf, RotatingOf, ReqAt, OverKept, Over
<1> QED
  BY <1>1, <1>2

(* The inductive invariant, of every reachable state.                      *)
THEOREM TokensInvariance ==
  ASSUME RefreshTokensConstants
  PROVE  TokensSpec => []TokensInv
<1>1. TokensInit => TokensInv
  BY TokensInitInv
<1>2. TokensInv /\ [TokensNext]_tokenVars => TokensInv'
  BY StepIInv
<1> QED
  BY <1>1, <1>2, PTL DEF TokensSpec

(* The table and the requests in flight keep their types                   *)
(* (migrations/0007, core/refresh-tokens.ts).                              *)
THEOREM TypeCorrect ==
  ASSUME RefreshTokensConstants
  PROVE  TokensSpec => []TokensTypeOK
<1>1. TokensInv => TokensTypeOK
  BY DEF TokensInv
<1> QED
  BY <1>1, TokensInvariance, PTL

(* However many refreshes race, a family has at most one live token or one *)
(* rotation under way (claimRefreshToken, rotateRefreshToken).             *)
THEOREM OneLiveToken ==
  ASSUME RefreshTokensConstants
  PROVE  TokensSpec => []OneLivePerFamily
<1>1. TokensInv => OneLivePerFamily
  BY DEF TokensInv
<1> QED
  BY <1>1, TokensInvariance, PTL

(* No session outlives its account, whatever was under way when it was     *)
(* deleted (DELETE /me and the cascade of migrations/0007).                *)
THEOREM ErasureComplete ==
  ASSUME RefreshTokensConstants
  PROVE  TokensSpec => []NoOrphanSession
<1>1. TokensInv => NoOrphanSession
  BY DEF TokensInv
<1> QED
  BY <1>1, TokensInvariance, PTL

(* A session that is over is never brought back (claimRefreshToken,        *)
(* deleteRefreshFamily, the clean-up).                                     *)
THEOREM OverForGood ==
  ASSUME RefreshTokensConstants
  PROVE  TokensSpec => OverIsOver
<1>1. TokensInv /\ [TokensNext]_tokenVars => [\A f \in Tokens : Over(f) => Over(f)']_tokenVars
  BY StepIInv DEF OverKept
<1> QED
  BY <1>1, TokensInvariance, PTL DEF TokensSpec, OverIsOver

(* ---------------------- a reset ends the old sessions ------------------- *)

(* No row becomes usable, and what was under way goes on or ends.          *)
LEMMA ResetQuiet ==
  ASSUME TokensInv, ResetInv, NEW r \in Requests, NEW q, Go(r, q),
         q.at \notin {"verified", "insert"},
         \A t \in Tokens : status'[t] = "live" => status[t] = "live",
         UNCHANGED <<user_id, basis, cleared>>, \A u \in Accounts : password'[u] >= password[u],
         password' \in [Accounts -> Nat], MaxResets \in Nat
  PROVE  ResetInv'
<1>1. ResetEndsOldSessions'
  BY DEF ResetInv, ResetEndsOldSessions
<1>2. \A s \in Requests : req'[s] = req[s] \/ req'[s] = q
  BY DEF Go, TokensInv, TokensTypeOK
<1>3. \A u \in Accounts : cleared'[u] <= password'[u]
  BY DEF ResetInv, TokensInv, TokensTypeOK
<1> QED
  BY <1>1, <1>2, <1>3 DEF ResetInv

LEMMA ResetInsert ==
  ASSUME RefreshTokensConstants, TokensInv, ResetInv, NEW r \in Requests, NEW fam,
         NEW step \in {"answer", "get_user"}, Insert(r, fam, step),
         req[r].at \in {"verified", "insert"}
  PROVE  ResetInv'
<1> DEFINE q == [NoRequest EXCEPT !.at = step, !.token = filled + 1, !.user = req[r].user]
<1>1. /\ \A s \in Requests : req'[s] = req[s] \/ req'[s].at \notin {"verified", "insert"}
      /\ UNCHANGED <<cleared, password>>
  <2>1. q.at \notin {"verified", "insert"} /\ NoRequest.at \notin {"verified", "insert"}
    BY DEF NoRequest
  <2>2. Go(r, q) \/ Go(r, NoRequest)
    BY DEF Insert, EndRequest
  <2>3. UNCHANGED <<cleared, password>> /\ req \in [Requests -> RequestStates]
    BY DEF Insert, accounts, TokensInv, TokensTypeOK
  <2> HIDE DEF q
  <2> QED
    BY <2>1, <2>2, <2>3 DEF Go
<1>2. ResetEndsOldSessions'
  <2>1. CASE req[r].user \in exists
    <3>1. /\ basis' = [basis EXCEPT ![filled + 1] = req[r].basis]
          /\ user_id' = [user_id EXCEPT ![filled + 1] = req[r].user]
          /\ status' = [status EXCEPT ![filled + 1] = "live"]
      BY <2>1 DEF Insert
    <3> QED
      BY <1>1, <3>1 DEF ResetInv, ResetEndsOldSessions, TokensInv, TokensTypeOK
  <2>2. CASE req[r].user \notin exists
    BY <1>1, <2>2 DEF Insert, tokenTable, ResetInv, ResetEndsOldSessions
  <2> QED
    BY <2>1, <2>2
<1> QED
  BY <1>1, <1>2 DEF ResetInv

LEMMA ResetRequest ==
  ASSUME RefreshTokensConstants, TokensInv, ResetInv, NEW r \in Requests, Step(r)
  PROVE  ResetInv'
<1> USE DEF RefreshTokensConstants, tokenTable, accounts
<1>1. /\ req[r] \in RequestStates /\ NoRequest \in RequestStates /\ req \in [Requests -> RequestStates]
      /\ password \in [Accounts -> Nat] /\ cleared \in [Accounts -> Nat] /\ basis \in [Tokens -> Nat]
      /\ status \in [Tokens -> RowStates] /\ MaxResets \in Nat
  BY IdleType DEF TokensInv, TokensTypeOK
<1>2. ASSUME NEW u \in Accounts, VerifyPassword(r, u)
      PROVE  ResetInv'
  <2>1. \A s \in Requests : req'[s] = req[s] \/ (req'[s].user = u /\ req'[s].basis = password[u])
    BY <1>1, <1>2 DEF VerifyPassword, Go, NoRequest
  <2> QED
    BY <1>1, <1>2, <2>1 DEF VerifyPassword, ResetInv, ResetEndsOldSessions
<1>3. ASSUME NEW u \in Accounts, SetPassword(r, u)
      PROVE  ResetInv'
  <2> DEFINE q == [NoRequest EXCEPT !.at = "revoke", !.user = u]
  <2>1. q.at \notin {"verified", "insert"}
    BY DEF NoRequest
  <2>2. password' \in [Accounts -> Nat] /\ \A v \in Accounts : password'[v] >= password[v]
    BY <1>1, <1>3 DEF SetPassword
  <2> QED
    BY <1>1, <1>3, <2>1, <2>2, ResetQuiet DEF SetPassword
<1>4. ASSUME NEW t \in Tokens, PresentToken(r, t)
      PROVE  ResetInv'
  <2> DEFINE q == [NoRequest EXCEPT !.at = "claim", !.token = t]
  <2>1. q.at \notin {"verified", "insert"}
    BY DEF NoRequest
  <2>2. Go(r, q) /\ UNCHANGED <<status, user_id, basis, cleared, password>>
    BY <1>4 DEF PresentToken
  <2> HIDE DEF q
  <2> QED
    BY <1>1, <2>1, <2>2, ResetQuiet
<1>5. CASE OpenSession(r)
  BY <1>5, ResetInsert DEF OpenSession, ReqAt
<1>6. CASE InsertReplacement(r)
  BY <1>6, ResetInsert DEF InsertReplacement, ReqAt
<1>7. CASE ClaimToken(r)
  <2> DEFINE t == req[r].token
             ins == [NoRequest EXCEPT !.at = "insert", !.family = family_id[t],
                                 !.user = user_id[t], !.basis = basis[t]]
             rep == [req[r] EXCEPT !.at = "replay"]
  <2>1. t \in Tokens
    BY <1>7 DEF ClaimToken, TokensInv, TableInv
  <2>2. CASE status[t] = "live"
    <3>1. user_id[t] \in Accounts /\ basis[t] >= cleared[user_id[t]]
      BY <2>1, <2>2 DEF TokensInv, TokensTypeOK, NoOrphanSession, ResetInv, ResetEndsOldSessions
    <3>2. Go(r, ins) /\ status' = [status EXCEPT ![t] = "spent"]
      BY <1>7, <2>2 DEF ClaimToken, Claimable
    <3>3. ins.user = user_id[t] /\ ins.basis = basis[t]
      BY DEF NoRequest
    <3>4. \A s \in Requests : req'[s] = req[s] \/ (req'[s].user = user_id[t] /\ req'[s].basis = basis[t])
      <4> HIDE DEF ins
      <4> QED
        BY <1>1, <3>2, <3>3 DEF Go
    <3>5. \A x \in Tokens : status'[x] = "live" => status[x] = "live"
      BY <1>1, <3>2
    <3> QED
      BY <1>7, <3>1, <3>4, <3>5 DEF ClaimToken, ResetInv, ResetEndsOldSessions
  <2>3. CASE status[t] # "live"
    <3>1. Go(r, rep) /\ UNCHANGED status /\ rep.at = "replay"
      BY <1>1, <1>7, <2>3 DEF ClaimToken, Claimable, RequestStates
    <3> HIDE DEF rep
    <3> QED
      BY <1>1, <1>7, <3>1, ResetQuiet DEF ClaimToken
  <2> QED
    BY <2>2, <2>3
<1>8. CASE RevokeAll(r)
  <2> DEFINE u == req[r].user
  <2>1. /\ \A s \in Requests : req'[s] = req[s] \/ req'[s] = NoRequest
        /\ \A t \in Tokens : status'[t] = "live" => status[t] = "live" /\ user_id[t] # u
        /\ UNCHANGED <<user_id, basis, password>>
    BY <1>1, <1>8 DEF RevokeAll, EndRequest, Go, DeleteRows
  <2>2. NoRequest.at \notin {"verified", "insert"}
    BY DEF NoRequest
  <2>3. CASE Issuing(u)
    BY <1>8, <2>1, <2>2, <2>3 DEF RevokeAll, ResetInv, ResetEndsOldSessions
  <2>4. CASE ~Issuing(u)
    <3>1. cleared' = [cleared EXCEPT ![u] = password[u]]
      BY <1>8, <2>4 DEF RevokeAll
    <3>2. ResetEndsOldSessions'
      BY <1>1, <2>1, <3>1 DEF ResetInv, ResetEndsOldSessions, TokensInv, NoOrphanSession, TokensTypeOK
    <3>3. \A v \in Accounts : cleared'[v] <= password'[v]
      BY <1>1, <2>1, <3>1 DEF ResetInv
    <3>4. \A s \in Requests : req'[s].at \in {"verified", "insert"} =>
            req'[s] = req[s] /\ req[s].user \in Accounts /\ req[s].user # u
      BY <2>1, <2>2, <2>4 DEF Issuing, ResetInv
    <3>5. \A s \in Requests : req'[s].at \in {"verified", "insert"} =>
            req'[s].user \in Accounts /\ req'[s].basis >= cleared'[req'[s].user]
      BY <1>1, <3>1, <3>4 DEF ResetInv
    <3> QED
      BY <3>2, <3>3, <3>5 DEF ResetInv
  <2> QED
    BY <2>3, <2>4
<1>9. CASE Answer(r) \/ ReadUser(r) \/ LookUpSpent(r) \/ KillFamily(r) \/ Drop(r)
  <2> DEFINE kil == [NoRequest EXCEPT !.at = "kill", !.family = family_id[req[r].token]]
             ans == [req[r] EXCEPT !.at = "answer"]
  <2>1. /\ kil.at \notin {"verified", "insert"} /\ ans.at \notin {"verified", "insert"}
        /\ NoRequest.at \notin {"verified", "insert"}
    BY <1>1 DEF RequestStates, NoRequest
  <2>2. Go(r, NoRequest) \/ Go(r, kil) \/ Go(r, ans)
    BY <1>9 DEF Answer, ReadUser, LookUpSpent, KillFamily, Drop, EndRequest
  <2>3. \A t \in Tokens : status'[t] = "live" => status[t] = "live"
    BY <1>9 DEF Answer, ReadUser, LookUpSpent, KillFamily, Drop, DeleteRows
  <2>4. UNCHANGED <<user_id, basis, cleared, password>>
    BY <1>9 DEF Answer, ReadUser, LookUpSpent, KillFamily, Drop
  <2> HIDE DEF kil, ans
  <2> QED
    BY <1>1, <2>1, <2>2, <2>3, <2>4, ResetQuiet
<1> QED
  BY <1>2, <1>3, <1>4, <1>5, <1>6, <1>7, <1>8, <1>9 DEF Step

(* A reset that finds nothing of the account under way ends every session  *)
(* an older password opened, for good (revokeAllRefreshTokens).            *)
THEOREM ResetSound ==
  ASSUME RefreshTokensConstants
  PROVE  TokensSpec => []ResetEndsOldSessions
<1>1. TokensInit => ResetInv
  BY DEF TokensInit, ResetInv, ResetEndsOldSessions, NoRequest, Tokens
<1>2. TokensInv /\ ResetInv /\ [TokensNext]_tokenVars => ResetInv'
  <2> SUFFICES ASSUME TokensInv, ResetInv, [TokensNext]_tokenVars
               PROVE  ResetInv'
    OBVIOUS
  <2>1. ASSUME NEW r \in Requests, Step(r)
        PROVE  ResetInv'
    BY <2>1, ResetRequest
  <2>2. ASSUME NEW t \in Tokens, LogoutToken(t) \/ ExpireToken(t) \/ CleanUp(t)
        PROVE  ResetInv'
    BY <2>2 DEF LogoutToken, ExpireToken, CleanUp, DeleteRows, accounts, ResetInv, ResetEndsOldSessions,
       TokensInv, TokensTypeOK
  <2>3. ASSUME NEW u \in Accounts, DeleteUser(u)
        PROVE  ResetInv'
    BY <2>3 DEF DeleteUser, DeleteRows, ResetInv, ResetEndsOldSessions
  <2>4. CASE UNCHANGED tokenVars
    BY <2>4 DEF tokenVars, tokenTable, accounts, ResetInv, ResetEndsOldSessions
  <2> QED
    BY <2>1, <2>2, <2>3, <2>4 DEF TokensNext
<1>3. ResetInv => ResetEndsOldSessions
  BY DEF ResetInv
<1> QED
  BY <1>1, <1>2, <1>3, TokensInvariance, PTL DEF TokensSpec

(* The table between any two statements (core/refresh-tokens.ts).          *)
THEOREM TableIsSafe ==
  ASSUME RefreshTokensConstants
  PROVE  TokensSpec => []TokensSafe
<1>1. TokensInv => TokensSafe
  BY DEF TokensInv, TokensSafe
<1> QED
  BY <1>1, TokensInvariance, PTL
=============================================================================
