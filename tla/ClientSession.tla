---------------------------- MODULE ClientSession ----------------------------
(***************************************************************************)
(* The app's session (context/AuthContext.tsx, services/api.ts): one       *)
(* device against the server's refresh tokens.  Code between two awaits is *)
(* one step; calls, renewals, sign-in and sign-out overlap at the awaits.  *)
(* Token pairs are numbered: pair n is an access and a refresh token.      *)
(* RefreshTokens has the server's side statement by statement; here its    *)
(* answer to a request is one step.                                        *)
(***************************************************************************)
EXTENDS Naturals, Sequences, SequencesExt

CONSTANTS
  Users,     \* accounts that sign in on this device
  Screens,   \* calls the screens make at once
  MaxPair,   \* bound: token pairs issued in one behaviour
  MaxFaults  \* bound: kills of the app and storage failures

ASSUME ClientSessionConstants == MaxPair \in Nat /\ MaxFaults \in Nat

VARIABLES
  issued, row, family, owner,  \* the server's refresh tokens
  stale,     \* the last pair whose access token has expired
  stored,    \* the pair in AsyncStorage
  writes,    \* storage operations issued and not yet done, in order
  ref,       \* refreshTokenRef
  token,     \* React state: the pair the screens use
  bound,     \* the account this device's pushes are bound to
  boot,      \* where the boot effect is; isLoading until it is done
  renewal,   \* inFlightRenewal and the renewer behind it
  logout,    \* the logout handler
  call,      \* authenticated calls
  faults,
  lost,      \* history: tokens rotated by an answer that was never stored
  broken     \* history: a storage operation has failed

server == <<issued, row, family, owner, stale>>
ghosts == <<faults, lost, broken>>
vars == <<server, stored, writes, ref, token, bound, boot, renewal, logout,
          call, ghosts>>

Pairs == 1..MaxPair
NoPair == 0
Nobody == "nobody"

Calls == {"boot", "login"} \cup Screens
NoCall == [at |-> "idle", token |-> NoPair, isRetry |-> FALSE]
NoRenewal == [at |-> "idle", using |-> NoPair, answer |-> NoPair]
NoLogout == [at |-> "idle", using |-> NoPair]
Write(by, pair) == [by |-> by, pair |-> pair]
Writers == {"login", "renew", "over", "logout"}

Init ==
  /\ issued = 0
  /\ row = [n \in Pairs |-> "none"]
  /\ family = [n \in Pairs |-> NoPair]
  /\ owner = [n \in Pairs |-> Nobody]
  /\ stale = 0
  /\ stored = NoPair /\ writes = <<>>
  /\ ref = NoPair /\ token = NoPair
  /\ bound = Nobody
  /\ boot = "reading"
  /\ renewal = NoRenewal /\ logout = NoLogout
  /\ call = [c \in Calls |-> NoCall]
  /\ faults = 0 /\ lost = {} /\ broken = FALSE

TypeOK ==
  /\ issued \in 0..MaxPair
  /\ row \in [Pairs -> {"none", "live", "spent", "gone"}]
  /\ family \in [Pairs -> 0..MaxPair]
  /\ owner \in [Pairs -> Users \cup {Nobody}]
  /\ stale \in 0..MaxPair /\ lost \subseteq Pairs
  /\ stored \in 0..MaxPair /\ ref \in 0..MaxPair /\ token \in 0..MaxPair
  /\ writes \in Seq([by : Writers, pair : 0..MaxPair])
  /\ bound \in Users \cup {Nobody}
  /\ boot \in {"reading", "profile", "done"}
  /\ renewal \in [at : {"idle", "sent", "answered", "storing", "clearing"},
                  using : 0..MaxPair, answer : 0..MaxPair]
  /\ logout \in [at : {"idle", "calling", "clearing"}, using : 0..MaxPair]
  /\ call \in [Calls -> [at : {"idle", "sent", "waiting"}, token : 0..MaxPair,
                         isRetry : BOOLEAN]]
  /\ faults \in 0..MaxFaults
  /\ broken \in BOOLEAN

Fault == faults < MaxFaults /\ faults' = faults + 1

(* ------------------------------ the server ------------------------------ *)

Issue(fam, u) ==
  LET n == issued + 1 IN
  /\ issued < MaxPair
  /\ issued' = n
  /\ family' = [family EXCEPT ![n] = IF fam = NoPair THEN n ELSE fam]
  /\ owner' = [owner EXCEPT ![n] = u]

(* Access tokens all live an hour: they run out in the order of issue.  A  *)
(* session ends elsewhere (a password reset, the end of its 90 days).      *)
Expire ==
  /\ stale < issued
  /\ stale' = stale + 1
  /\ UNCHANGED <<issued, row, family, owner, stored, writes, ref, token, bound,
                 boot, renewal, logout, call, ghosts>>

Revoke(n) ==
  /\ row[n] = "live"
  /\ row' = [row EXCEPT ![n] = "gone"]
  /\ UNCHANGED <<issued, family, owner, stale, stored, writes, ref, token, bound,
                 boot, renewal, logout, call, ghosts>>

(* POST /refresh at the server: rotate, or 401, killing a replayed family. *)
Refresh ==
  LET t == renewal.using IN
  /\ renewal.at = "sent"
  /\ \/ /\ row[t] = "live"
        /\ Issue(family[t], owner[t])
        /\ row' = [row EXCEPT ![t] = "spent", ![issued + 1] = "live"]
        /\ renewal' = [renewal EXCEPT !.at = "answered", !.answer = issued + 1]
     \/ /\ row[t] # "live"
        /\ row' = [n \in Pairs |-> IF row[t] = "spent" /\ family[n] = family[t]
                                     THEN "gone" ELSE row[n]]
        /\ renewal' = [renewal EXCEPT !.at = "answered"]
        /\ UNCHANGED <<issued, family, owner>>
  /\ UNCHANGED <<stale, stored, writes, ref, token, bound, boot, logout, call,
                 ghosts>>

(* ---------------------------- request() --------------------------------- *)

Sent(n, retry) == [at |-> "sent", token |-> n, isRetry |-> retry]

BootAfter(ended) == IF "boot" \in ended THEN "done" ELSE boot

(* fetchProfile's catch: the calls in `failing' end without an answer.     *)
EndFailed(failing) ==
  /\ call' = [c \in Calls |-> IF c \in failing THEN NoCall ELSE call[c]]
  /\ boot' = BootAfter(failing)

(* A screen asks for the profile again (refreshProfile).                   *)
StartCall(c) ==
  /\ boot = "done" /\ token # NoPair /\ call[c].at = "idle"
  /\ call' = [call EXCEPT ![c] = Sent(token, FALSE)]
  /\ UNCHANGED <<server, stored, writes, ref, token, bound, boot, renewal, logout,
                 ghosts>>

(* fetchProfile: the answer binds the device to the account.               *)
Accepted(c) ==
  /\ call[c].at = "sent" /\ call[c].token > stale
  /\ bound' = owner[call[c].token]
  /\ call' = [call EXCEPT ![c] = NoCall]
  /\ boot' = BootAfter({c})
  /\ UNCHANGED <<server, stored, writes, ref, token, renewal, logout, ghosts>>

(* Mutant: every 401 starts a renewal of its own.                          *)
RenewAnyway == TRUE

(* renewOnce: a renewal starts when none is in flight.                     *)
NoneInFlight == renewal.at = "idle"

(* 401 with the session's token: one renewal serves every caller.          *)
Unauthorized(c) ==
  /\ call[c].at = "sent" /\ call[c].token <= stale
  /\ \/ /\ ~call[c].isRetry /\ NoneInFlight /\ ref # NoPair
        /\ renewal' = [NoRenewal EXCEPT !.at = "sent", !.using = ref]
        /\ call' = [call EXCEPT ![c].at = "waiting"]
        /\ UNCHANGED boot
     \/ /\ ~call[c].isRetry /\ ~NoneInFlight
        /\ call' = [call EXCEPT ![c].at = "waiting"]
        /\ UNCHANGED <<boot, renewal>>
     \/ /\ call[c].isRetry \/ (NoneInFlight /\ ref = NoPair)
        /\ EndFailed({c})
        /\ UNCHANGED renewal
  /\ UNCHANGED <<server, stored, writes, ref, token, bound, logout, ghosts>>

(* NetworkError, 429, 5xx.                                                 *)
CallFails(c) ==
  /\ call[c].at = "sent"
  /\ EndFailed({c})
  /\ UNCHANGED <<server, stored, writes, ref, token, bound, renewal, logout, ghosts>>

Waiting == {c \in Calls : call[c].at = "waiting"}

(* ----------------------------- the renewer ------------------------------ *)

(* clearSession up to its await.                                           *)
StartClearing(by) ==
  /\ bound' = Nobody
  /\ ref' = NoPair
  /\ writes' = Append(writes, Write(by, NoPair))

(* Mutant: the new refresh token is not kept in memory.                    *)
RenewalAnsweredStoredOnly ==
  /\ renewal.at = "answered" /\ renewal.answer # NoPair
  /\ writes' = Append(writes, Write("renew", renewal.answer))
  /\ renewal' = [renewal EXCEPT !.at = "storing"]
  /\ UNCHANGED <<server, stored, ref, token, bound, boot, logout, call, ghosts>>

RenewalAnswered ==
  /\ renewal.at = "answered"
  /\ \/ /\ renewal.answer # NoPair
        /\ ref' = renewal.answer
        /\ writes' = Append(writes, Write("renew", renewal.answer))
        /\ renewal' = [renewal EXCEPT !.at = "storing"]
        /\ UNCHANGED bound
     \/ /\ renewal.answer = NoPair
        /\ StartClearing("over")
        /\ renewal' = [renewal EXCEPT !.at = "clearing"]
  /\ UNCHANGED <<server, stored, token, boot, logout, call, ghosts>>

(* Mutant: any failed renewal signs the user out.                          *)
RenewalFailsSignsOut ==
  /\ renewal.at = "sent"
  /\ StartClearing("over")
  /\ renewal' = [renewal EXCEPT !.at = "clearing"]
  /\ UNCHANGED <<server, stored, token, boot, logout, call, ghosts>>

(* The refresh call fails: before the server took it, or its answer is     *)
(* lost.  Neither is a 401, and the tokens stay.                           *)
RenewalFails ==
  /\ renewal.at \in {"sent", "answered"}
  /\ lost' = IF renewal.answer = NoPair THEN lost ELSE lost \cup {renewal.using}
  /\ renewal' = NoRenewal
  /\ EndFailed(Waiting)
  /\ UNCHANGED <<server, stored, writes, ref, token, bound, logout, faults, broken>>

(* --------------------------- sign-in, sign-out -------------------------- *)

(* POST /login answers; login() up to its await.                           *)
Login(u) ==
  /\ boot = "done" /\ token = NoPair
  /\ call["login"].at = "idle"
  /\ \A i \in DOMAIN writes : writes[i].by # "login"
  /\ Issue(NoPair, u)
  /\ row' = [row EXCEPT ![issued + 1] = "live"]
  /\ ref' = issued + 1
  /\ writes' = Append(writes, Write("login", issued + 1))
  /\ UNCHANGED <<stale, stored, token, bound, boot, renewal, logout, call, ghosts>>

Logout ==
  /\ boot = "done" /\ token # NoPair /\ logout.at = "idle"
  /\ \/ /\ ref # NoPair
        /\ logout' = [at |-> "calling", using |-> ref]
        /\ UNCHANGED <<bound, ref, writes>>
     \/ /\ ref = NoPair
        /\ StartClearing("logout")
        /\ logout' = [NoLogout EXCEPT !.at = "clearing"]
  /\ UNCHANGED <<server, stored, token, boot, renewal, call, ghosts>>

(* POST /logout answers or fails: signing out locally is what matters.     *)
LogoutAnswered ==
  /\ logout.at = "calling"
  /\ \/ row' = [row EXCEPT ![logout.using] = "gone"]
     \/ UNCHANGED row
  /\ StartClearing("logout")
  /\ logout' = [NoLogout EXCEPT !.at = "clearing"]
  /\ UNCHANGED <<issued, family, owner, stale, stored, token, boot, renewal, call,
                 ghosts>>

(* ------------------------------- storage -------------------------------- *)

(* What follows a storage operation.  A renewal's waiting calls are        *)
(* replayed with the new pair, or fail.                                    *)
AfterLogin(pair) ==
  /\ token' = pair
  /\ call' = [call EXCEPT !["login"] = Sent(pair, FALSE)]
  /\ UNCHANGED <<boot, renewal, logout>>

(* Mutant: the settled renewal stays in inFlightRenewal.                   *)
AfterRenewalKept(pair) ==
  /\ token' = pair
  /\ call' = [c \in Calls |-> IF c \in Waiting THEN Sent(pair, TRUE) ELSE call[c]]
  /\ UNCHANGED <<boot, renewal, logout>>

AfterRenewal(pair) ==
  /\ token' = pair
  /\ renewal' = NoRenewal
  /\ call' = [c \in Calls |-> IF c \in Waiting THEN Sent(pair, TRUE) ELSE call[c]]
  /\ UNCHANGED <<boot, logout>>

AfterOver ==
  /\ token' = NoPair
  /\ renewal' = NoRenewal
  /\ call' = [c \in Calls |-> IF c \in Waiting THEN NoCall ELSE call[c]]
  /\ boot' = BootAfter(Waiting)
  /\ UNCHANGED logout

AfterLogout ==
  /\ token' = NoPair
  /\ logout' = NoLogout
  /\ UNCHANGED <<boot, renewal, call>>

After(w) ==
  \/ w.by = "login" /\ AfterLogin(w.pair)
  \/ w.by = "renew" /\ AfterRenewal(w.pair)
  \/ w.by = "over" /\ AfterOver
  \/ w.by = "logout" /\ AfterLogout

(* multiSet and multiRemove resolve in the order they were called.         *)
WriteDone ==
  /\ writes # <<>>
  /\ stored' = Head(writes).pair
  /\ writes' = Tail(writes)
  /\ After(Head(writes))
  /\ UNCHANGED <<server, ref, bound, ghosts>>

(* The operation fails: the sign-in throws, the others go on regardless.   *)
WriteFails ==
  /\ writes # <<>> /\ Fault
  /\ broken' = TRUE
  /\ writes' = Tail(writes)
  /\ IF Head(writes).by = "login"
       THEN UNCHANGED <<token, boot, renewal, logout, call>>
       ELSE After(Head(writes))
  /\ UNCHANGED <<server, stored, ref, bound, lost>>

(* The boot effect: multiGet, then the profile.                            *)
ReadStored ==
  /\ boot = "reading"
  /\ ref' = stored /\ token' = stored
  /\ boot' = IF stored = NoPair THEN "done" ELSE "profile"
  /\ call' = IF stored = NoPair THEN call
             ELSE [call EXCEPT !["boot"] = Sent(stored, FALSE)]
  /\ UNCHANGED <<server, stored, writes, bound, renewal, logout, ghosts>>

ReadFails ==
  /\ boot = "reading" /\ Fault
  /\ broken' = TRUE
  /\ boot' = "done"
  /\ UNCHANGED <<server, stored, writes, ref, token, bound, renewal, logout, call,
                 lost>>

(* The system kills the app; what was not written is gone.                 *)
Kill ==
  /\ boot # "reading" /\ Fault
  /\ lost' = IF renewal.at \in {"answered", "storing"} /\ renewal.answer # NoPair
               THEN lost \cup {renewal.using} ELSE lost
  /\ writes' = <<>> /\ ref' = NoPair /\ token' = NoPair
  /\ boot' = "reading"
  /\ renewal' = NoRenewal /\ logout' = NoLogout
  /\ call' = [c \in Calls |-> NoCall]
  /\ UNCHANGED <<server, stored, bound, broken>>

Call(c) == Accepted(c) \/ Unauthorized(c) \/ CallFails(c)
Renewal == Refresh \/ RenewalAnswered \/ RenewalFails
Storage == WriteDone \/ WriteFails
Boot == ReadStored \/ ReadFails

Next ==
  \/ \E c \in Calls : Call(c)
  \/ \E c \in Screens : StartCall(c)
  \/ \E n \in Pairs : Revoke(n)
  \/ \E u \in Users : Login(u)
  \/ Logout \/ LogoutAnswered \/ Expire
  \/ Renewal \/ Storage \/ Boot \/ Kill

(* The runtime answers or rejects every promise: fetch and AsyncStorage    *)
(* settle.                                                                 *)
Fairness ==
  /\ \A c \in Calls : WF_vars(Call(c))
  /\ WF_vars(Renewal) /\ WF_vars(Storage) /\ WF_vars(Boot) /\ WF_vars(LogoutAnswered)

Spec == Init /\ [][Next]_vars /\ Fairness

(* ----------------------------- properties ------------------------------- *)

(* Memory, storage and screens hold one session: without a failed storage  *)
(* operation, the screens use what is stored and the renewer what will be  *)
(* stored last, however sign-in, sign-out and renewal overlap (login,      *)
(* clearSession and the renewer each set the ref and issue the write       *)
(* before their await).                                                    *)
LastWrite == IF writes = <<>> THEN stored ELSE Last(writes).pair

OneSession ==
  boot # "reading" /\ ~broken => token = stored /\ ref = LastWrite

(* A refresh token is presented a second time only when the answer to its  *)
(* rotation never reached storage: screens that meet a 401 together share  *)
(* one rotation (renewOnce).                                               *)
SpentOnlyAfterLoss ==
  renewal.at = "sent" /\ row[renewal.using] = "spent" /\ ~broken => renewal.using \in lost

(* The app drops a session by itself only when the server has none: a dead *)
(* network, a 429 or a 5xx during a renewal signs nobody out (the          *)
(* renewer's catch).                                                       *)
SignsOutOnlyDeadSession ==
  renewal.at = "clearing" => row[renewal.using] \notin {"live", "none"}

(* The renewer between its awaits: it spends no token twice unless an      *)
(* answer was lost, and ends only a session the server has ended           *)
(* (AuthContext.tsx, client.ts).                                           *)
RenewerSafe ==
  /\ TypeOK
  /\ SpentOnlyAfterLoss
  /\ SignsOutOnlyDeadSession

(* What makes both inductive.  The server numbers the pairs it issues, and *)
(* the device holds none that was not issued.                              *)
IssuedInv ==
  /\ \A n \in Pairs : (n > issued <=> row[n] = "none")
                   /\ (n > issued <=> family[n] = NoPair)
  /\ stored \in 0..issued /\ ref \in 0..issued
  /\ \A i \in DOMAIN writes : writes[i].pair \in 0..issued
  /\ renewal.at # "idle" => renewal.using \in 1..issued
  /\ renewal.answer \in 0..issued
  /\ logout.at = "calling" => logout.using \in 1..issued

(* While the boot effect reads, nothing else is under way.                 *)
ReadingInv ==
  boot = "reading" =>
    /\ writes = <<>> /\ renewal = NoRenewal /\ logout = NoLogout
    /\ \A c \in Calls : call[c].at = "idle"

(* A renewal and a queued write of its own go together, and what is queued *)
(* behind it is not the token it spent.                                    *)
OfRenewal(i) == writes[i].by \in {"renew", "over"}

WritesInv ==
  \A i \in DOMAIN writes :
    /\ writes[i].by \in {"over", "logout"} => writes[i].pair = NoPair
    /\ writes[i].by = "renew" => renewal.at = "storing" /\ writes[i].pair = renewal.answer
    /\ writes[i].by = "over" => renewal.at = "clearing"
    /\ OfRenewal(i) => \A j \in DOMAIN writes :
                         j > i => ~OfRenewal(j) /\ writes[j].pair # renewal.using

(* A renewal knows what the server did with its token.                     *)
RenewalInv ==
  /\ renewal.at \in {"idle", "sent", "clearing"} => renewal.answer = NoPair
  /\ renewal.at = "storing" => renewal.answer # NoPair
  /\ renewal.at # "idle" /\ renewal.answer = NoPair /\ renewal.at # "sent"
       => row[renewal.using] = "gone"
  /\ renewal.answer # NoPair =>
       renewal.answer # renewal.using /\ row[renewal.answer] # "spent"

(* A spent token that storage holds, or will, is the one being renewed or  *)
(* one whose answer was lost.                                              *)
Rotated(n) ==
  renewal.at \in {"answered", "storing"} /\ renewal.answer # NoPair /\ renewal.using = n

Excused(n) == n # NoPair /\ row[n] = "spent" => n \in lost \/ Rotated(n)

KeptInv ==
  ~broken => Excused(stored) /\ \A i \in DOMAIN writes : Excused(writes[i].pair)

IInv ==
  /\ TypeOK /\ IssuedInv /\ ReadingInv /\ WritesInv /\ RenewalInv /\ KeptInv
  /\ OneSession /\ SpentOnlyAfterLoss

(* Nobody waits for ever: a renewal ends and releases every call it holds, *)
(* and the splash screen goes.  No call waits for a renewal that waits for *)
(* a call (the refresh call carries no access token, and a replayed call   *)
(* is not renewed again).                                                  *)
CallsReleased == []<>(Waiting = {}) /\ <>[](boot = "done")
=============================================================================
