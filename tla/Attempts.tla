------------------------------ MODULE Attempts ------------------------------
(***************************************************************************)
(* One outbound call of a crawler within the deadline of its tick: a page  *)
(* (fetchPage and readCapped, ingestion/scrape.ts) or a parse by the       *)
(* language model (aiParse, ingestion/ai.ts).  Every step of it is bounded *)
(* by what is left (shared/deadline.ts).  Time is counted in small units;  *)
(* the constants keep the order of the code's milliseconds.                *)
(***************************************************************************)
EXTENDS Integers, FiniteSets

CONSTANTS
  Deadlines,   \* what a tick may have left when the call is made
  NEED,        \* what an attempt needs to be worth starting, per kind of call
  PAUSE,       \* the back-off after the first attempt, per kind of call
  TIMEOUT,     \* the longest a request is waited for, per kind of call
  Fallbacks    \* what AI_FALLBACK_MODEL may name: "primary" is AI_MODEL itself

VARIABLES
  purpose,   \* "page" or "parse"
  deadline,
  models,    \* whom each attempt of a parse asks
  now,
  attempt,
  until,     \* when the timer of the step under way fires
  step,      \* "none" "next" "asked" "body" "pause" "done"
  answer     \* the last: "ok" "busy" "gone" "broken", "none" before it

callVars == <<purpose, deadline, models, now, attempt, until, step, answer>>

Kinds == {"page", "parse"}
ATTEMPTS == 3
Left == deadline - now

ASSUME CallConstants ==
  /\ Deadlines \subseteq Int
  /\ NEED \in [Kinds -> Nat] /\ PAUSE \in [Kinds -> Nat] /\ TIMEOUT \in [Kinds -> Nat \ {0}]

(* Mutant: once it was asked, the fallback keeps the call.                 *)
AttemptModelsStay(fallback) == <<"primary", fallback, fallback>>
AttemptModels(fallback) == <<"primary", fallback, "primary">>

CallInit ==
  /\ purpose = "page" /\ deadline = 0 /\ models = AttemptModels("primary")
  /\ now = 0 /\ attempt = 1 /\ until = 0 /\ step = "none" /\ answer = "none"

Call ==
  /\ step = "none" /\ step' = "next"
  /\ purpose' \in Kinds /\ deadline' \in Deadlines
  /\ models' \in {AttemptModels(f) : f \in Fallbacks}
  /\ UNCHANGED <<now, attempt, until, answer>>

Same == UNCHANGED <<purpose, deadline, models>>

(* Mutant: the time-out does not look at the deadline.                     *)
TimerWhole(longest) == now + longest
\* abortIn, withTimeout: whichever comes first; what is left exceeds NEED here.
Timer(longest) == now + (IF longest < Left THEN longest ELSE Left)

Expired == Left <= NEED[purpose]

Ask ==
  /\ step = "next" /\ ~Expired
  /\ until' = Timer(TIMEOUT[purpose]) /\ step' = "asked"
  /\ Same /\ UNCHANGED <<now, attempt, answer>>

NoBudget ==
  /\ step = "next" /\ Expired
  /\ step' = "done" /\ Same /\ UNCHANGED <<now, attempt, until, answer>>

(* After an attempt that failed: back off, unless it was the last or the   *)
(* pause does not fit.                                                     *)
Pause == PAUSE[purpose] * attempt
CanPause == attempt < ATTEMPTS /\ Left > Pause

Retry(why) ==
  /\ answer' = why
  /\ \/ CanPause /\ step' = "pause" /\ until' = now + Pause
     \/ ~CanPause /\ step' = "done" /\ UNCHANGED until
  /\ Same /\ UNCHANGED <<now, attempt>>

(* The page's headers are in, its body is read under the same timer; a     *)
(* model's answer is complete.                                             *)
AnswerComes ==
  /\ step = "asked"
  /\ answer' = "ok"
  /\ step' = IF purpose = "page" THEN "body" ELSE "done"
  /\ Same /\ UNCHANGED <<now, attempt, until>>

\* A 429 or 5xx, a broken connection, a model that throws, a schema that refuses.
AnswerFails == step = "asked" /\ Retry("busy")
(* Mutant: the inference, which takes no signal, is waited for.            *)
TimesOutPage == step = "asked" /\ purpose = "page" /\ now = until /\ Retry("broken")
TimesOut == step = "asked" /\ now = until /\ Retry("broken")

(* Mutant: the permanent answer is caught like any other.                  *)
GoneRetried == step = "asked" /\ purpose = "page" /\ Retry("gone")
Gone ==
  /\ step = "asked" /\ purpose = "page"
  /\ answer' = "gone" /\ step' = "done"
  /\ Same /\ UNCHANGED <<now, attempt, until>>

BodyRead == step = "body" /\ step' = "done" /\ Same /\ UNCHANGED <<now, attempt, until, answer>>

(* Over the cap, cut off, or the timer: a body is not asked for again.     *)
BodyLost ==
  /\ step = "body"
  /\ answer' = "broken" /\ step' = "done"
  /\ Same /\ UNCHANGED <<now, attempt, until>>

Resume ==
  /\ step = "pause" /\ now = until
  /\ step' = "next" /\ attempt' = attempt + 1
  /\ Same /\ UNCHANGED <<now, until, answer>>

TimePasses ==
  /\ step \in {"asked", "body", "pause"} /\ now < until
  /\ now' = now + 1
  /\ Same /\ UNCHANGED <<attempt, until, step, answer>>

CallNext ==
  \/ Call \/ Ask \/ NoBudget \/ AnswerComes \/ AnswerFails \/ Gone \/ TimesOut
  \/ BodyRead \/ BodyLost \/ Resume \/ TimePasses

\* What the caller does by itself: whoever is asked may never answer.
Own ==
  \/ Ask \/ NoBudget \/ TimesOut \/ Resume \/ TimePasses
  \/ BodyLost /\ now = until

CallSpec == CallInit /\ [][CallNext]_callVars

(* ----------------------------- properties ------------------------------- *)

\* No answer is waited for past the deadline.
InTime == now <= deadline \/ now = 0

\* A page that is not there is asked for once.
GoneIsFinal == answer = "gone" => step = "done"

\* A call that gives up before its last attempt had no time for another.
GivesUpForTimeOnly ==
  step = "done" /\ answer \in {"none", "busy"} /\ attempt < ATTEMPTS =>
    Left <= NEED[purpose] \/ Left <= Pause

\* A fallback that refuses everything takes one of the attempts.
PrimaryAskedTwice ==
  step = "done" /\ attempt = ATTEMPTS => Cardinality({n \in 1..ATTEMPTS : models[n] = "primary"}) >= 2

(* A call ends before its deadline, gives up early only for want of time,  *)
(* and asks again only those whose answer may be another                   *)
(* (scrape.ts:110-118, ai.ts:27-40).                                       *)
AttemptsWellSpent == InTime /\ GoneIsFinal /\ GivesUpForTimeOnly /\ PrimaryAskedTwice

(* What makes it inductive: a step that waits has its timer before the     *)
(* deadline, and nothing has happened before the call is made.             *)
CallTypeOK ==
  /\ purpose \in Kinds /\ deadline \in Int
  /\ models \in {AttemptModels(f) : f \in Fallbacks \cup {"primary"}}
  /\ now \in Nat /\ until \in Nat /\ attempt \in 1..ATTEMPTS
  /\ step \in {"none", "next", "asked", "body", "pause", "done"}
  /\ answer \in {"none", "ok", "busy", "gone", "broken"}

WaitInv ==
  /\ step = "none" => now = 0 /\ answer = "none"
  /\ step \in {"asked", "body", "pause"} => now <= until /\ until <= deadline
  /\ step = "body" => answer = "ok"
  /\ step = "pause" => attempt < ATTEMPTS

CallInv == CallTypeOK /\ WaitInv /\ AttemptsWellSpent

(* A site or a model that never answers holds the tick up for a bounded    *)
(* time only (ai.ts:16-24).                                                *)
AttemptsEnd == step # "none" ~> step = "done"
=============================================================================
