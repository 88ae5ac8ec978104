----------------------------- MODULE MCSessions ------------------------------
(***************************************************************************)
(* A session, seen from the server's table, statement by statement, and    *)
(* from the phone.  A behaviour exercises one side; on the server's the    *)
(* phone only comes to its sign-in screen.  The requests are               *)
(* interchangeable, and all idle in the behaviours of the phone, which are *)
(* the ones CallsReleased is about.                                        *)
(***************************************************************************)
EXTENDS ClientSession, RefreshTokens, TLC

CONSTANTS r1, r2

VARIABLE side

MCRequests == {r1, r2}
Symmetry == Permutations(MCRequests)

SessionsInit == Init /\ TokensInit /\ side \in {"phone", "server"}

SessionsNext ==
  \/ side = "phone" /\ Next /\ UNCHANGED <<tokenVars, side>>
  \/ side = "server" /\ ReadStored /\ UNCHANGED <<tokenVars, side>>
  \/ side = "server" /\ boot = "done" /\ TokensNext /\ UNCHANGED <<vars, side>>

SessionsSpec ==
  SessionsInit /\ [][SessionsNext]_<<vars, tokenVars, side>> /\ Fairness
=============================================================================
