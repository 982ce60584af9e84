------------------------------ MODULE FrontDoor ------------------------------
(***************************************************************************)
(* The parts of the server a request meets before and around its handler:  *)
(* the rate limiter, sign-in, bulk requests with an idempotency key and    *)
(* the public status page.  They share no state, so the front door is      *)
(* their conjunction: a step of it is a step of each part, or leaves it    *)
(* alone.                                                                  *)
(***************************************************************************)
EXTENDS RateLimiter, Accounts, BulkRequests, PublicStatus

FrontDoorSpec == LimiterSpec /\ AccountSpec /\ BulkSpec /\ PublicSpec

(* The type invariants of the parts: no bucket holds more than its         *)
(* capacity, sessions, links and cached responses are what their handlers  *)
(* store, and every computation of the public page is led by a request     *)
(* that waits for it.                                                      *)
FrontDoorTypeOK == LimiterTypeOK /\ AccountTypeOK /\ BulkTypeOK /\ PublicTypeOK
==============================================================================
