----------------------------- MODULE MCHarness -----------------------------
(***************************************************************************)
(* Instances of Harness for TLC.  Intent "a" is internal and allowed, "q"  *)
(* is internal and asks, "n" is denied, "x" is a high-impact external      *)
(* action and "y" an external one that meets the L4 conditions.            *)
(***************************************************************************)
EXTENDS Harness, TLC

MCPolicy == [i \in Intents |-> CASE i \in {"a", "x", "y"} -> "Allow"
                                 [] i = "q" -> "Ask"
                                 [] i = "n" -> "Deny"]

Loop(k, s) == [key |-> k, session |-> s, mode |-> "Loop", intent |-> None, untrusted |-> FALSE]
Direct(k, s, i) == [key |-> k, session |-> s, mode |-> "DirectAction", intent |-> i, untrusted |-> FALSE]

\* A conversation and a direct external action in one session.
TwoRequests == [c \in Clients |-> IF c = "c1" THEN Loop("k1", "s") ELSE Direct("k2", "s", "x")]

\* A conversation, and another one under its key that an untrusted
\* communication started: whichever is accepted first, the other is refused.
EitherRequest == [c \in Clients |-> [Loop("k1", "s") EXCEPT !.untrusted = (c = "c2")]]

\* A request and its retry.
SameKey == [c \in Clients |-> Loop("k1", "s")]
=============================================================================
