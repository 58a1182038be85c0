-------------------------- MODULE MCRedisBroadcast --------------------------
(***************************************************************************)
(* RedisBroadcast for TLC: two servers with a caller each.                    *)
(***************************************************************************)
EXTENDS RedisBroadcast

CONSTANTS a, b

TwoCallers == {<<a, "one">>, <<b, "one">>}

(* What one server publishes is lost, or what the other receives. *)
SomeConns == {<<a, "pub">>, <<b, "sub">>}

(* Two calls, or one call and a loss. *)
CallsOrLosses == ~Healthy => calls <= 1
=============================================================================
