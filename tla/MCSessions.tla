----------------------------- MODULE MCSessions -----------------------------
(* A small instance of Sessions for TLC.                                   *)
EXTENDS Sessions, TLC
CONSTANTS t1, t2

(* Login and logout by script, a change of a problem plain, as in          *)
(* static/templates.                                                       *)
Forms ==
  t1 :> {[kind |-> "login", script |-> TRUE]} @@
  t2 :> {[kind |-> "logout", script |-> TRUE], [kind |-> "change", script |-> FALSE]}
=============================================================================
