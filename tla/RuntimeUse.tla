------------------------------ MODULE RuntimeUse ------------------------------
(***************************************************************************)
(* What the two-lock protocol of the desktop back end promises about the   *)
(* directory of installed llama.cpp runtimes: it has at most one kind of   *)
(* user at a time.  Either a llama-server is being launched or is running  *)
(* out of it, or one command is changing it (install, import, export,      *)
(* select, uninstall), and it is handed over only when nobody uses it.     *)
(* Desktop implements this specification.                                  *)
(***************************************************************************)

VARIABLE user

Kinds == {"server", "mutation"}

Init == user = "none"

Take(k) == user = "none" /\ user' = k

Release == user \in Kinds /\ user' = "none"

Next == Release \/ \E k \in Kinds : Take(k)

Spec == Init /\ [][Next]_user
===============================================================================
