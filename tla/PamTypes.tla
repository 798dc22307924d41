------------------------------ MODULE PamTypes ------------------------------
(***************************************************************************)
(* What the PAM library can have granted on one handle.  Linux-PAM is a    *)
(* library of the system: its side is modelled from the calls              *)
(* src/src/daemon/pam_auth.cpp makes.                                      *)
(*   "handle"   pam_start succeeded and pam_end was not called             *)
(*   "auth"     pam_authenticate succeeded                                 *)
(*   "acct"     pam_acct_mgmt succeeded                                    *)
(*   "cred"     pam_setcred(PAM_ESTABLISH_CRED), not deleted since         *)
(*   "session"  pam_open_session, not closed since                         *)
(***************************************************************************)

\* What can be undone by a call of its own; the rest goes with the handle.
Revocable == {"cred", "session"}

Grants == {"handle", "auth", "acct"} \cup Revocable

\* Everything handle_login_request collects before it answers "ok".
Admitted == Grants
=============================================================================
