---------------------------- MODULE MCQpLifecycle ----------------------------
(* Instances of QpLifecycle for TLC. *)
EXTENDS QpLifecycle

\* Queue pairs with a completion queue for each direction.
TwoCqs == {<<"send_cq", "recv_cq">>}
=============================================================================
