----------------------------- MODULE MCConfirm -----------------------------
(***************************************************************************)
(* Two admins, one listed by user_id and one by open_id, and a stranger.   *)
(***************************************************************************)
EXTENDS Confirm

CONSTANTS t1, h1, h2, h3

MCSenders == {[user_id |-> "u_ann", open_id |-> "o_ann"],
              [user_id |-> "u_bob", open_id |-> "o_bob"],
              [user_id |-> "u_eve", open_id |-> "o_eve"]}
MCAdmins == {"u_ann", "o_bob"}
=============================================================================
