------------------------------- MODULE Admin -------------------------------
(***************************************************************************)
(* Who may talk to the agent.  Feishu presents a sender with two ids, and  *)
(* the configuration lists admins by either of them.  The id under which   *)
(* the sender is found is the identity every later check compares.         *)
(***************************************************************************)
CONSTANTS Senders,   \* records [user_id, open_id], as an event presents them
          AdminUsers \* feishu.admin_users of the configuration

IsAdmin(id) == id \in AdminUsers

\* HandleMessage and HandleCardAction prefer user_id and fall back to open_id.
SenderID(s) == IF IsAdmin(s.user_id) THEN s.user_id ELSE s.open_id

Authorised(s) == IsAdmin(SenderID(s))
=============================================================================
