----------------------------- MODULE MCChatTurn -----------------------------
(* Bounds for model checking one chat turn. *)
EXTENDS ChatTurn

MCTools == {"record_plan", "generate_design", "create_simulator"}
=============================================================================
