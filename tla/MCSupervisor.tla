---------------------------- MODULE MCSupervisor ----------------------------
(* One descendant that may keep the streams, pipes of one byte. *)
EXTENDS Supervisor
CONSTANT d1
MCDescendants == {d1}
=============================================================================
