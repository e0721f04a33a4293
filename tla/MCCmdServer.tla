---------------------------- MODULE MCCmdServer ----------------------------
(* Small instances of CmdServer for TLC. *)
EXTENDS CmdServer

(* One client with a command that connects and then another, one with a    *)
(* command that is carried out at once.                                    *)
TwoCommands == [c \in Clients |-> IF c = "c1" THEN <<"connect", "at once">> ELSE <<"at once">>]
=============================================================================
