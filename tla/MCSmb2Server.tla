---------------------------- MODULE MCSmb2Server ----------------------------
(***************************************************************************)
(* A client that uses two trees, and one that comes and goes.              *)
(***************************************************************************)
EXTENDS Smb2Server

MCCommands == {"READ", "CANCEL"}
MCReturns == [c \in {"LOGOFF", "TREE_CONNECT", "TREE_DISCONNECT", "CANCEL"} |-> {0}]
             @@ [c \in {"READ"} |-> {-1, 1}] @@ [c \in {"established"} |-> {-1, 0, 1}]
MCNegotiations == [c \in Clients |-> {"dialects", "no dialects", "other dialects", "SMB1"}]
MCMaxMessages == [c \in Clients |-> IF c = "a" THEN 6 ELSE 0]
MCMischief == [c \in Clients |-> IF c = "a" THEN {"again", "full"} ELSE {"leave", "cannot be accepted"}]
=============================================================================
