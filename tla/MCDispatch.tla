---------------------------- MODULE MCDispatch ----------------------------
(* Frames of one to three requests: any command alone and in a pair,         *)
(* related or not, on handle 1 or on the chain's; longer chains of the       *)
(* commands that matter to them; and chains over two sessions or without     *)
(* ids of their own.                                                         *)
EXTENDS Dispatch

CONSTANTS s1, s2

Rq(cmd, rel, sess, tree, fid) == [cmd |-> cmd, rel |-> rel, sess |-> sess, tree |-> tree, fid |-> fid]
Cmds == TreeCommands \cup {"echo", "logoff", "connect", "disconnect"}
Links == {"create", "use", "notify", "cancel", "echo"}

MCFrames ==
  {<<Rq(c, FALSE, s1, 1, 1)>> : c \in Cmds}
  \cup {<<Rq(c, FALSE, s2, 1, 1)>> : c \in {"use", "echo"}}
  \cup {<<Rq("create", FALSE, s1, 2, 0)>>}
  \cup {<<Rq(c, FALSE, s1, 1, 1), Rq(d, r, s1, 1, 0)>> : c \in {"create", "notify"}, d \in Cmds, r \in BOOLEAN}
  \cup {<<Rq(c, FALSE, s1, 1, 1), Rq("use", TRUE, None, 1, 0)>> : c \in Links}
  \cup {<<Rq("create", FALSE, s1, 1, 1), Rq(d, q, s1, 1, 0), Rq(e, r, s2, 1, 0)>> :
          d \in Links, e \in {"close", "echo", "notify"}, q \in BOOLEAN, r \in BOOLEAN}
=============================================================================
