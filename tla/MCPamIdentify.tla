---------------------------- MODULE MCPamIdentify ----------------------------
(* Rule lists: every single stamp, and pairs that mix the stamps and what   *)
(* their time-out means.                                                    *)
EXTENDS PamIdentify

Nod(failsafe) == [stamp |-> "nod", failsafe |-> failsafe]
Hotkey(failsafe) == [stamp |-> "hotkey", failsafe |-> failsafe]
NoStamp == [stamp |-> "none", failsafe |-> TRUE]

UpToOne == {<<>>, <<NoStamp>>}
           \cup {<<Nod(f)>> : f \in BOOLEAN} \cup {<<Hotkey(f)>> : f \in BOOLEAN}
UpToTwo == {<<>>, <<Nod(FALSE)>>, <<NoStamp, Nod(TRUE)>>, <<Hotkey(FALSE), Hotkey(TRUE)>>}
=============================================================================
