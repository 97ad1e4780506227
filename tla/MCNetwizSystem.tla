---------------------------- MODULE MCNetwizSystem ---------------------------
(* Values of the constants of NetwizSystem for TLC. *)
EXTENDS NetwizSystemInv
DhcpOrNone == {{}, {"dhcp"}}         \* the one setting works, or nothing does
NoLine == {{}}                      \* nothing works
NoStatic == <<>>                    \* no static address is saved
=============================================================================
