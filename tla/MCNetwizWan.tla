----------------------------- MODULE MCNetwizWan -----------------------------
(* Values of the constants of NetwizWan for TLC. *)
EXTENDS NetwizWanInv
AllLines == SUBSET Wan              \* any set of settings may work
OneSetting == {{}} \cup {{w} : w \in Wan} \* at most one setting works
NoLine == {{}}                      \* nothing works
TwoMasks == <<"static", "calc">>    \* the saved mask is not the inferred one
NoStatic == <<>>                    \* no static address is saved
=============================================================================
