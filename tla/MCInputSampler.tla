----------------------------- MODULE MCInputSampler -----------------------------
(* Two buttons, bound to a key each.  The menu hotkey takes both of them,   *)
(* autofire and recentering one each, which overlap with the menu's; one is *)
(* the touch button as well, and the key of one is repeated by autofire.    *)
EXTENDS InputSampler, TLC

MCButton == {"l", "a"}
MCKey == {"L", "A"}
MCKeyOf == "l" :> {"L"} @@ "a" :> {"A"}
MCHotkey == {"menu", "autofire", "recenter"}
MCCombo == "menu" :> {"l", "a"} @@ "autofire" :> {"l"} @@ "recenter" :> {"a"}
================================================================================
