SPECIFICATION FairSpec
CONSTANTS
  Button <- MCButton
  Key <- MCKey
  TouchKey = "touch"
  KeyOf <- MCKeyOf
  RepeatKey = {"A"}
  Hotkey <- MCHotkey
  Combo <- MCCombo
  Recenter = "recenter"
  Autofire = "autofire"
  TouchButton = {"a"}
  Place = {"p"}
  NoPlace = "none"
INVARIANTS
  InputIsWhole
PROPERTIES
  MenuReleasesCore
CHECK_DEADLOCK FALSE
