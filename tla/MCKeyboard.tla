------------------------------ MODULE MCKeyboard ------------------------------
(* Instance of Keyboard: every key of the layout but those that repeat a case, *)
(* three held at once, and a key touched while a byte still waits.             *)
EXTENDS Keyboard

MCKeys == DOMAIN Layout \ {"Tilde", "Enter", "Semicolon", "KpSlash", "Kp8"}
=============================================================================
