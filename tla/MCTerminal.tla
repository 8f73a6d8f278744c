------------------------------- MODULE MCTerminal -------------------------------
(* Instance of Header, and with it of Terminal, with the sizes of the code: two *)
(* modes of the boot menu, one with padding at the end of a row; the narrowest  *)
(* screens with room for the header, of one terminal row and of two, whose      *)
(* memory ends at the last address; and small ones the code accepts although    *)
(* the header is larger, on which a line wraps early: with two cells after the  *)
(* prompt, with none, a wider one, and one that ends above the terminal.        *)
(* 2^30 bytes stand for the address space, whose size TLC cannot represent.     *)
EXTENDS Header

Frame(fb, pitch, w, h) == [fb |-> fb, pitch |-> pitch, width |-> w, height |-> h]
Narrow(w, h) == Frame(SCREEN_SPACE - 4 - 4 * w * h, 4 * w, w, h)
Small(w, h) == Frame(4096, 4 * w, w, h)
MCFrames ==
    {Frame(4096, 7680, 1920, 1080), Frame(4096, 4352, 1024, 768),
     Narrow(645, 319), Narrow(645, 368),
     Small(350, 395), Small(320, 395), Small(480, 375), Small(350, 240)}
MCGeometries == {ScreenOf(f) : f \in MCFrames}
=============================================================================
