----------------------------- MODULE MCGuiInput -----------------------------
(* The GUI input path with a ring of four slots, a mouse of two buttons and *)
(* few interrupts, enough to fill the ring and to wrap its indices.         *)
EXTENDS GuiInput
=============================================================================
