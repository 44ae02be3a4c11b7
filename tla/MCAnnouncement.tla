--------------------------- MODULE MCAnnouncement ---------------------------
(***************************************************************************)
(* Every name of one or two characters with every value of up to three.    *)
(***************************************************************************)
EXTENDS Announcement

\* What an escape may say: an ordinary character, or one that divides a line or
\* the text.
MCEscaped == {"x", "=", "\n"}
=============================================================================
