----------------------------- MODULE MCHtmlPlay -----------------------------
(* Names have to differ within a directory only, so the game is called as  *)
(* one of its versions, and html as the other.  One content is inline.     *)
EXTENDS HtmlPlay, TLC

CONSTANTS a, b, none, dot, up, row, blob, one, two

(* A number that may be free, a placeholder, a directory below one, that   *)
(* of a game or version, or a file.                                        *)
MCAnchor == {2}

(* The imports differ in nothing but their names. *)
MCSymmetry == Permutations(Import)
=============================================================================
