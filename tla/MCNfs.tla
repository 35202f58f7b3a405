------------------------------- MODULE MCNfs --------------------------------
(* Nfs for TLC: two links to the file, one of them relative and short, and a *)
(* link that names itself.                                                  *)
EXTENDS Nfs

CONSTANTS file, link, short, circle, none

MCLinks == {link, short, circle}
MCShort == {short}
MCLinkTo == [l \in MCLinks |-> IF l = circle THEN circle ELSE file]

=============================================================================
