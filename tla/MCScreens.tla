------------------------------ MODULE MCScreens ------------------------------
(* An instance of Screens: three constructors, two of which register TOTAL. *)
EXTENDS Screens

CONSTANTS eth, wifi, ip, IP

MCStatOf == [c \in {eth, wifi, ip} |-> IF c = ip THEN IP ELSE TOTAL]

\* One key of each kind, the control characters that the loops take for screens
\* and the error of wgetch.
MCKeys == {-1, 0, 2, KEY_TAB, KEY_F(1), KEY_F(2), KEY_F(12), LOWER_Q, UPPER_Q,
           KEY_DOWN, KEY_UP, KEY_NPAGE, KEY_PPAGE}
==============================================================================
