----------------------------- MODULE MCDateTime -----------------------------
(* Small instances of DateTime: days of one or two one-minute hours.        *)
EXTENDS DateTime

\* One hour west of Greenwich, and Greenwich.
Zones == {-HourLen, 0}

\* One hour west of Greenwich, where the box is not at first.
West  == {-HourLen}
=============================================================================
