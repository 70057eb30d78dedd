--------------------------- MODULE MCHLSDownload ---------------------------
(***************************************************************************)
(* Values for TLC.  A day has 6 units, so unit 9 of day 0 and unit 1 of    *)
(* day 1 are times after midnight; from unit 2 on, chunks of 3 units cut   *)
(* through segments of 2.                                                  *)
(***************************************************************************)
EXTENDS HLSDownload

Broadcast == {<<0, 2>>, <<0, 9>>, <<1, 1>>}

=============================================================================
