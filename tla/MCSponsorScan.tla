--------------------------- MODULE MCSponsorScan ---------------------------
(* Small instances of SponsorScan for TLC.                                 *)
EXTENDS SponsorScan

CONSTANTS c1, c2, c3

\* c1 and c3 are channels, c2 is a group; a list longer than the cap leaves c3 out.
MCChats == {c1, c2, c3}
MCChannels == {c1, c3}
MCLists == {<<>>, <<c1>>, <<c2, c1>>, <<c1, c2, c3>>}
=============================================================================
