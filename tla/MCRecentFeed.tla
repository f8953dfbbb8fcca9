---------------------------- MODULE MCRecentFeed ----------------------------
(***************************************************************************)
(* TLC instances of RecentFeed: a buffer of four, walked one or two events *)
(* at a time while up to six arrive.  A finished walk and a consumed topic *)
(* end the behaviour, so the runs do not check deadlock.                   *)
(***************************************************************************)
EXTENDS RecentFeed

CONSTANTS here, there

HereAndThere == {here, there}
NarrowAndAll == {{here}, {here, there}}

\* Too small, in range and too large.
SomeLimits == {0, 2, 9}
=============================================================================
