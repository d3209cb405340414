------------------------- MODULE MCAuthorityStart -------------------------
(* AuthorityStart for TLC.                                                 *)
EXTENDS AuthorityStartProperties

===========================================================================
