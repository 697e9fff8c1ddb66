------------------------- MODULE MCSchemaMigrations -------------------------
(***************************************************************************)
(* A release and its successor, and an image of a branch whose second file *)
(* differs.  The third file commits by itself.                             *)
(***************************************************************************)
EXTENDS SchemaMigrations

Released == [c \in {"old", "new", "branch"} |->
  CASE c = "old" -> <<"f1", "f2">>
    [] c = "new" -> <<"f1", "f2", "f3">>
    [] c = "branch" -> <<"f1", "g2", "f3">>]
=============================================================================
