---------------------------- MODULE ObjectStore ----------------------------
(***************************************************************************)
(* Compare-and-swap on one row of the gateway's object store (the          *)
(* "objects" table).  A row that does not exist has version 0.  An insert  *)
(* writes version 1, also when the same id existed before and was deleted, *)
(* so versions of a re-created row repeat those of the deleted one.        *)
(***************************************************************************)
EXTENDS Naturals

\* WriteCondition::MustCreate (expected is 0), MatchResourceVersion and
\* delete_if: the statement applies only to a row at the expected version.
SameVersion(version, expected) == version = expected

\* The version an insert (of version 0) or an update leaves.
NextVersion(version) == version + 1

=============================================================================
