---------------------------- MODULE MCMetaRebuild ----------------------------
(* One resource, a replacement of its plugin and two pages viewed, at once *)
(* or in turn; two of three plugins provide hashes, two metadata, so that a*)
(* replacement meets one that provides only the one or only the other.     *)
EXTENDS MetaRebuild
=============================================================================
