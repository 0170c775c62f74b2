---------------------------- MODULE MCCollection ----------------------------
(***************************************************************************)
(* Small instances of Collection.  The streams s1 and s2 are two subjects  *)
(* of control k1; s3 shares the subject of s2.                             *)
(***************************************************************************)
EXTENDS Collection

CONSTANTS c1, c2, s1, s2, s3, k1, u1, u2

MCOne == << <<s1>> >>
MCShared == << <<s1>>, <<s2, s3>> >>
MCControlOf == [s \in Streams |-> k1]
MCSubjectOf == [s \in Streams |-> IF s = s1 THEN u1 ELSE u2]
=============================================================================
