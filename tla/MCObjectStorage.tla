-------------------------- MODULE MCObjectStorage --------------------------
(***************************************************************************)
(* ObjectStorage for TLC: a catalog of two classes, of which a rotation    *)
(* makes one, a bucket with edits of its description alone (which may be   *)
(* removed) and of everything at once (the name's is refused), sizes that  *)
(* the panel moves, and a user with grants by reference and by name, one   *)
(* set of which names the bucket twice.                                    *)
(***************************************************************************)
EXTENDS ObjectStorage

Preset(i, d, c) == [id |-> i, disk |-> d, class |-> c]
MCPresets == {Preset(1, 10, "hot"), Preset(2, 20, "standard"), Preset(3, 20, "hot")}

Bucket(n, c, s, d) == [name |-> n, class |-> c, size |-> s, desc |-> d]
MCBucketSpecs ==
  {Bucket("a", "hot", 10, NoDesc), Bucket("a", "hot", 10, "old"), Bucket("b", "standard", 20, "new")}

Grant(r, b, l) == [byRef |-> r, bucket |-> b, level |-> l]
MCUserSpecs ==
  {{Grant(TRUE, "a", "read-write")},
   {Grant(TRUE, "a", "read-write"), Grant(FALSE, "a", "admin")}}
=============================================================================
