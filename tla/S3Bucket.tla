------------------------------ MODULE S3Bucket ------------------------------
(***************************************************************************)
(* One S3Bucket (internal/controller/s3bucket/external.go): Observe,       *)
(* Create, Update and Delete, with the preset chosen from PresetCatalog.   *)
(* Whether a POST whose answer is lost is repeated is ExternalCreate's     *)
(* business; here the answer of a POST that was carried out arrives.       *)
(*                                                                         *)
(* The name may be edited, and Update refuses the new one.  A description  *)
(* may be left out, and then none is sent; the type, always declared and   *)
(* sent, fares as a declared description.  The project is left out of the  *)
(* model: no PATCH moves it.                                               *)
(***************************************************************************)
EXTENDS PresetCatalog

CONSTANTS
  BucketSpecs,  \* declarations: [name, class, size, desc]
  NoBucket,     \* nothing upstream
  NoDesc        \* no description: none declared, or an empty one upstream

ASSUME BucketAssumption ==
  \A s \in BucketSpecs : s.class \in Classes /\ s.size \in {p.disk : p \in Presets}

VARIABLES
  bobj,      \* the MR: "present", "deleting" or "gone"
  bspec,     \* its stored spec
  bext,      \* it has an external name
  bready,    \* its stored Ready condition is True
  drift,     \* its StorageClassDrift condition: "absent", "True" or "False"
  attached,  \* level of the user in status.attachedUsers
  bucket,    \* the bucket upstream
  bpc,       \* where the reconcile is
  bread,     \* the declaration it has read
  preset,    \* the preset it sends, 0 for none
  unseen     \* the class is not what Update has seen: it saw none, or the panel was there

bvars == <<bobj, bspec, bext, bready, drift, attached, bucket, bpc, bread, preset, unseen>>
bstatus == <<bready, drift, attached>>

Levels == {"none", "read", "read-write", "admin"}
Names == {s.name : s \in BucketSpecs}

Bodies == [name : Names, class : Classes, size : {p.disk : p \in Presets}, desc : {s.desc : s \in BucketSpecs},
           state : {"new", "created", "no_paid"}]

BucketTypeOK ==
  /\ bobj \in {"present", "deleting", "gone"} /\ bspec \in BucketSpecs /\ bread \in BucketSpecs
  /\ bext \in BOOLEAN /\ bready \in BOOLEAN /\ unseen \in BOOLEAN
  /\ drift \in {"absent", "True", "False"} /\ attached \in Levels
  /\ bucket \in Bodies \cup {NoBucket}
  /\ bpc \in {"idle", "resolve", "post", "update", "patch", "delete"}
  /\ preset \in {p.id : p \in Presets} \cup {0}
  /\ bpc \in {"update", "patch"} => bext
  /\ bpc = "post" => preset # 0

BucketInit ==
  /\ bobj = "present" /\ bspec \in BucketSpecs /\ bread = bspec /\ bext = FALSE
  /\ bready = FALSE /\ drift = "absent" /\ attached = "none" /\ bucket = NoBucket
  /\ bpc = "idle" /\ preset = 0 /\ unseen = FALSE

\* Neither the size nor the name is compared.
isUpToDate(s, b) == s.desc = b.desc

\* setBucketReadyCondition.
Available(b) == b.state = "created"

\* shown: the answer reports the class, which Timeweb may omit.
setStorageClassDriftCondition(s, b, shown) ==
  CASE shown /\ b.class # s.class -> "True"
    [] shown /\ b.class = s.class /\ drift # "absent" -> "False"
    [] OTHER -> drift

\* mirrored: what populateAttachedUsers may leave in the status.
ObserveBucket(mirrored, shown) ==
  /\ bpc = "idle" /\ bobj # "gone"
  /\ bread' = bspec
  /\ \/ /\ ~bext \/ (token /\ bucket = NoBucket)
        /\ bobj' = IF bobj = "deleting" THEN "gone" ELSE bobj
        /\ bpc' = IF bobj = "deleting" THEN "idle" ELSE "resolve"
        /\ UNCHANGED bstatus
     \/ /\ bext /\ token /\ bucket # NoBucket
        /\ bready' = Available(bucket)
        /\ drift' = setStorageClassDriftCondition(bspec, bucket, shown)
        /\ attached' \in mirrored
        /\ bpc' = CASE bobj = "deleting" -> "delete"
                    [] bobj = "present" /\ ~isUpToDate(bspec, bucket) -> "update"
                    [] OTHER -> "idle"
        /\ UNCHANGED bobj
  /\ UNCHANGED <<bspec, bext, bucket, preset, unseen, entry, age>>

\* resolvePresetID of Create.
resolvePresetID(fails) ==
  /\ bpc = "resolve"
  /\ \E answer \in {entry, Denied, Transient, List(catalog)} :
       /\ getOrFetch(answer, fails)
       /\ preset' = MatchPresetBySize(bread.size, bread.class, answer.list)
  /\ bpc' = IF preset' = 0 THEN "idle" ELSE "post"
  /\ UNCHANGED <<bobj, bspec, bext, bstatus, bucket, bread, unseen>>

\* The bucket a preset makes, by what Timeweb sells under that id now.
Sized(id, b) ==
  {[b EXCEPT !.class = p.class, !.size = p.disk] : p \in {q \in catalog : q.id = id}}

New == [name |-> bread.name, class |-> bread.class, size |-> bread.size, desc |-> bread.desc,
        state |-> "new"]

\* Refused with bad credentials, for a preset that is not sold any more, or by Timeweb
\* (fails).  The create's annotations are written whatever else happens to the object.
CreateStorage(fails) ==
  /\ bpc = "post" /\ bpc' = "idle" /\ preset' = 0
  /\ IF fails \/ ~token \/ Sized(preset, New) = {}
       THEN UNCHANGED <<bext, bucket, bready>>
       ELSE bext' = TRUE /\ bucket' \in Sized(preset, New) /\ bready' = FALSE
  /\ UNCHANGED <<bobj, bspec, drift, attached, bread, unseen, entry, age>>

\* Mistake: the class is not compared.
ClassUnchecked(s, b, shown) == FALSE

\* A class that is not reported is not compared.
ClassMismatch(s, b, shown) == shown /\ b.class # s.class

\* Mistake: every PATCH carries a preset.
AlwaysResize(s, b) == TRUE

\* "a tier is sent ONLY for a within-class resize".
Resizes(s, b) == b.size # s.size

\* Update up to its PATCH: the GET, name and class, and the preset of another size.
UpdateBucket(fails, shown) ==
  /\ bpc = "update"
  /\ IF ~token \/ bucket = NoBucket \/ fails
       THEN bpc' = "idle" /\ preset' = 0 /\ UNCHANGED cache
     ELSE IF bread.name # bucket.name \/ ClassMismatch(bread, bucket, shown)
       THEN bpc' = "idle" /\ preset' = 0 /\ UNCHANGED cache
     ELSE IF ~Resizes(bread, bucket)
       THEN bpc' = "patch" /\ preset' = 0 /\ UNCHANGED cache
     ELSE \E answer \in {entry, Denied, Transient, List(catalog)} :
            /\ getOrFetch(answer, FALSE)
            /\ preset' = MatchPresetBySize(bread.size, bread.class, answer.list)
            /\ bpc' = IF preset' = 0 THEN "idle" ELSE "patch"
  /\ unseen' = (bpc' = "patch" /\ ~shown)
  /\ UNCHANGED <<bobj, bspec, bext, bstatus, bucket, bread>>

\* The PATCH, of the description if one is declared; with fails it was not carried out.
UpdateStorage(fails) ==
  /\ bpc = "patch" /\ bpc' = "idle" /\ preset' = 0 /\ unseen' = FALSE
  /\ LET described == IF bread.desc = NoDesc THEN bucket ELSE [bucket EXCEPT !.desc = bread.desc]
     IN  IF fails \/ ~token \/ bucket = NoBucket \/ (preset # 0 /\ Sized(preset, described) = {})
           THEN UNCHANGED bucket
           ELSE bucket' \in IF preset = 0 THEN {described} ELSE Sized(preset, described)
  /\ UNCHANGED <<bobj, bspec, bext, bstatus, bread, entry, age>>

\* The DELETE, 404 included; the finalizer goes with the next Observe.
DeleteStorage(fails) ==
  /\ bpc = "delete" /\ bpc' = "idle"
  /\ IF fails \/ ~token \/ bucket = NoBucket
       THEN UNCHANGED <<bucket, bready>> ELSE bucket' = NoBucket /\ bready' = FALSE
  /\ UNCHANGED <<bobj, bspec, bext, drift, attached, bread, preset, unseen, entry, age>>

(***************************************************************************)
(* The operator, the panel and Timeweb.                                    *)
(***************************************************************************)
EditBucket ==
  /\ bobj = "present" /\ bspec' \in BucketSpecs \ {bspec}
  /\ UNCHANGED <<bobj, bext, bstatus, bucket, bpc, bread, preset, unseen>>

RequestBucketDelete ==
  /\ bobj = "present" /\ bobj' = "deleting"
  /\ UNCHANGED <<bspec, bext, bstatus, bucket, bpc, bread, preset, unseen>>

BucketCreated ==
  /\ bucket # NoBucket /\ bucket.state = "new" /\ bucket' = [bucket EXCEPT !.state = "created"]
  /\ UNCHANGED <<bobj, bspec, bext, bstatus, bpc, bread, preset, unseen>>

\* The panel resizes the bucket or moves it to another class, or deletes it.
PanelMovesBucket ==
  /\ bucket # NoBucket
  /\ \/ \E p \in catalog : bucket' \in Sized(p.id, bucket) \ {bucket}
     \/ bucket' = NoBucket
  /\ unseen' = (bpc = "patch")
  /\ UNCHANGED <<bobj, bspec, bext, bstatus, bpc, bread, preset>>

\* The rotation takes the buckets of a class with it.
RotateBuckets ==
  /\ Rotate
  /\ bucket' = IF bucket = NoBucket THEN bucket ELSE [bucket EXCEPT !.class = Rotated(@)]
  /\ UNCHANGED <<token, entry, age, bobj, bspec, bext, bstatus, bpc, bread, preset, unseen>>
=============================================================================
