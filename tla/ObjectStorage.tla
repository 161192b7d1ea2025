--------------------------- MODULE ObjectStorage ---------------------------
(***************************************************************************)
(* An S3Bucket and an S3User that is granted access to it: the bucket's    *)
(* readiness gates the user's reconcile, its name goes into the user's     *)
(* policy, and the policy is mirrored in the bucket's status.              *)
(***************************************************************************)
EXTENDS S3Bucket, S3User

CONSTANTS MaxFaults, MaxEdits, MaxMoves  \* what goes wrong; edits; panel and Timeweb

ASSUME StorageAssumption == MaxFaults \in Nat /\ MaxEdits \in Nat /\ MaxMoves \in Nat

VARIABLES
  admin,  \* the account has keys of its own, which sign requests about policies
  faults, edits, moves

vars == <<catalog, token, entry, age, bvars, uvars, admin, faults, edits, moves>>

TypeOK ==
  /\ CatalogTypeOK /\ BucketTypeOK /\ UserTypeOK /\ admin \in BOOLEAN
  /\ faults \in 0..MaxFaults /\ edits \in 0..MaxEdits /\ moves \in 0..MaxMoves

Init ==
  /\ CatalogInit /\ BucketInit /\ UserInit /\ admin = TRUE
  /\ faults = 0 /\ edits = 0 /\ moves = 0

Fault == faults < MaxFaults /\ faults' = faults + 1

\* DeriveAdminKeys, at every use.
signed == token /\ admin

(***************************************************************************)
(* resolveGrants.                                                          *)
(***************************************************************************)
Resolves(g) == g.byRef => bobj # "gone" /\ bready

Named(g) == [bucket |-> IF g.byRef THEN bspec.name ELSE g.bucket, level |-> g.level]

resolveGrants == {g \in uspec : Resolves(g)}

Duplicates == \E g, h \in resolveGrants : g # h /\ Named(g).bucket = Named(h).bucket

\* Mistake: the gate holds back a deletion as well.
ConnectsStrictly == ~Duplicates /\ signed /\ resolveGrants = uspec

\* While it is being deleted, a user does without the account's keys and without grants
\* that do not resolve; duplicates are an error all the same.
Connects ==
  /\ ~Duplicates
  /\ uobj = "deleting" \/ (signed /\ resolveGrants = uspec)

(***************************************************************************)
(* Steps.                                                                  *)
(***************************************************************************)
others == <<admin, edits, moves>>

\* Mistake: with no user to list the mirror stays as it is.
KeepsLast(fails) ==
  IF fails THEN {attached, "none"}
  ELSE IF admin /\ user # 0 THEN {DeriveLevel(policy, bspec.name)} ELSE {attached}

\* The level the user's policy grants on the bucket.  Without users nothing is signed;
\* without keys to sign with the mirror stays as it is, and so it does when the LIST
\* fails; a user whose policy cannot be read is left out.
populateAttachedUsers(fails) ==
  IF fails THEN {attached, "none"}
  ELSE IF admin \/ user = 0 THEN {DeriveLevel(policy, bspec.name)} ELSE {attached}

BucketStep ==
  /\ \E fails, shown \in BOOLEAN :
       /\ IF fails \/ ~shown THEN Fault ELSE UNCHANGED faults
       /\ \/ ObserveBucket(populateAttachedUsers(fails), shown) \/ UpdateBucket(fails, shown)
          \/ /\ shown
             /\ \/ resolvePresetID(fails) \/ CreateStorage(fails)
                \/ UpdateStorage(fails) \/ DeleteStorage(fails)
  /\ UNCHANGED <<catalog, token, uvars, others>>

UserObserves ==
  /\ Connects /\ ObserveUser({Named(g) : g \in resolveGrants}, token, signed)
  /\ UNCHANGED <<catalog, token, entry, age, bvars, others, faults>>

\* The credentials a request needs: the token for users, the account's keys for their
\* policies, both for a Delete and for an Update.
Permitted ==
  CASE upc \in {"list", "post"} -> token
    [] upc = "put" -> admin
    [] OTHER -> signed

UserStep ==
  /\ \E how \in {"ok", "refused", "lost"} :
       /\ \/ how = "ok" /\ Permitted /\ UNCHANGED faults
          \/ how = "refused" /\ ~Permitted /\ UNCHANGED faults
          \/ how # "ok" /\ Permitted /\ Fault
       /\ \/ findUserByName(how) \/ CreateStorageUser(how) \/ PutAndPublish(how)
          \/ UpdateUser(how) \/ DeleteUser(how)
  /\ UNCHANGED <<catalog, token, entry, age, bvars, others>>

Crash ==
  /\ Fault /\ CrashUser
  /\ UNCHANGED <<catalog, token, entry, age, bvars, others>>

Time == Tick /\ UNCHANGED <<bvars, uvars, others, faults>>

Provision == BucketCreated /\ UNCHANGED <<catalog, token, entry, age, uvars, others, faults>>

Edit ==
  /\ edits < MaxEdits /\ edits' = edits + 1
  /\ \/ EditBucket /\ UNCHANGED uvars
     \/ (EditUser \/ ClearMarker) /\ UNCHANGED bvars
  /\ UNCHANGED <<catalog, token, entry, age, admin, faults, moves>>

RequestDelete ==
  /\ \/ RequestBucketDelete /\ UNCHANGED uvars
     \/ RequestUserDelete /\ UNCHANGED bvars
  /\ UNCHANGED <<catalog, token, entry, age, others, faults>>

\* Somebody works in the panel, or Timeweb changes what it sells.
Move ==
  /\ moves < MaxMoves /\ moves' = moves + 1
  /\ \/ PanelMovesBucket /\ UNCHANGED <<catalog, token, entry, age, uvars, admin>>
     \/ PanelChangesUser /\ UNCHANGED <<catalog, token, entry, age, bvars, admin>>
     \/ RotateBuckets /\ UNCHANGED <<uvars, admin>>
     \/ SellOut /\ UNCHANGED <<token, entry, age, bvars, uvars, admin>>
     \/ token' = ~token /\ UNCHANGED <<catalog, entry, age, bvars, uvars, admin>>
     \/ admin' = ~admin /\ UNCHANGED <<catalog, token, entry, age, bvars, uvars>>
  /\ UNCHANGED <<faults, edits>>

Next ==
  \/ BucketStep \/ UserObserves \/ UserStep \/ Crash
  \/ Time \/ Provision \/ Edit \/ RequestDelete \/ Move

Spec == Init /\ [][Next]_vars

\* The work queues poll both resources for ever, time passes and buckets get ready.
FairSpec ==
  /\ Spec /\ WF_vars(BucketStep) /\ WF_vars(UserObserves \/ UserStep)
  /\ WF_vars(Time) /\ WF_vars(Provision)

(***************************************************************************)
(* Properties.                                                             *)
(***************************************************************************)
\* A class is a paid decision of the operator's: no reconcile moves a bucket to another
\* one, whatever preset it has taken from a stale catalog, unless Update does not know
\* the class: its GET was answered without one, or the panel works on the bucket between
\* the GET and the PATCH (Update, "Declared class # upstream class refuses the whole
\* update").
ClassKept ==
  [][ /\ bucket # NoBucket /\ bucket' # NoBucket
      => bucket'.class = bucket.class \/ moves' # moves \/ unseen ]_vars

\* The key of a live user is in the connection Secret, although only the answer to the
\* POST contains it, unless that answer or what Create did with it was lost
\* ("republishing here would blank the Secret irrecoverably").
KeyPublished ==
  upc = "idle" /\ uext # 0 /\ user = uext /\ uext \notin lost => secret = uext

Sellable == MatchPresetBySize(bspec.size, bspec.class, catalog) # 0

\* A declared bucket comes into being and takes over every description declared for it,
\* after any fault and with a refusal of the catalog in the cache; only a name or a
\* class that does not match, or a size that is not sold, holds it back
\* (resolvePresetID, Update).  Removing a description is not among it: Observe compares
\* that and Update sends nothing.
BucketConverges ==
  <>[](/\ bobj = "present" /\ token /\ bspec.desc # NoDesc
       /\ Sellable \/ (bext /\ bucket # NoBucket /\ bucket.size = bspec.size))
    => <>[](/\ bext /\ bucket # NoBucket
            /\ bucket.name = bspec.name /\ bucket.class = bspec.class => isUpToDate(bspec, bucket))

\* The user is granted what is declared and nothing else, through edits, panel work,
\* lost answers and a user that is deleted and made again (Create, Update).
GrantsConverge ==
  <>[](uobj = "present" /\ ~doubt /\ signed /\ Connects)
    => <>[](/\ user # 0 /\ user = uext
            /\ policy = RenderPolicy({Named(g) : g \in uspec}))

\* With good credentials no user is being deleted for ever: its deletion does not wait
\* for the buckets, which may be gone or not Ready by then ("must NOT hard-fail Connect",
\* resolveGrants).
UserDeletes ==
  []<>~(uobj = "deleting" /\ signed /\ ~doubt /\ ~Duplicates)

\* The bucket's status ends up naming the level its user has (populateAttachedUsers,
\* DeriveLevelForBucket), which was written by another controller at any time.
MirrorFollows ==
  <>[](signed /\ bobj = "present" /\ bext /\ bucket # NoBucket)
    => <>[](attached = DeriveLevel(policy, bspec.name))
=============================================================================
