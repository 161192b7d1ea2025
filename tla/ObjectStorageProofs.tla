------------------------ MODULE ObjectStorageProofs ------------------------
(***************************************************************************)
(* Machine-checked proofs about ObjectStorage, for every catalog, every    *)
(* set of declarations and any number of faults, edits and moves.          *)
(***************************************************************************)
EXTENDS ObjectStorage, FiniteSetTheorems, TLAPS

Ids == {p.id : p \in Presets}
Disks == {p.disk : p \in Presets}
Descs == {s.desc : s \in BucketSpecs}

Counted == faults \in 0..MaxFaults /\ edits \in 0..MaxEdits /\ moves \in 0..MaxMoves

\* What the reconcile of a user knows about the user it has in hand: numbers are not
\* used twice, a user whose key is not in the Secret is one that Create still holds or
\* whose key is lost, and Create is only ever about another user than the recorded one.
KeyInv ==
  /\ user <= users /\ uext <= users /\ found <= users
  /\ key => upc = "put"
  /\ upc = "put" <=> found # 0
  /\ upc = "update" => uext # 0
  /\ upc \in {"list", "post", "put"} => user = 0 \/ user # uext
  /\ user # 0 /\ user # uext /\ user \notin lost => upc = "put" /\ key /\ found = user
  /\ user # 0 /\ user = uext /\ user \notin lost => secret = user

\* What was sold before the rotation and after it.
After == {[p EXCEPT !.class = Rotated(@)] : p \in Presets}

\* What is sold and what is cached are from before the rotation, or it has happened: then
\* no bucket is of the class that went.
CatalogInv ==
  \/ catalog \subseteq Presets /\ entry.list \subseteq Presets
  \/ /\ catalog \subseteq After /\ entry.list \subseteq Presets \cup After
     /\ bucket # NoBucket => bucket.class # "hot"

\* The preset a PATCH carries is of the bucket's class, by what Timeweb sells now, if
\* Update has seen that class.
PatchInv ==
  bpc = "patch" /\ ~unseen /\ bucket # NoBucket /\ preset # 0 =>
    \A p \in catalog : p.id = preset => p.class = bucket.class

\* A bucket is created where there is none.
CreateInv ==
  /\ ~bext => bucket = NoBucket
  /\ bpc \in {"resolve", "post"} => bucket = NoBucket

Inv == TypeOK /\ CatalogInv /\ PatchInv /\ CreateInv /\ KeyInv

\* The steps of the user's reconcile and what else happens to the user.
UserActs ==
  \/ ObserveUser({Named(g) : g \in resolveGrants}, token, signed)
  \/ \E how \in {"ok", "refused", "lost"} :
       \/ findUserByName(how) \/ CreateStorageUser(how) \/ PutAndPublish(how)
       \/ UpdateUser(how) \/ DeleteUser(how)
  \/ CrashUser \/ EditUser \/ RequestUserDelete \/ ClearMarker \/ PanelChangesUser

\* UserTypeOK, in three parts.
UserState ==
  /\ uobj \in {"present", "deleting", "gone"} /\ uspec \in UserSpecs
  /\ upc \in {"idle", "list", "post", "put", "update", "delete"}
UserFlags == uready \in BOOLEAN /\ key \in BOOLEAN /\ doubt \in BOOLEAN
UserNumbers ==
  /\ uext \in 0..MaxUsers /\ secret \in 0..MaxUsers /\ user \in 0..MaxUsers
  /\ users \in 0..MaxUsers /\ found \in 0..MaxUsers /\ lost \subseteq 1..MaxUsers
UserPolicy == policy.attached \in BOOLEAN /\ (user = 0 => policy = NoPolicy)

LEMMA UserParts == UserTypeOK <=> UserState /\ UserFlags /\ UserNumbers /\ UserPolicy
  BY DEF UserTypeOK, UserState, UserFlags, UserNumbers, UserPolicy

\* A policy says whether it is attached.
LEMMA Policies == NoPolicy.attached \in BOOLEAN /\ \A g : RenderPolicy(g).attached \in BOOLEAN
  BY DEF NoPolicy, RenderPolicy

\* The user's steps keep its types and what is known about its key.
LEMMA UserKept ==
  ASSUME UserTypeOK, KeyInv, UserActs
  PROVE  UserTypeOK' /\ KeyInv'
<1>0. UserState /\ UserFlags /\ UserNumbers /\ UserPolicy
  BY UserParts
<1>1. CASE ObserveUser({Named(g) : g \in resolveGrants}, token, signed)
  BY <1>1 DEF ObserveUser, create, UserTypeOK, KeyInv
<1>2. ASSUME NEW how \in {"ok", "refused", "lost"}, findUserByName(how)
      PROVE  UserTypeOK' /\ KeyInv'
  <2>1. UserState'
    BY <1>0, <1>2 DEF UserState, findUserByName
  <2>2. UserFlags'
    BY <1>0, <1>2 DEF UserFlags, findUserByName
  <2>3. UserNumbers' /\ KeyInv'
    BY <1>0, <1>2, KeyInv, UserAssumption DEF UserNumbers, UserFlags, KeyInv, findUserByName
  <2>4. UserPolicy'
    BY <1>0, <1>2, Policies DEF UserNumbers, UserPolicy, findUserByName
  <2> QED BY <2>1, <2>2, <2>3, <2>4, UserParts DEF UserTypeOK, UserState, UserFlags, UserNumbers, UserPolicy
<1>3. ASSUME NEW how \in {"ok", "refused", "lost"}, CreateStorageUser(how)
      PROVE  UserTypeOK' /\ KeyInv'
  <2>1. UserState'
    BY <1>0, <1>3 DEF UserState, CreateStorageUser
  <2>2. UserFlags'
    BY <1>0, <1>3 DEF UserFlags, CreateStorageUser
  <2>3. UserNumbers' /\ KeyInv'
    <3>1. CASE how = "refused"
      <4>1. UserNumbers'
        BY <3>1, <1>0, <1>3 DEF UserNumbers, CreateStorageUser
      <4>2. upc = "post" /\ upc' = "idle" /\ UNCHANGED <<user, users, found, key, lost, uext, secret>>
        BY <3>1, <1>3 DEF CreateStorageUser
      <4>3. KeyInv'
        BY <4>2, <1>0, KeyInv DEF KeyInv, UserFlags
      <4> QED BY <4>1, <4>3
    <3>2. CASE how = "ok"
      <4>1. /\ upc' = "put" /\ users < MaxUsers /\ users' = users + 1 /\ user' = users + 1
            /\ found' = users + 1 /\ lost' = lost /\ uext' = uext /\ secret' = secret
        BY <3>2, <1>3 DEF CreateStorageUser
      <4>2. key'
        BY <3>2, <1>3 DEF CreateStorageUser
      <4>3. UserNumbers'
        BY <4>1, <1>0, UserAssumption DEF UserNumbers
      <4>4. KeyInv'
        BY <4>1, <4>2, <1>0, KeyInv, UserAssumption DEF KeyInv, UserNumbers
      <4> QED BY <4>3, <4>4
    <3>3. CASE how = "lost"
      <4>1. /\ upc' = "idle" /\ users < MaxUsers /\ users' = users + 1 /\ user' = users + 1
            /\ found' = 0 /\ lost' = lost \cup {users + 1} /\ uext' = uext /\ secret' = secret
        BY <3>3, <1>3 DEF CreateStorageUser
      <4>2. ~key'
        BY <3>3, <1>3 DEF CreateStorageUser
      <4>3. UserNumbers'
        BY <4>1, <1>0, UserAssumption DEF UserNumbers
      <4>4. KeyInv'
        BY <4>1, <4>2, <1>0, KeyInv, UserAssumption DEF KeyInv, UserNumbers
      <4> QED BY <4>3, <4>4
    <3> QED BY <3>1, <3>2, <3>3, <1>3
  <2>4. UserPolicy'
    BY <1>0, <1>3, Policies DEF UserNumbers, UserPolicy, CreateStorageUser
  <2> QED BY <2>1, <2>2, <2>3, <2>4, UserParts DEF UserTypeOK, UserState, UserFlags, UserNumbers, UserPolicy
<1>4. ASSUME NEW how \in {"ok", "refused", "lost"}, PutAndPublish(how)
      PROVE  UserTypeOK' /\ KeyInv'
  <2>1. UserState'
    BY <1>0, <1>4 DEF UserState, PutAndPublish
  <2>2. UserFlags'
    BY <1>0, <1>4 DEF UserFlags, PutAndPublish
  <2>3. /\ upc = "put" /\ upc' = "idle" /\ found' = 0 /\ ~key' /\ uext' = found
        /\ user' = user /\ users' = users
    BY <1>4 DEF PutAndPublish
  <2>4. \/ user = found /\ lost' = lost /\ key /\ secret' = found
        \/ lost' = lost /\ ~key /\ secret' = secret
        \/ lost' = lost \cup {found} /\ key /\ secret' = secret
    BY <1>4 DEF PutAndPublish
  <2>5. found \in 1..MaxUsers
    BY <2>3, <1>0, KeyInv, UserAssumption DEF UserNumbers, KeyInv
  <2>6. (lost' = lost \/ lost' = lost \cup {found}) /\ (secret' = secret \/ secret' = found)
    BY <2>4
  <2>7. lost' \subseteq 1..MaxUsers
    BY <2>5, <2>6, <1>0 DEF UserNumbers
  <2>8. secret' \in 0..MaxUsers
    BY <2>6, <1>0 DEF UserNumbers
  <2>9. UserNumbers'
    BY <2>3, <2>7, <2>8, <1>0, UserAssumption DEF UserNumbers
  <2>10. KeyInv'
    BY <2>3, <2>4, <1>0, KeyInv DEF UserNumbers, KeyInv
  <2>11. UserPolicy'
    BY <1>0, <1>4, KeyInv, Policies DEF KeyInv, UserNumbers, UserPolicy, PutAndPublish
  <2> QED BY <2>1, <2>2, <2>9, <2>10, <2>11 DEF UserTypeOK, UserState, UserFlags, UserNumbers, UserPolicy
<1>5. ASSUME NEW how \in {"ok", "refused", "lost"}, UpdateUser(how)
      PROVE  UserTypeOK' /\ KeyInv'
  <2>1. UserState'
    BY <1>0, <1>5 DEF UserState, UpdateUser
  <2>2. UserFlags'
    BY <1>0, <1>5 DEF UserFlags, UpdateUser, create
  <2>3. UserNumbers' /\ KeyInv'
    BY <1>0, <1>5, KeyInv, UserAssumption DEF UserNumbers, UserFlags, KeyInv, UpdateUser, create
  <2>4. UserPolicy'
    BY <1>0, <1>5, KeyInv, Policies DEF KeyInv, UserNumbers, UserPolicy, UpdateUser
  <2> QED BY <2>1, <2>2, <2>3, <2>4, UserParts DEF UserTypeOK, UserState, UserFlags, UserNumbers, UserPolicy
<1>6. ASSUME NEW how \in {"ok", "refused", "lost"}, DeleteUser(how)
      PROVE  UserTypeOK' /\ KeyInv'
  <2>1. UserState'
    BY <1>0, <1>6 DEF UserState, DeleteUser
  <2>2. UserFlags'
    BY <1>0, <1>6 DEF UserFlags, DeleteUser, create
  <2>3. UserNumbers' /\ KeyInv'
    BY <1>0, <1>6, KeyInv, UserAssumption DEF UserNumbers, UserFlags, KeyInv, DeleteUser, create
  <2>4. UserPolicy'
    BY <1>0, <1>6, Policies DEF UserNumbers, UserPolicy, DeleteUser
  <2> QED BY <2>1, <2>2, <2>3, <2>4, UserParts DEF UserTypeOK, UserState, UserFlags, UserNumbers, UserPolicy
<1>7. CASE CrashUser
  <2>1. UserState'
    BY <1>0, <1>7 DEF UserState, CrashUser
  <2>2. key' = FALSE /\ doubt' = (upc \in {"list", "post", "put"}) /\ uready' = uready
    BY <1>7, Zenon DEF CrashUser
  <2>3. doubt' \in BOOLEAN
    <3>1. CASE upc \in {"list", "post", "put"}
      BY <3>1, <2>2
    <3>2. CASE ~(upc \in {"list", "post", "put"})
      BY <3>2, <2>2
    <3> QED BY <3>1, <3>2
  <2>4. UserFlags'
    BY <2>2, <2>3, <1>0 DEF UserFlags
  <2>5. UserPolicy'
    BY <1>0, <1>7 DEF UserPolicy, CrashUser
  <2>6. /\ upc' = "idle" /\ found' = 0 /\ ~key' /\ UNCHANGED <<uext, secret, user, users>>
        /\ (key /\ lost' = lost \cup {found}) \/ (~key /\ lost' = lost)
    BY <1>7 DEF CrashUser
  <2>7. key => found \in 1..MaxUsers
    BY <1>0, KeyInv, UserAssumption DEF UserNumbers, KeyInv
  <2>8. lost' \subseteq 1..MaxUsers
    <3>1. CASE key
      BY <3>1, <2>6, <2>7, <1>0 DEF UserNumbers
    <3>2. CASE ~key
      BY <3>2, <2>6, <1>0 DEF UserNumbers
    <3> QED BY <3>1, <3>2
  <2>9. UserNumbers'
    BY <2>6, <2>8, <1>0, UserAssumption DEF UserNumbers
  <2>10. KeyInv'
    BY <2>6, <1>0, KeyInv DEF UserNumbers, KeyInv
  <2> QED BY <2>1, <2>5, <2>9, <2>10, <2>4 DEF UserTypeOK, UserState, UserFlags, UserNumbers, UserPolicy
<1>8. CASE EditUser \/ RequestUserDelete \/ ClearMarker
  <2>1. UserFlags' /\ UserPolicy' /\ UserState' /\ UserNumbers'
    BY <1>0, <1>8 DEF UserFlags, UserPolicy, UserState, UserNumbers, EditUser, RequestUserDelete, ClearMarker, create
  <2>2. KeyInv'
    BY <1>8, KeyInv DEF KeyInv, EditUser, RequestUserDelete, ClearMarker, create
  <2> QED BY <2>1, <2>2 DEF UserTypeOK, UserState, UserFlags, UserNumbers, UserPolicy
<1>9. CASE PanelChangesUser
  <2>1. UserState' /\ UserFlags' /\ UserPolicy'
    BY <1>9, <1>0, Policies DEF PanelChangesUser, create, UserState, UserFlags, UserPolicy
  <2>2. /\ user' = 0 \/ user' = user
        /\ UNCHANGED <<uext, secret, users, upc, found, key, lost>>
    BY <1>9 DEF PanelChangesUser, create
  <2>3. UserNumbers'
    BY <2>2, <1>0, UserAssumption DEF UserNumbers
  <2>4. KeyInv'
    BY <2>2, <1>0, KeyInv DEF UserNumbers, UserFlags, KeyInv
  <2> QED BY <2>1, <2>3, <2>4 DEF UserTypeOK, UserState, UserFlags, UserNumbers, UserPolicy
<1> QED BY <1>1, <1>2, <1>3, <1>4, <1>5, <1>6, <1>7, <1>8, <1>9 DEF UserActs

(***************************************************************************)
(* The catalog and the bucket.                                             *)
(***************************************************************************)
Sold1 == [id : Ids, disk : Disks, class : Classes]

\* A preset that matches is one of the list, of the class and the size.
LEMMA Matched ==
  ASSUME NEW size, NEW class, NEW list, MatchPresetBySize(size, class, list) # 0
  PROVE  \E p \in list : /\ p.id = MatchPresetBySize(size, class, list)
                         /\ p.class = class /\ p.disk = size
<1>1. Cardinality(Matches(size, class, list)) = 1
  BY DEF MatchPresetBySize
<1>2. Matches(size, class, list) # {}
  BY <1>1, FS_EmptySet
<1>3. PICK p \in Matches(size, class, list) :
        p = CHOOSE q \in Matches(size, class, list) : TRUE
  BY <1>2
<1>4. MatchPresetBySize(size, class, list) = p.id
  BY <1>1, <1>3 DEF MatchPresetBySize
<1> QED BY <1>3, <1>4 DEF Matches

\* The preset of a list of presets.
LEMMA MatchedId ==
  ASSUME NEW size, NEW class, NEW list \in SUBSET Sold1
  PROVE  MatchPresetBySize(size, class, list) \in Ids \cup {0}
<1>1. CASE MatchPresetBySize(size, class, list) = 0
  BY <1>1
<1>2. CASE MatchPresetBySize(size, class, list) # 0
  BY <1>2, Matched DEF Sold1
<1> QED BY <1>1, <1>2

\* What a preset makes of a bucket.
LEMMA SizedBodies ==
  ASSUME NEW b \in Bodies, NEW id, catalog \subseteq Sold1
  PROVE  \A c \in Sized(id, b) :
           /\ c \in Bodies
           /\ \E p \in catalog : p.id = id /\ c.class = p.class
<1> SUFFICES ASSUME NEW p \in catalog, p.id = id,
                    NEW c, c = [b EXCEPT !.class = p.class, !.size = p.disk]
             PROVE  c \in Bodies /\ c.class = p.class
  BY DEF Sized
<1>1. p.class \in Classes /\ p.disk \in Disks
  BY DEF Sold1
<1> QED BY <1>1 DEF Bodies, Disks

\* What getOrFetch answers and what it leaves in the cache.
LEMMA Fetched ==
  ASSUME CatalogTypeOK, NEW fails \in BOOLEAN,
         NEW answer \in {entry, Denied, Transient, List(catalog)}, getOrFetch(answer, fails)
  PROVE  /\ answer.list \subseteq Sold1
         /\ answer.list = entry.list \/ answer.list = {} \/ answer.list = catalog
         /\ entry' \in [kind : {"none", "denied", "list"}, list : Sold] /\ age' \in 0..TTL
         /\ entry'.list = entry.list \/ entry'.list = {} \/ entry'.list = catalog
<1>1. Sold = SUBSET Sold1
  BY DEF Sold, Sold1, Ids, Disks
<1>2. entry.list \subseteq Sold1 /\ catalog \subseteq Sold1
  BY <1>1 DEF CatalogTypeOK
<1>3. Denied.list = {} /\ Transient.list = {} /\ List(catalog).list = catalog
  BY DEF Denied, Transient, List
<1>4. /\ answer.list \subseteq Sold1
      /\ answer.list = entry.list \/ answer.list = {} \/ answer.list = catalog
  BY <1>2, <1>3
<1>5. (entry' = entry /\ age' = age) \/ (entry' = answer /\ age' = 0 /\ answer \in {Denied, List(catalog)})
  BY DEF getOrFetch, cache, Denied, List, Transient
<1>6. Denied \in [kind : {"none", "denied", "list"}, list : Sold]
  BY <1>1 DEF Denied
<1>7. List(catalog) \in [kind : {"none", "denied", "list"}, list : Sold]
  BY <1>1, <1>2 DEF List
<1>8. entry' \in [kind : {"none", "denied", "list"}, list : Sold] /\ age' \in 0..TTL
  BY <1>5, <1>6, <1>7, CatalogAssumption DEF CatalogTypeOK
<1> QED BY <1>3, <1>4, <1>5, <1>8

\* BucketTypeOK, in three parts.
BucketState ==
  /\ bobj \in {"present", "deleting", "gone"} /\ bspec \in BucketSpecs /\ bread \in BucketSpecs
  /\ drift \in {"absent", "True", "False"} /\ attached \in Levels
BucketFlags == bext \in BOOLEAN /\ bready \in BOOLEAN /\ unseen \in BOOLEAN
BucketStage ==
  /\ bucket \in Bodies \cup {NoBucket}
  /\ bpc \in {"idle", "resolve", "post", "update", "patch", "delete"}
  /\ preset \in Ids \cup {0}
  /\ bpc \in {"update", "patch"} => bext
  /\ bpc = "post" => preset # 0

LEMMA BucketParts == BucketTypeOK <=> BucketState /\ BucketFlags /\ BucketStage
  BY DEF BucketTypeOK, BucketState, BucketFlags, BucketStage, Ids

BucketInv == CatalogTypeOK /\ BucketTypeOK /\ CatalogInv /\ PatchInv /\ CreateInv

\* What ClassKept says of a step of a reconcile.
ClassStep == bucket # NoBucket /\ bucket' # NoBucket => bucket'.class = bucket.class \/ unseen

\* Presets are what they were before the rotation, apart from their class.
LEMMA AfterOf ==
  ASSUME NEW p \in Presets, NEW q \in After, p.id = q.id
  PROVE  q.class = Rotated(p.class)
<1>1. PICK r \in Presets : q = [r EXCEPT !.class = Rotated(@)]
  BY DEF After
<1>2. q.id = r.id /\ q.class = Rotated(r.class)
  BY <1>1, CatalogAssumption
<1> QED BY <1>2, CatalogAssumption

\* After the rotation two presets of one id are of one class.
LEMMA AfterOne ==
  ASSUME NEW p \in After, NEW q \in After, p.id = q.id
  PROVE  p.class = q.class
<1>1. PICK r \in Presets : p = [r EXCEPT !.class = Rotated(@)]
  BY DEF After
<1>2. p.id = r.id /\ p.class = Rotated(r.class)
  BY <1>1, CatalogAssumption
<1> QED BY <1>2, AfterOf

\* A preset that was taken from the cache for the class the bucket has is of that class
\* now: the rotation would have taken the bucket along.
LEMMA PatchFits ==
  ASSUME CatalogInv, bucket # NoBucket, NEW size, NEW list,
         list = entry.list \/ list = {} \/ list = catalog,
         MatchPresetBySize(size, bucket.class, list) # 0,
         NEW q \in catalog, q.id = MatchPresetBySize(size, bucket.class, list)
  PROVE  q.class = bucket.class
<1>1. PICK p \in list : p.id = q.id /\ p.class = bucket.class
  BY Matched
<1>2. CASE catalog \subseteq Presets /\ entry.list \subseteq Presets
  BY <1>1, <1>2, CatalogAssumption
<1>3. CASE /\ catalog \subseteq After /\ entry.list \subseteq Presets \cup After
           /\ bucket.class # "hot"
  <2>1. CASE p \in After
    BY <2>1, <1>1, <1>3, AfterOne
  <2>2. CASE p \in Presets
    BY <2>2, <1>1, <1>3, AfterOf DEF Rotated
  <2> QED BY <2>1, <2>2, <1>1, <1>3
<1> QED BY <1>2, <1>3 DEF CatalogInv

\* An answer of the catalog leaves in the cache what CatalogInv says.
LEMMA CacheKept ==
  ASSUME CatalogInv, catalog' = catalog, bucket' = bucket,
         entry'.list = entry.list \/ entry'.list = {} \/ entry'.list = catalog
  PROVE  CatalogInv'
<1>1. CASE catalog \subseteq Presets /\ entry.list \subseteq Presets
  BY <1>1 DEF CatalogInv
<1>2. CASE /\ catalog \subseteq After /\ entry.list \subseteq Presets \cup After
           /\ bucket # NoBucket => bucket.class # "hot"
  <2>1. catalog' \subseteq After /\ entry'.list \subseteq Presets \cup After
    BY <1>2
  <2> QED BY <1>2, <2>1 DEF CatalogInv
<1> QED BY <1>1, <1>2 DEF CatalogInv

\* Nothing that is sold after the rotation is of the class that went.
LEMMA AfterCold == \A p \in After : p.class # "hot"
  BY CatalogAssumption DEF After, Rotated

\* A step that touches neither the catalog nor the cache, and makes of the bucket
\* nothing, something of the same class or something that is sold.
LEMMA BucketChanged ==
  ASSUME CatalogInv, UNCHANGED <<catalog, entry>>,
         \/ bucket' = NoBucket
         \/ bucket # NoBucket /\ bucket'.class = bucket.class
         \/ \E p \in catalog : bucket'.class = p.class
  PROVE  CatalogInv'
<1>1. CASE catalog \subseteq Presets /\ entry.list \subseteq Presets
  BY <1>1 DEF CatalogInv
<1>2. CASE /\ catalog \subseteq After /\ entry.list \subseteq Presets \cup After
           /\ bucket # NoBucket => bucket.class # "hot"
  <2>1. bucket' # NoBucket => bucket'.class # "hot"
    BY <1>2, AfterCold
  <2> QED BY <1>2, <2>1 DEF CatalogInv
<1> QED BY <1>1, <1>2 DEF CatalogInv

\* The level of a policy is one of the four.
LEMMA LevelTypes == \A p, n : DeriveLevel(p, n) \in Levels
  BY DEF DeriveLevel, Levels

\* A step that leaves the catalog and the bucket alone and is not about a PATCH.
LEMMA Elsewhere ==
  ASSUME BucketInv, UNCHANGED <<catalog, token, bucket, unseen>>,
         CatalogTypeOK', BucketState', BucketFlags', BucketStage',
         entry'.list = entry.list \/ entry'.list = {} \/ entry'.list = catalog,
         bpc' # "patch", bext' = bext,
         bpc' \in {"resolve", "post"} => bucket = NoBucket
  PROVE  BucketInv' /\ ClassStep
<1>1. CatalogInv'
  BY CacheKept DEF BucketInv
<1>2. PatchInv' /\ CreateInv'
  BY DEF BucketInv, PatchInv, CreateInv
<1>3. ClassStep
  BY DEF ClassStep
<1> QED BY <1>1, <1>2, <1>3 DEF BucketInv, BucketTypeOK, BucketState, BucketFlags, BucketStage, Ids

\* The types of the parts of BucketInv.
LEMMA BucketHas ==
  ASSUME BucketInv
  PROVE  /\ BucketState /\ BucketFlags /\ BucketStage /\ CatalogTypeOK
         /\ CatalogInv /\ PatchInv /\ CreateInv
         /\ catalog \subseteq Sold1 /\ token \in BOOLEAN
  BY BucketParts DEF BucketInv, CatalogTypeOK, Sold, Sold1, Ids, Disks

\* Observe.
LEMMA ObserveKept ==
  ASSUME BucketInv, UNCHANGED <<catalog, token>>, NEW fails \in BOOLEAN, NEW shown \in BOOLEAN,
         ObserveBucket(populateAttachedUsers(fails), shown)
  PROVE  BucketInv' /\ ClassStep
<1>0. /\ BucketState /\ BucketFlags /\ BucketStage /\ CatalogTypeOK /\ CreateInv
  BY BucketHas
<1>1. UNCHANGED <<bspec, bext, bucket, preset, unseen, entry, age>> /\ bread' = bspec
  BY DEF ObserveBucket
<1>2. bpc' \in {"idle", "resolve", "update", "delete"} /\ bobj' \in {"present", "deleting", "gone"}
  BY <1>0 DEF ObserveBucket, BucketState
<1>3. bpc' = "resolve" => bucket = NoBucket
  BY <1>0 DEF ObserveBucket, CreateInv
<1>4. bpc' = "update" => bext
  BY DEF ObserveBucket
<1>5. drift' \in {"absent", "True", "False"}
  BY <1>0 DEF ObserveBucket, setStorageClassDriftCondition, bstatus, BucketState
<1>6. \A l \in populateAttachedUsers(fails) : l \in Levels
  BY <1>0, LevelTypes DEF populateAttachedUsers, BucketState, Levels
<1>7. attached' \in Levels
  BY <1>0, <1>6 DEF ObserveBucket, bstatus, BucketState
<1>8. bready' \in BOOLEAN
  <2>1. CASE bready' = bready
    BY <2>1, <1>0 DEF BucketFlags
  <2>2. CASE bready' = Available(bucket)
    BY <2>2 DEF Available
  <2> QED BY <2>1, <2>2 DEF ObserveBucket, bstatus
<1>9. BucketState' /\ BucketFlags' /\ BucketStage'
  <2>1. BucketState'
    BY <1>0, <1>1, <1>2, <1>5, <1>7 DEF BucketState
  <2>2. BucketFlags'
    BY <1>0, <1>1, <1>8 DEF BucketFlags
  <2>3. BucketStage'
    BY <1>0, <1>1, <1>2, <1>4 DEF BucketStage
  <2> QED BY <2>1, <2>2, <2>3
<1>10. CatalogTypeOK'
  BY <1>0, <1>1 DEF CatalogTypeOK, Sold
<1> QED BY <1>1, <1>2, <1>3, <1>9, <1>10, Elsewhere

\* The preset of a new bucket.
LEMMA ResolveKept ==
  ASSUME BucketInv, UNCHANGED <<catalog, token>>, NEW fails \in BOOLEAN, resolvePresetID(fails)
  PROVE  BucketInv' /\ ClassStep
<1>0. /\ BucketState /\ BucketFlags /\ BucketStage /\ CatalogTypeOK /\ CreateInv
  BY BucketHas
<1>1. PICK answer \in {entry, Denied, Transient, List(catalog)} :
        /\ getOrFetch(answer, fails)
        /\ preset' = MatchPresetBySize(bread.size, bread.class, answer.list)
  BY DEF resolvePresetID
<1>2. /\ answer.list \in SUBSET Sold1
      /\ entry' \in [kind : {"none", "denied", "list"}, list : Sold] /\ age' \in 0..TTL
      /\ entry'.list = entry.list \/ entry'.list = {} \/ entry'.list = catalog
  BY <1>0, <1>1, Fetched
<1>3. preset' \in Ids \cup {0}
  BY <1>1, <1>2, MatchedId
<1>4. /\ bpc' = (IF preset' = 0 THEN "idle" ELSE "post") /\ bucket = NoBucket
      /\ UNCHANGED <<bobj, bspec, bext, bready, drift, attached, bucket, bread, unseen>>
  BY <1>0 DEF resolvePresetID, bstatus, CreateInv
<1>5. BucketState' /\ BucketFlags'
  BY <1>0, <1>4 DEF BucketState, BucketFlags
<1>6. BucketStage'
  BY <1>0, <1>3, <1>4 DEF BucketStage
<1>7. CatalogTypeOK'
  BY <1>0, <1>2 DEF CatalogTypeOK, Sold
<1> QED BY <1>2, <1>4, <1>5, <1>6, <1>7, Elsewhere

\* The POST.
LEMMA CreateKept ==
  ASSUME BucketInv, UNCHANGED <<catalog, token>>, NEW fails \in BOOLEAN, CreateStorage(fails)
  PROVE  BucketInv' /\ ClassStep
<1>0. /\ BucketState /\ BucketFlags /\ BucketStage /\ CatalogTypeOK /\ CreateInv /\ CatalogInv
      /\ catalog \subseteq Sold1
  BY BucketHas
<1>1. /\ bpc' = "idle" /\ preset' = 0 /\ bucket = NoBucket
      /\ UNCHANGED <<bobj, bspec, drift, attached, bread, unseen, entry, age>>
  BY <1>0 DEF CreateStorage, CreateInv
<1>2. \/ UNCHANGED <<bext, bucket, bready>>
      \/ bext' = TRUE /\ bucket' \in Sized(preset, New) /\ bready' = FALSE
  BY DEF CreateStorage
<1>3. New \in Bodies
  BY <1>0, BucketAssumption DEF New, Bodies, BucketState, Names
<1>4. \/ bucket' = NoBucket
      \/ bucket' \in Bodies /\ bext' /\ \E p \in catalog : bucket'.class = p.class
  BY <1>0, <1>1, <1>2, <1>3, SizedBodies
<1>5. BucketState' /\ BucketFlags'
  BY <1>0, <1>1, <1>2 DEF BucketState, BucketFlags
<1>6. BucketStage'
  BY <1>0, <1>1, <1>4 DEF BucketStage
<1>7. CatalogTypeOK'
  BY <1>0, <1>1 DEF CatalogTypeOK, Sold
<1>8. CatalogInv'
  BY <1>0, <1>1, <1>4, BucketChanged
<1>9. PatchInv' /\ CreateInv' /\ ClassStep
  BY <1>0, <1>1, <1>2, <1>4 DEF PatchInv, CreateInv, ClassStep
<1> QED BY <1>5, <1>6, <1>7, <1>8, <1>9
        DEF BucketInv, BucketTypeOK, BucketState, BucketFlags, BucketStage, Ids

\* Update up to its PATCH.
LEMMA UpdateKept ==
  ASSUME BucketInv, UNCHANGED <<catalog, token>>, NEW fails \in BOOLEAN, NEW shown \in BOOLEAN,
         UpdateBucket(fails, shown)
  PROVE  BucketInv' /\ ClassStep
<1>0. /\ BucketState /\ BucketFlags /\ BucketStage /\ CatalogTypeOK /\ CreateInv /\ CatalogInv
  BY BucketHas
<1>1. /\ bpc = "update"
      /\ UNCHANGED <<bobj, bspec, bext, bready, drift, attached, bucket, bread>>
  BY DEF UpdateBucket, bstatus
<1>a. unseen' \in BOOLEAN /\ (bpc' = "patch" /\ ~shown => unseen')
  <2>1. unseen' = (bpc' = "patch" /\ ~shown)
    BY Zenon DEF UpdateBucket
  <2>2. CASE bpc' = "patch" /\ ~shown
    BY <2>1, <2>2
  <2>3. CASE ~(bpc' = "patch" /\ ~shown)
    BY <2>1, <2>3
  <2> QED BY <2>2, <2>3
<1>2. CASE preset' = 0 /\ bpc' \in {"idle", "patch"} /\ UNCHANGED cache
  <2>1. BucketState' /\ BucketFlags' /\ BucketStage' /\ CatalogTypeOK'
    BY <1>0, <1>1, <1>a, <1>2 DEF BucketState, BucketFlags, BucketStage, CatalogTypeOK, Sold, cache
  <2>2. CatalogInv'
    BY <1>0, <1>1, <1>2, CacheKept DEF cache
  <2>3. PatchInv' /\ CreateInv' /\ ClassStep
    BY <1>0, <1>1, <1>2 DEF PatchInv, CreateInv, ClassStep
  <2> QED BY <2>1, <2>2, <2>3
          DEF BucketInv, BucketTypeOK, BucketState, BucketFlags, BucketStage, Ids
<1>3. CASE /\ bucket # NoBucket /\ (shown => bread.class = bucket.class)
           /\ \E answer \in {entry, Denied, Transient, List(catalog)} :
                /\ getOrFetch(answer, FALSE)
                /\ preset' = MatchPresetBySize(bread.size, bread.class, answer.list)
                /\ bpc' = IF preset' = 0 THEN "idle" ELSE "patch"
  <2>1. PICK answer \in {entry, Denied, Transient, List(catalog)} :
          /\ getOrFetch(answer, FALSE)
          /\ preset' = MatchPresetBySize(bread.size, bread.class, answer.list)
          /\ bpc' = IF preset' = 0 THEN "idle" ELSE "patch"
    BY <1>3
  <2>2. /\ answer.list \in SUBSET Sold1
        /\ answer.list = entry.list \/ answer.list = {} \/ answer.list = catalog
        /\ entry' \in [kind : {"none", "denied", "list"}, list : Sold] /\ age' \in 0..TTL
        /\ entry'.list = entry.list \/ entry'.list = {} \/ entry'.list = catalog
    BY <1>0, <2>1, Fetched
  <2>3. preset' \in Ids \cup {0}
    BY <2>1, <2>2, MatchedId
  <2>4. shown /\ preset' # 0 => \A q \in catalog : q.id = preset' => q.class = bucket.class
    BY <1>0, <1>3, <2>1, <2>2, PatchFits
  <2>5. BucketState' /\ BucketFlags'
    BY <1>0, <1>1, <1>a DEF BucketState, BucketFlags
  <2>6. BucketStage'
    BY <1>0, <1>1, <2>1, <2>3 DEF BucketStage
  <2>7. CatalogTypeOK'
    BY <1>0, <2>2 DEF CatalogTypeOK, Sold
  <2>8. CatalogInv'
    BY <1>0, <1>1, <2>2, CacheKept
  <2>9. PatchInv' /\ CreateInv' /\ ClassStep
    BY <1>0, <1>1, <1>a, <2>1, <2>4 DEF PatchInv, CreateInv, ClassStep
  <2> QED BY <2>5, <2>6, <2>7, <2>8, <2>9
          DEF BucketInv, BucketTypeOK, BucketState, BucketFlags, BucketStage, Ids
<1> QED BY <1>2, <1>3 DEF UpdateBucket, ClassMismatch

\* The PATCH.
LEMMA PatchKept ==
  ASSUME BucketInv, UNCHANGED <<catalog, token>>, NEW fails \in BOOLEAN, UpdateStorage(fails)
  PROVE  BucketInv' /\ ClassStep
<1>0. /\ BucketState /\ BucketFlags /\ BucketStage /\ CatalogTypeOK /\ CreateInv /\ CatalogInv
      /\ PatchInv /\ catalog \subseteq Sold1
  BY BucketHas
<1> DEFINE described == IF bread.desc = NoDesc THEN bucket ELSE [bucket EXCEPT !.desc = bread.desc]
<1>1. /\ bpc = "patch" /\ bpc' = "idle" /\ preset' = 0 /\ unseen' = FALSE
      /\ UNCHANGED <<bobj, bspec, bext, bready, drift, attached, bread, entry, age>>
  BY DEF UpdateStorage, bstatus
<1>2. \/ bucket' = bucket
      \/ bucket # NoBucket /\ preset = 0 /\ bucket' = described
      \/ bucket # NoBucket /\ preset # 0 /\ bucket' \in Sized(preset, described)
  BY DEF UpdateStorage
<1>3. bucket # NoBucket => described \in Bodies /\ described.class = bucket.class
  BY <1>0 DEF BucketStage, BucketState, Bodies
<1>4. \/ bucket' = bucket
      \/ bucket # NoBucket /\ bucket' \in Bodies /\ bucket'.class = bucket.class
      \/ /\ bucket # NoBucket /\ bucket' \in Bodies /\ preset # 0
         /\ \E p \in catalog : p.id = preset /\ bucket'.class = p.class
  <2> HIDE DEF described
  <2>1. CASE bucket # NoBucket /\ preset = 0 /\ bucket' = described
    BY <2>1, <1>3
  <2>2. CASE bucket # NoBucket /\ preset # 0 /\ bucket' \in Sized(preset, described)
    <3>1. /\ bucket' \in Bodies
          /\ \E p \in catalog : p.id = preset /\ bucket'.class = p.class
      BY <2>2, <1>0, <1>3, SizedBodies
    <3> QED BY <3>1, <2>2
  <2> QED BY <2>1, <2>2, <1>2
<1>5. BucketState' /\ BucketFlags'
  BY <1>0, <1>1 DEF BucketState, BucketFlags
<1>6. BucketStage'
  BY <1>0, <1>1, <1>4 DEF BucketStage
<1>7. CatalogTypeOK'
  BY <1>0, <1>1 DEF CatalogTypeOK, Sold
<1>8. CatalogInv'
  <2>1. CASE bucket' = bucket
    BY <2>1, <1>0, <1>1, CacheKept
  <2>2. CASE bucket' # bucket
    BY <2>2, <1>0, <1>1, <1>4, BucketChanged
  <2> QED BY <2>1, <2>2
<1>9. PatchInv' /\ CreateInv'
  BY <1>0, <1>1, <1>4 DEF PatchInv, CreateInv, BucketStage
<1>10. ClassStep
  BY <1>0, <1>1, <1>4 DEF ClassStep, PatchInv
<1> QED BY <1>5, <1>6, <1>7, <1>8, <1>9, <1>10
        DEF BucketInv, BucketTypeOK, BucketState, BucketFlags, BucketStage, Ids

\* The DELETE.
LEMMA DeleteKept ==
  ASSUME BucketInv, UNCHANGED <<catalog, token>>, NEW fails \in BOOLEAN, DeleteStorage(fails)
  PROVE  BucketInv' /\ ClassStep
<1>0. /\ BucketState /\ BucketFlags /\ BucketStage /\ CatalogTypeOK /\ CreateInv /\ CatalogInv
  BY BucketHas
<1>1. /\ bpc' = "idle"
      /\ UNCHANGED <<bobj, bspec, bext, drift, attached, bread, preset, unseen, entry, age>>
      /\ (bucket' = bucket /\ bready' = bready) \/ (bucket' = NoBucket /\ bready' = FALSE)
  BY DEF DeleteStorage
<1>2. BucketState' /\ BucketFlags'
  BY <1>0, <1>1 DEF BucketState, BucketFlags
<1>3. BucketStage' /\ CatalogTypeOK'
  BY <1>0, <1>1 DEF BucketStage, CatalogTypeOK, Sold
<1>4. CatalogInv'
  <2>1. CASE bucket' = bucket
    BY <2>1, <1>0, <1>1, CacheKept
  <2>2. CASE bucket' = NoBucket
    BY <2>2, <1>0, <1>1, BucketChanged
  <2> QED BY <2>1, <2>2, <1>1
<1>5. PatchInv' /\ CreateInv' /\ ClassStep
  BY <1>0, <1>1 DEF PatchInv, CreateInv, ClassStep
<1> QED BY <1>2, <1>3, <1>4, <1>5
        DEF BucketInv, BucketTypeOK, BucketState, BucketFlags, BucketStage, Ids

\* What the operator, the panel and Timeweb do to the bucket.
LEMMA OutsideKept ==
  ASSUME BucketInv,
         \/ /\ EditBucket \/ RequestBucketDelete \/ BucketCreated \/ PanelMovesBucket
            /\ UNCHANGED <<catalog, token, entry, age>>
         \/ RotateBuckets
         \/ SellOut /\ UNCHANGED <<token, entry, age, bvars>>
         \/ Tick /\ UNCHANGED bvars
         \/ token' = ~token /\ UNCHANGED <<catalog, entry, age, bvars>>
  PROVE  BucketInv'
<1>0. /\ BucketState /\ BucketFlags /\ BucketStage /\ CatalogTypeOK /\ CreateInv /\ CatalogInv
      /\ PatchInv /\ catalog \subseteq Sold1
  BY BucketHas
<1> USE DEF bvars, bstatus
<1>1. CASE (EditBucket \/ RequestBucketDelete) /\ UNCHANGED <<catalog, token, entry, age>>
  <2>1. UNCHANGED <<bext, bready, drift, attached, bucket, bpc, bread, preset, unseen>>
    BY <1>1 DEF EditBucket, RequestBucketDelete
  <2>2. bobj' \in {"present", "deleting", "gone"} /\ bspec' \in BucketSpecs
    BY <1>0, <1>1 DEF EditBucket, RequestBucketDelete, BucketState
  <2>3. BucketState' /\ BucketFlags' /\ BucketStage'
    BY <1>0, <2>1, <2>2 DEF BucketState, BucketFlags, BucketStage
  <2>4. CatalogTypeOK' /\ CatalogInv' /\ PatchInv' /\ CreateInv'
    BY <1>0, <1>1, <2>1 DEF CatalogTypeOK, Sold, CatalogInv, PatchInv, CreateInv
  <2> QED BY <2>3, <2>4 DEF BucketInv, BucketTypeOK, BucketState, BucketFlags, BucketStage, Ids
<1>2. CASE BucketCreated /\ UNCHANGED <<catalog, token, entry, age>>
  <2>1. /\ UNCHANGED <<bobj, bspec, bext, bready, drift, attached, bpc, bread, preset, unseen>>
        /\ bucket # NoBucket /\ bucket' \in Bodies /\ bucket'.class = bucket.class
    BY <1>0, <1>2 DEF BucketCreated, BucketStage, Bodies
  <2>2. BucketState' /\ BucketFlags' /\ BucketStage'
    BY <1>0, <2>1 DEF BucketState, BucketFlags, BucketStage
  <2>3. CatalogInv'
    BY <1>0, <1>2, <2>1, BucketChanged
  <2>4. CatalogTypeOK' /\ PatchInv' /\ CreateInv'
    BY <1>0, <1>2, <2>1 DEF CatalogTypeOK, Sold, PatchInv, CreateInv
  <2> QED BY <2>2, <2>3, <2>4 DEF BucketInv, BucketTypeOK, BucketState, BucketFlags, BucketStage, Ids
<1>3. CASE PanelMovesBucket /\ UNCHANGED <<catalog, token, entry, age>>
  <2>1. /\ UNCHANGED <<bobj, bspec, bext, bready, drift, attached, bpc, bread, preset>>
        /\ bucket # NoBucket
        /\ bucket' = NoBucket \/ \E p \in catalog : bucket' \in Sized(p.id, bucket)
    BY <1>3 DEF PanelMovesBucket
  <2>2. \/ bucket' = NoBucket
        \/ bucket' \in Bodies /\ \E p \in catalog : bucket'.class = p.class
    BY <1>0, <2>1, SizedBodies DEF BucketStage
  <2>3. unseen' \in BOOLEAN /\ (bpc = "patch" => unseen')
    <3>1. CASE bpc = "patch"
      BY <3>1, <1>3 DEF PanelMovesBucket
    <3>2. CASE bpc # "patch"
      BY <3>2, <1>3 DEF PanelMovesBucket
    <3> QED BY <3>1, <3>2
  <2>4. BucketState' /\ BucketFlags' /\ BucketStage'
    BY <1>0, <2>1, <2>2, <2>3 DEF BucketState, BucketFlags, BucketStage
  <2>5. CatalogInv'
    BY <1>0, <1>3, <2>2, BucketChanged
  <2>6. CatalogTypeOK' /\ PatchInv' /\ CreateInv'
    BY <1>0, <1>3, <2>1, <2>3 DEF CatalogTypeOK, Sold, PatchInv, CreateInv
  <2> QED BY <2>4, <2>5, <2>6 DEF BucketInv, BucketTypeOK, BucketState, BucketFlags, BucketStage, Ids
<1>4. CASE RotateBuckets
  <2>1. /\ UNCHANGED <<token, entry, age, bobj, bspec, bext, bready, drift, attached, bpc, bread, preset, unseen>>
        /\ catalog' = {[p EXCEPT !.class = Rotated(@)] : p \in catalog}
        /\ bucket = NoBucket => bucket' = NoBucket
        /\ bucket # NoBucket => bucket' = [bucket EXCEPT !.class = Rotated(@)]
    BY <1>4 DEF RotateBuckets, Rotate
  <2>2. \A c \in Classes : Rotated(c) \in Classes /\ Rotated(c) # "hot"
    BY DEF Classes, Rotated
  <2>3. bucket # NoBucket => bucket' \in Bodies /\ bucket'.class = Rotated(bucket.class)
    BY <1>0, <2>1, <2>2 DEF BucketStage, Bodies
  <2>4. \A q \in catalog' : \E p \in catalog : q \in Sold1 /\ q.id = p.id /\ q.class = Rotated(p.class)
    BY <1>0, <2>1, <2>2 DEF Sold1
  <2>5. catalog' \subseteq After
    <3>1. CASE catalog \subseteq Presets
      BY <3>1, <2>1 DEF After
    <3>2. CASE catalog \subseteq After
      <4>1. \A q \in After : [q EXCEPT !.class = Rotated(@)] = q
        BY CatalogAssumption DEF After, Rotated
      <4> QED BY <4>1, <3>2, <2>1
    <3> QED BY <3>1, <3>2, <1>0 DEF CatalogInv
  <2>6. CatalogInv'
    <3>1. bucket' # NoBucket => bucket'.class # "hot"
      BY <1>0, <2>1, <2>2, <2>3 DEF BucketStage, Bodies
    <3>2. entry'.list \subseteq Presets \cup After
      BY <1>0, <2>1 DEF CatalogInv
    <3> QED BY <2>5, <3>1, <3>2 DEF CatalogInv
  <2>7. CatalogTypeOK'
    BY <1>0, <2>1, <2>4 DEF CatalogTypeOK, Sold, Sold1, Ids, Disks
  <2>8. PatchInv'
    BY <1>0, <2>1, <2>3, <2>4 DEF PatchInv
  <2>9. BucketState' /\ BucketFlags' /\ BucketStage' /\ CreateInv'
    BY <1>0, <2>1, <2>3 DEF BucketState, BucketFlags, BucketStage, CreateInv
  <2> QED BY <2>6, <2>7, <2>8, <2>9 DEF BucketInv, BucketTypeOK, BucketState, BucketFlags, BucketStage, Ids
<1>5. CASE /\ (SellOut /\ UNCHANGED <<token, entry, age>>) \/ (Tick /\ catalog' = catalog)
              \/ (token' = ~token /\ UNCHANGED <<catalog, entry, age>>)
           /\ UNCHANGED bvars
  <2>1. catalog' \subseteq catalog /\ entry' = entry
    BY <1>5 DEF SellOut, Tick
  <2>2. CatalogTypeOK'
    <3>1. catalog' \in Sold
      BY <1>0, <2>1 DEF CatalogTypeOK, Sold
    <3>2. token' \in BOOLEAN
      BY <1>0, <1>5 DEF CatalogTypeOK, SellOut, Tick
    <3>3. age' \in 0..TTL
      BY <1>0, <1>5, CatalogAssumption DEF CatalogTypeOK, SellOut, Tick
    <3>4. entry' \in [kind : {"none", "denied", "list"}, list : Sold]
      BY <1>0, <2>1 DEF CatalogTypeOK
    <3> QED BY <3>1, <3>2, <3>3, <3>4 DEF CatalogTypeOK, Sold
  <2>3. CatalogInv' /\ PatchInv' /\ CreateInv'
    BY <1>0, <1>5, <2>1 DEF CatalogInv, PatchInv, CreateInv
  <2>4. BucketState' /\ BucketFlags' /\ BucketStage'
    BY <1>0, <1>5 DEF BucketState, BucketFlags, BucketStage
  <2> QED BY <2>2, <2>3, <2>4 DEF BucketInv, BucketTypeOK, BucketState, BucketFlags, BucketStage, Ids
<1> QED BY <1>1, <1>2, <1>3, <1>4, <1>5 DEF Tick

(***************************************************************************)
(* The theorems.                                                           *)
(***************************************************************************)
\* Inv, put together again.
LEMMA Whole ==
  Inv <=> BucketInv /\ UserTypeOK /\ KeyInv /\ admin \in BOOLEAN /\ Counted
  BY DEF Inv, TypeOK, BucketInv, Counted

\* It holds at the start.
LEMMA InvInit == Init => Inv
<1> SUFFICES ASSUME Init PROVE Inv
  OBVIOUS
<1>1. CatalogTypeOK
  <2>1. \A p \in Presets : p \in [id : Ids, disk : Disks, class : Classes]
    BY CatalogAssumption DEF Ids, Disks, Classes
  <2>2. catalog \in Sold
    BY <2>1 DEF Init, CatalogInit, Sold, Ids, Disks
  <2>3. entry \in [kind : {"none", "denied", "list"}, list : Sold]
    BY DEF Init, CatalogInit, Miss, Sold
  <2> QED BY <2>2, <2>3, CatalogAssumption DEF Init, CatalogInit, CatalogTypeOK
<1>2. BucketTypeOK
  BY DEF Init, BucketInit, BucketTypeOK, Levels
<1>3. CatalogInv
  BY DEF Init, CatalogInit, CatalogInv, Miss
<1>4. PatchInv /\ CreateInv
  BY DEF Init, BucketInit, PatchInv, CreateInv
<1>5. UserTypeOK
  <2>1. UserState /\ UserFlags
    BY DEF Init, UserInit, UserState, UserFlags
  <2>2. UserNumbers
    BY UserAssumption DEF Init, UserInit, UserNumbers
  <2>3. UserPolicy
    BY Policies DEF Init, UserInit, UserPolicy
  <2> QED BY <2>1, <2>2, <2>3, UserParts
<1>6. KeyInv
  BY DEF Init, UserInit, KeyInv
<1>7. admin \in BOOLEAN /\ Counted
  BY StorageAssumption DEF Init, Counted
<1> QED BY <1>1, <1>2, <1>3, <1>4, <1>5, <1>6, <1>7, Whole DEF BucketInv

\* A step that is not about the user keeps what is known about it.
LEMMA UserAlone ==
  ASSUME UserTypeOK, KeyInv, UNCHANGED uvars
  PROVE  UserTypeOK' /\ KeyInv'
  BY DEF UserTypeOK, KeyInv, uvars, NoPolicy

\* The same of the bucket and the catalog.
LEMMA BucketAlone ==
  ASSUME BucketInv, UNCHANGED <<catalog, token, entry, age, bvars>>
  PROVE  BucketInv'
  BY DEF BucketInv, CatalogTypeOK, Sold, BucketTypeOK, CatalogInv, PatchInv, CreateInv, bvars

\* A step keeps Inv, and the class of a bucket.
LEMMA InvNext ==
  ASSUME Inv, [Next]_vars
  PROVE  /\ Inv'
         /\ bucket # NoBucket /\ bucket' # NoBucket
              => bucket'.class = bucket.class \/ moves' # moves \/ unseen
<1>0. BucketInv /\ UserTypeOK /\ KeyInv /\ admin \in BOOLEAN /\ Counted
  BY Whole
<1> USE DEF others
<1>1. CASE BucketStep
  <2>1. PICK fails \in BOOLEAN, shown \in BOOLEAN :
          /\ faults' = faults \/ Fault
          /\ \/ ObserveBucket(populateAttachedUsers(fails), shown) \/ UpdateBucket(fails, shown)
             \/ resolvePresetID(fails) \/ CreateStorage(fails)
             \/ UpdateStorage(fails) \/ DeleteStorage(fails)
    BY <1>1 DEF BucketStep
  <2>2. UNCHANGED <<catalog, token, uvars, admin, edits, moves>>
    BY <1>1 DEF BucketStep
  <2>3. BucketInv' /\ ClassStep
    BY <1>0, <2>1, <2>2, ObserveKept, ResolveKept, CreateKept, UpdateKept, PatchKept, DeleteKept
  <2>4. UserTypeOK' /\ KeyInv'
    BY <1>0, <2>2, UserAlone
  <2>5. admin' \in BOOLEAN /\ Counted'
    BY <1>0, <2>1, <2>2, StorageAssumption DEF Counted, Fault
  <2> QED BY <2>3, <2>4, <2>5, Whole DEF ClassStep, Inv, TypeOK, BucketInv, Counted
<1>2. CASE UserObserves \/ UserStep \/ Crash
  <2>1. UNCHANGED <<catalog, token, entry, age, bvars, admin, edits, moves>> /\ (faults' = faults \/ Fault)
    BY <1>2 DEF UserObserves, UserStep, Crash
  <2>2. UserActs
    BY <1>2 DEF UserObserves, UserStep, Crash, UserActs
  <2>3. BucketInv'
    BY <1>0, <2>1, BucketAlone
  <2>4. UserTypeOK' /\ KeyInv'
    BY <1>0, <2>2, UserKept
  <2>5. admin' \in BOOLEAN /\ Counted'
    BY <1>0, <2>1, StorageAssumption DEF Counted, Fault
  <2>6. bucket' = bucket
    BY <2>1 DEF bvars
  <2> QED BY <2>3, <2>4, <2>5, <2>6 DEF Inv, TypeOK, BucketInv, Counted
<1>3. CASE Time \/ Provision
  <2>1. UNCHANGED <<uvars, admin, edits, moves, faults>>
    BY <1>3 DEF Time, Provision
  <2>2. BucketInv'
    BY <1>0, <1>3, OutsideKept DEF Time, Provision
  <2>3. UserTypeOK' /\ KeyInv'
    BY <1>0, <2>1, UserAlone
  <2>4. bucket # NoBucket => bucket'.class = bucket.class
    BY <1>0, <1>3, BucketHas DEF Time, Provision, BucketCreated, bvars, BucketStage, Bodies
  <2>5. admin' \in BOOLEAN /\ Counted'
    BY <1>0, <2>1 DEF Counted
  <2> QED BY <2>2, <2>3, <2>4, <2>5 DEF Inv, TypeOK, BucketInv, Counted
<1>4. CASE Edit \/ RequestDelete
  <2>1. /\ UNCHANGED <<catalog, token, entry, age, admin, faults, moves>>
        /\ edits' = edits \/ (edits < MaxEdits /\ edits' = edits + 1)
    BY <1>4 DEF Edit, RequestDelete
  <2>2. \/ (EditBucket \/ RequestBucketDelete) /\ UNCHANGED uvars
        \/ (EditUser \/ ClearMarker \/ RequestUserDelete) /\ UNCHANGED bvars
    BY <1>4 DEF Edit, RequestDelete
  <2>3. BucketInv'
    BY <1>0, <2>1, <2>2, OutsideKept, BucketAlone
  <2>4. UserTypeOK' /\ KeyInv'
    BY <1>0, <2>2, UserAlone, UserKept DEF UserActs
  <2>5. bucket' = bucket
    BY <2>2 DEF EditBucket, RequestBucketDelete, bvars
  <2>6. admin' \in BOOLEAN /\ Counted'
    BY <1>0, <2>1, StorageAssumption DEF Counted
  <2> QED BY <2>3, <2>4, <2>5, <2>6 DEF Inv, TypeOK, BucketInv, Counted
<1>5. CASE Move
  <2>1. moves' = moves + 1 /\ moves < MaxMoves /\ UNCHANGED <<faults, edits>>
    BY <1>5 DEF Move
  <2>2. BucketInv'
    BY <1>0, <1>5, OutsideKept, BucketAlone DEF Move
  <2>3. UserTypeOK' /\ KeyInv'
    BY <1>0, <1>5, UserAlone, UserKept DEF Move, UserActs
  <2>4. Counted' /\ moves' # moves
    BY <1>0, <2>1, StorageAssumption DEF Counted
  <2>5. admin' \in BOOLEAN
    BY <1>0, <1>5 DEF Move
  <2> QED BY <2>2, <2>3, <2>4, <2>5 DEF Inv, TypeOK, BucketInv, Counted
<1>6. CASE UNCHANGED vars
  <2>1. UNCHANGED <<catalog, token, entry, age, bvars>> /\ UNCHANGED uvars /\ bucket' = bucket
        /\ UNCHANGED <<admin, faults, edits, moves>>
    BY <1>6 DEF vars, bvars
  <2> QED BY <2>1, <1>0, UserAlone, BucketAlone DEF Inv, TypeOK, BucketInv, Counted
<1> QED BY <1>1, <1>2, <1>3, <1>4, <1>5, <1>6 DEF Next

\* Every variable of the two controllers, of the cache and of Timeweb keeps its type: no
\* POST goes out without a preset, and no policy outlives its user.
THEOREM TypeCorrect == Spec => []TypeOK
<1>1. Inv => TypeOK
  BY DEF Inv
<1> QED BY <1>1, InvInit, InvNext, PTL DEF Spec

\* The key of a live user is in the connection Secret unless it was lost on its way.
THEOREM KeysPublished == Spec => []KeyPublished
<1>1. Inv => KeyPublished
  BY DEF Inv, KeyInv, KeyPublished
<1> QED BY <1>1, InvInit, InvNext, PTL DEF Spec

\* No reconcile whose GET was answered with the class changes the class of a bucket that
\* nobody else is working on, whatever the catalog was and is, and however old the cached
\* copy of it.
THEOREM ClassesKept == Spec => ClassKept
<1>1. Inv /\ [Next]_vars =>
        [/\ bucket # NoBucket /\ bucket' # NoBucket
          => bucket'.class = bucket.class \/ moves' # moves \/ unseen]_vars
  BY InvNext
<1> QED BY <1>1, InvInit, InvNext, PTL DEF Spec, ClassKept

(***************************************************************************)
(* What a policy grants.                                                   *)
(***************************************************************************)
\* No bucket is granted twice, and every grant has a level.
Unambiguous(grants) ==
  /\ \A g, h \in grants : g.bucket = h.bucket => g = h
  /\ \A g \in grants : g.level \in {"read", "read-write", "admin"}

\* The level that grants give on a bucket.
LevelOn(grants, name) ==
  IF \E g \in grants : g.bucket = name
    THEN (CHOOSE g \in grants : g.bucket = name).level ELSE "none"

\* Reading a level back from a rendered policy: the two statements of the one grant on a
\* bucket tell the three levels apart, and no other grant's statement interferes.
LEMMA RenderedLevel ==
  ASSUME NEW grants, Unambiguous(grants), NEW name
  PROVE  DeriveLevel(RenderPolicy(grants), name) = LevelOn(grants, name)
<1> DEFINE p == RenderPolicy(grants)
           on(what) == \E s \in p.allows : s.bucket = name /\ s.on = what /\ s.full
<1>1. p.allows = UNION {Statements(g) : g \in grants}
  BY DEF RenderPolicy
<1>2. CASE \A g \in grants : g.bucket # name
  <2>1. \A s \in p.allows : s.bucket # name
    BY <1>1, <1>2 DEF Statements
  <2> QED  BY <1>2, <2>1 DEF DeriveLevel, LevelOn
<1>3. ASSUME NEW h \in grants, h.bucket = name
      PROVE  DeriveLevel(p, name) = LevelOn(grants, name)
  <2>1. LevelOn(grants, name) = h.level
    <3>1. \A g \in grants : g.bucket = name => g = h
      BY <1>3 DEF Unambiguous
    <3>2. (CHOOSE g \in grants : g.bucket = name) = h
      BY <1>3, <3>1
    <3> QED  BY <1>3, <3>2 DEF LevelOn
  <2>2. \A s \in p.allows : s.bucket = name => s \in Statements(h)
    BY <1>1, <1>3 DEF Statements, Unambiguous
  <2>3. Statements(h) \subseteq p.allows
    BY <1>1
  <2> DEFINE objects == [bucket |-> h.bucket, on |-> "objects",
                         full |-> h.level \in {"read-write", "admin"}]
             whole == [bucket |-> h.bucket, on |-> "bucket", full |-> h.level = "admin"]
  <2>a. Statements(h) = {objects, whole}
    BY DEF Statements
  <2>b. /\ objects.bucket = name /\ objects.on = "objects"
        /\ whole.bucket = name /\ whole.on = "bucket"
    BY <1>3
  <2>c. objects.full <=> h.level \in {"read-write", "admin"}
    BY Zenon
  <2>d. whole.full <=> h.level = "admin"
    BY Zenon
  <2> HIDE DEF objects, whole
  <2>4. on("objects") <=> h.level \in {"read-write", "admin"}
    <3>1. on("objects") <=> objects.full
      <4>1. "objects" # "bucket"
        OBVIOUS
      <4> QED  BY <2>2, <2>3, <2>a, <2>b, <4>1, Zenon
    <3> QED  BY <2>c, <3>1
  <2>5. on("bucket") <=> h.level = "admin"
    <3>1. on("bucket") <=> whole.full
      <4>1. "objects" # "bucket"
        OBVIOUS
      <4> QED  BY <2>2, <2>3, <2>a, <2>b, <4>1, Zenon
    <3> QED  BY <2>d, <3>1
  <2>6. ~\A s \in p.allows : s.bucket # name
    BY <1>3, <2>3 DEF Statements
  <2>7. h.level \in {"read", "read-write", "admin"}
    BY DEF Unambiguous
  <2>8. DeriveLevel(p, name) = CASE \A s \in p.allows : s.bucket # name -> "none"
                                 [] on("objects") /\ on("bucket") -> "admin"
                                 [] on("objects") /\ ~on("bucket") -> "read-write"
                                 [] OTHER -> "read"
    BY DEF DeriveLevel
  <2> HIDE DEF p, on
  <2>9. CASE h.level = "admin"
    BY <2>1, <2>4, <2>5, <2>6, <2>8, <2>9
  <2>10. CASE h.level = "read-write"
    BY <2>1, <2>4, <2>5, <2>6, <2>8, <2>10
  <2>11. CASE h.level = "read"
    BY <2>1, <2>4, <2>5, <2>6, <2>8, <2>11
  <2> QED  BY <2>7, <2>9, <2>10, <2>11
<1> QED  BY <1>2, <1>3

\* What Connect has resolved is unambiguous: two grants on one bucket, by name and by
\* reference, are refused.
LEMMA ReadStep == TypeOK /\ Unambiguous(uread) /\ [Next]_vars => Unambiguous(uread')
<1> SUFFICES ASSUME TypeOK, Unambiguous(uread), [Next]_vars PROVE Unambiguous(uread')
  OBVIOUS
<1>1. CASE UserObserves
  <2>1. uread' = {Named(g) : g \in resolveGrants} /\ ~Duplicates
    BY <1>1 DEF UserObserves, ObserveUser, Connects
  <2>2. \A g, h \in resolveGrants : Named(g).bucket = Named(h).bucket => g = h
    BY <2>1 DEF Duplicates
  <2>3. \A g \in resolveGrants : Named(g).level \in {"read", "read-write", "admin"}
    BY UserAssumption DEF resolveGrants, Named, TypeOK, UserTypeOK
  <2> HIDE DEF Named
  <2> QED  BY <2>1, <2>2, <2>3 DEF Unambiguous
<1>2. CASE UserStep \/ Crash
  BY <1>2 DEF UserStep, Crash, findUserByName, CreateStorageUser, PutAndPublish, UpdateUser, DeleteUser,
     CrashUser
<1>3. CASE BucketStep \/ Time \/ Provision \/ UNCHANGED vars
  BY <1>3 DEF BucketStep, Time, Provision, uvars, vars
<1>4. CASE Edit \/ RequestDelete \/ Move
  BY <1>4 DEF Edit, RequestDelete, Move, EditUser, ClearMarker, RequestUserDelete, PanelChangesUser, uvars
<1> QED  BY <1>1, <1>2, <1>3, <1>4 DEF Next

\* Every policy that a reconcile writes gives the user, on every bucket, exactly the
\* level of the grants that were resolved for it, and nothing on any other: the level
\* that the bucket's status derives from the policy is the one that was declared, and
\* no combination of grants adds up to another (RenderPolicy and
\* DeriveLevelForBucket of internal/clients/rgwiam, resolveGrants of the user).
THEOREM GrantsRoundTrip ==
  Spec => [][policy' # policy /\ policy'.attached /\ moves' = moves =>
               \A name : DeriveLevel(policy', name) = LevelOn(uread, name)]_vars
<1>1. Init => Unambiguous(uread)
  BY DEF Init, UserInit, Unambiguous
<1>2. ASSUME TypeOK, Unambiguous(uread), Next, policy' # policy, policy'.attached, moves' = moves
      PROVE  policy' = RenderPolicy(uread)
  <2>1. ~NoPolicy.attached
    BY DEF NoPolicy
  <2>2. UserStep
    <3>1. moves \in Nat
      BY <1>2, StorageAssumption DEF TypeOK
    <3>2. ~Move
      BY <1>2, <3>1 DEF Move
    <3> QED  BY <1>2, <3>2 DEF Next, BucketStep, UserObserves, Crash, Time, Provision, Edit, RequestDelete,
                ObserveUser, CrashUser, EditUser, ClearMarker, RequestUserDelete, uvars
  <2> QED  BY <1>2, <2>1, <2>2 DEF UserStep, findUserByName, CreateStorageUser, PutAndPublish, UpdateUser,
              DeleteUser
<1>3. TypeOK /\ Unambiguous(uread) /\ [Next]_vars =>
        [policy' # policy /\ policy'.attached /\ moves' = moves =>
           \A name : DeriveLevel(policy', name) = LevelOn(uread, name)]_vars
  BY <1>2, RenderedLevel
<1>4. TypeOK /\ Unambiguous(uread) /\ [Next]_vars => Unambiguous(uread)'
  <2>1. TypeOK /\ Unambiguous(uread) /\ [Next]_vars => Unambiguous(uread')
    BY ReadStep
  <2> QED  BY <2>1 DEF Unambiguous
<1> QED  BY <1>1, <1>3, <1>4, TypeCorrect, PTL DEF Spec
=============================================================================
