------------------------------- MODULE S3User -------------------------------
(***************************************************************************)
(* One S3User (internal/controller/s3user): a user of the object storage   *)
(* with a key of its own and one inline policy with all of its grants      *)
(* (internal/clients/rgwiam).  The key is answered to the POST alone: GET  *)
(* and LIST leave it out, so that it is published by Create or never.      *)
(***************************************************************************)
EXTENDS Naturals

CONSTANTS
  UserSpecs,  \* declarations: sets of grants [byRef, bucket, level]
  MaxUsers    \* bound on the users that are created, under the ids 1, 2, ...

\* The levels that the API server admits.
ASSUME UserAssumption ==
  /\ \A s \in UserSpecs : \A g \in s : g.level \in {"read", "read-write", "admin"}
  /\ MaxUsers \in Nat \ {0}

VARIABLES
  uobj,    \* the MR: "present", "deleting" or "gone"
  uspec,   \* its stored spec
  uext,    \* external name: the id of a user, 0 for none
  uready,  \* its stored Ready condition is True
  secret,  \* the id whose key the connection Secret holds, 0 for none
  user,    \* the user upstream, 0 for none
  users,   \* users created so far
  policy,  \* its inline policy
  upc,     \* where the reconcile is
  uread,   \* the grants Connect has resolved: sets of [bucket, level]
  found,   \* the user Create has found or made
  key,     \* Create holds the key of that user
  doubt,   \* external-create-pending is set and nothing says how the Create ended
  lost     \* users whose key did not reach the Secret

uvars == <<uobj, uspec, uext, uready, secret, user, users, policy, upc, uread, found, key,
           doubt, lost>>
create == <<found, key, doubt, lost>>

\* What a policy allows: on the objects of a bucket and on the bucket itself,
\* everything or only to read.
Statements(g) ==
  {[bucket |-> g.bucket, on |-> "objects", full |-> g.level \in {"read-write", "admin"}],
   [bucket |-> g.bucket, on |-> "bucket", full |-> g.level = "admin"]}
RenderPolicy(grants) == [attached |-> TRUE, allows |-> UNION {Statements(g) : g \in grants}]
NoPolicy == [attached |-> FALSE, allows |-> {}]

\* DeriveLevelForBucket.
DeriveLevel(p, name) ==
  LET on(what) == \E s \in p.allows : s.bucket = name /\ s.on = what /\ s.full
  IN  CASE \A s \in p.allows : s.bucket # name -> "none"
        [] on("objects") /\ on("bucket") -> "admin"
        [] on("objects") /\ ~on("bucket") -> "read-write"
        [] OTHER -> "read"

UserTypeOK ==
  /\ uobj \in {"present", "deleting", "gone"} /\ uspec \in UserSpecs
  /\ uext \in 0..MaxUsers /\ secret \in 0..MaxUsers /\ user \in 0..MaxUsers
  /\ users \in 0..MaxUsers /\ found \in 0..MaxUsers /\ lost \subseteq 1..MaxUsers
  /\ uready \in BOOLEAN /\ key \in BOOLEAN /\ doubt \in BOOLEAN
  /\ upc \in {"idle", "list", "post", "put", "update", "delete"}
  /\ policy.attached \in BOOLEAN /\ (user = 0 => policy = NoPolicy)

UserInit ==
  /\ uobj = "present" /\ uspec \in UserSpecs /\ uext = 0 /\ uready = FALSE /\ secret = 0
  /\ user = 0 /\ users = 0 /\ policy = NoPolicy /\ upc = "idle" /\ uread = {} /\ found = 0
  /\ key = FALSE /\ doubt = FALSE /\ lost = {}

\* Mistake: declared grants are there, others may be.
GrantedAtLeast(p, q) == p.attached /\ q.allows \subseteq p.allows

PoliciesEqual(p, q) == p.attached /\ p.allows = q.allows

\* Observe with the grants Connect has resolved.  signed: the account's keys could be
\* derived, without which the policy cannot be read.
ObserveUser(grants, token, signed) ==
  /\ upc = "idle" /\ uobj # "gone" /\ ~doubt
  /\ uread' = grants
  /\ \/ /\ uext = 0 \/ (token /\ user # uext)
        /\ uobj' = IF uobj = "deleting" THEN "gone" ELSE uobj
        /\ upc' = IF uobj = "deleting" THEN "idle" ELSE "list"
        /\ UNCHANGED uready
     \/ /\ uext # 0 /\ token /\ user = uext /\ signed
        /\ uready' = TRUE
        /\ upc' = CASE uobj = "deleting" -> "delete"
                    [] uobj = "present" /\ ~PoliciesEqual(policy, RenderPolicy(grants)) -> "update"
                    [] OTHER -> "idle"
        /\ UNCHANGED uobj
  /\ UNCHANGED <<uspec, uext, secret, user, users, policy, create>>

\* How a request ends: "ok"; "refused": not carried out; "lost": carried out, and the
\* answer lost.

\* adoptOrCreate, the LIST: a user of that name is taken over, without its key.
findUserByName(how) ==
  /\ upc = "list"
  /\ upc' = IF how # "ok" THEN "idle" ELSE IF user # 0 THEN "put" ELSE "post"
  /\ found' = IF how = "ok" THEN user ELSE 0
  /\ UNCHANGED <<uobj, uspec, uext, uready, secret, user, users, policy, uread, key, doubt, lost>>

\* adoptOrCreate, the POST.
CreateStorageUser(how) ==
  /\ upc = "post"
  /\ upc' = IF how = "ok" THEN "put" ELSE "idle"
  /\ IF how = "refused" THEN UNCHANGED <<user, users, policy, found, key, lost>>
     ELSE /\ users < MaxUsers /\ users' = users + 1 /\ user' = users + 1 /\ policy' = NoPolicy
          /\ key' = (how = "ok") /\ found' = IF how = "ok" THEN users + 1 ELSE 0
          /\ lost' = IF how = "ok" THEN lost ELSE lost \cup {users + 1}
  /\ UNCHANGED <<uobj, uspec, uext, uready, secret, uread, doubt>>

\* The rest of Create: the PUT of the policy, and the key to the Secret, either of which
\* may fail.  The runtime keeps the external name of a Create that failed, so that the
\* user is not created again; its key is gone.  Nothing is published for a user that
\* was taken over, which is an error too.
PutAndPublish(how) ==
  /\ upc = "put" /\ upc' = "idle" /\ found' = 0 /\ key' = FALSE /\ uext' = found
  /\ IF how = "ok" /\ user = found
       THEN /\ policy' = RenderPolicy(uread)
            /\ secret' = IF key THEN found ELSE secret
            /\ uready' = (uready /\ ~key)
            /\ UNCHANGED lost
       ELSE /\ policy' = IF how = "lost" /\ user = found THEN RenderPolicy(uread) ELSE policy
            /\ lost' = IF key THEN lost \cup {found} ELSE lost
            /\ UNCHANGED <<secret, uready>>
  /\ UNCHANGED <<uobj, uspec, user, users, uread, doubt>>

\* Mistake: Update publishes what its GET answered, a blank key.
RepublishesGet(how) ==
  /\ upc = "update" /\ upc' = "idle"
  /\ policy' = IF how = "refused" \/ user # uext THEN policy ELSE RenderPolicy(uread)
  /\ secret' = IF how = "ok" /\ user = uext THEN 0 ELSE secret
  /\ UNCHANGED <<uobj, uspec, uext, uready, user, users, uread, create>>

\* Update: GET, then the PUT of the whole policy.
UpdateUser(how) ==
  /\ upc = "update" /\ upc' = "idle"
  /\ policy' = IF how = "refused" \/ user # uext THEN policy ELSE RenderPolicy(uread)
  /\ UNCHANGED <<uobj, uspec, uext, uready, secret, user, users, uread, create>>

\* Delete: the policy as far as it goes, then the user, which takes it along.
DeleteUser(how) ==
  /\ upc = "delete" /\ upc' = "idle"
  /\ \/ how # "refused" /\ user' = (IF user = uext THEN 0 ELSE user) /\ policy' = NoPolicy
     \/ how = "refused" /\ user' = user /\ policy' \in {policy, NoPolicy}
  /\ uready' = (uready /\ ~(how = "ok" /\ user = uext))
  /\ UNCHANGED <<uobj, uspec, uext, secret, users, uread, create>>

\* The process dies, Create's result with it.
CrashUser ==
  /\ upc # "idle" /\ upc' = "idle" /\ found' = 0 /\ key' = FALSE
  /\ doubt' = (upc \in {"list", "post", "put"})
  /\ lost' = IF key THEN lost \cup {found} ELSE lost
  /\ UNCHANGED <<uobj, uspec, uext, uready, secret, user, users, policy, uread>>

(***************************************************************************)
(* The operator and the panel.                                             *)
(***************************************************************************)
EditUser ==
  /\ uobj = "present" /\ uspec' \in UserSpecs \ {uspec}
  /\ UNCHANGED <<uobj, uext, uready, secret, user, users, policy, upc, uread, create>>

RequestUserDelete ==
  /\ uobj = "present" /\ uobj' = "deleting"
  /\ UNCHANGED <<uspec, uext, uready, secret, user, users, policy, upc, uread, create>>

\* The operator removes external-create-pending.
ClearMarker ==
  /\ doubt /\ doubt' = FALSE
  /\ UNCHANGED <<uobj, uspec, uext, uready, secret, user, users, policy, upc, uread, found, key, lost>>

\* The panel deletes the user, or takes its grants away.
PanelChangesUser ==
  /\ user # 0
  /\ \/ user' = 0 /\ policy' = NoPolicy
     \/ user' = user /\ policy' \in {RenderPolicy({}), NoPolicy} \ {policy}
  /\ UNCHANGED <<uobj, uspec, uext, uready, secret, users, upc, uread, create>>
=============================================================================
