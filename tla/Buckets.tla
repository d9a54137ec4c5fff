------------------------------- MODULE Buckets -------------------------------
(***************************************************************************)
(* The buckets of an object storage.  Each of them is read by six calls    *)
(* that fail on their own; what an answer says is kept as attributes, and  *)
(* six controls judge what was kept.                                       *)
(*                                                                         *)
(* A bucket is [name, answers], of [call -> [state, of]]: a call is        *)
(* "read", "unset" when the storage says that nothing is configured, or    *)
(* "refused".  What is read is the groups granted, the status, the         *)
(* statements [allow, wildcard, source, negated], the tags that have a     *)
(* value, the state of the lock and the algorithms.  A storage, s3, is     *)
(* [sseKMS, tagsPersisted].                                                *)
(***************************************************************************)
EXTENDS Projection

CONSTANTS
    BucketNames,
    PublicGroups,   \* the groups that are everybody
    Sensitive       \* the tags that say that the data is sensitive

Bucket == "object_storage_bucket"

-----------------------------------------------------------------------------
(* The collection.                                                         *)

(* (mutant) a refusal is read as the absence of a configuration            *)
AnyErrorIsUnset(answer) == answer.state # "read"

IsNotConfigured(answer) == answer.state = "unset"
IsEmptyTagSet(answer) == answer.state = "unset"

(* A condition on the source restricts nothing when it is a negation       *)
StatementIsPublic(s) == s.allow /\ ~(s.source /\ ~s.negated) /\ s.wildcard
PolicyAllowsPublic(statements) == \E i \in DOMAIN statements : StatementIsPublic(statements[i])
IsACLPublic(grants) == ToSet(grants) \cap PublicGroups # {}

AttrCall ==
    [name                       |-> "ListBuckets",
     acl_grants                 |-> "GetBucketAcl",
     public_via_acl             |-> "GetBucketAcl",
     versioning                 |-> "GetBucketVersioning",
     policy_public              |-> "GetBucketPolicy",
     tags                       |-> "GetBucketTagging",
     object_lock_enabled        |-> "GetObjectLockConfiguration",
     default_encryption_enabled |-> "GetBucketEncryption",
     sse_kms_enabled            |-> "GetBucketEncryption"]
CallsOfABucket == {AttrCall[a] : a \in DOMAIN AttrCall \ {"name"}}
AttrDerived ==
    {"public_via_acl", "policy_public", "object_lock_enabled", "default_encryption_enabled",
     "sse_kms_enabled"}

(* An attribute is there when its call was answered, and never otherwise   *)
Kept(a, s3, answer) ==
    LET read == answer.state = "read" IN
    CASE a = "tags" -> s3.tagsPersisted /\ (read \/ IsEmptyTagSet(answer))
      [] a \in {"object_lock_enabled", "default_encryption_enabled"} -> read \/ IsNotConfigured(answer)
      [] a = "sse_kms_enabled" -> s3.sseKMS /\ (read \/ IsNotConfigured(answer))
      [] OTHER -> read

BucketValue(a, answer) ==
    CASE a \in {"name", "versioning"} -> Text(answer.of)
      [] a = "public_via_acl" -> Bool(IsACLPublic(answer.of))
      [] a = "policy_public" -> Bool(PolicyAllowsPublic(answer.of))
      [] a = "object_lock_enabled" -> Bool(answer.state = "read" /\ answer.of)
      [] a = "default_encryption_enabled" -> Bool(answer.state = "read" /\ answer.of # <<>>)
      [] a = "sse_kms_enabled" -> Bool(answer.state = "read" /\ "aws:kms" \in ToSet(answer.of))
      [] a \in {"acl_grants", "tags"} -> ListOf(IF answer.state = "read" THEN answer.of ELSE <<>>)

(* A storage, and what it may answer.  It may say that nothing is configured *)
(* of a policy, a lock, an encryption and tags; on an ACL or a versioning    *)
(* whatever is not an answer is a refusal.                                   *)
IsStorage(s3) == s3.sseKMS \in BOOLEAN /\ s3.tagsPersisted \in BOOLEAN
IsBucket(b) ==
    /\ b.name \in BucketNames
    /\ \A call \in CallsOfABucket : b.answers[call].state \in {"read", "unset", "refused"}
    /\ \A call \in {"GetBucketAcl", "GetBucketVersioning"} : b.answers[call].state # "unset"
    /\ b.answers["GetObjectLockConfiguration"].of \in BOOLEAN

CollectBucket(provider, region, s3, b) ==
    LET Answer(a) == IF a = "name" THEN [state |-> "read", of |-> b.name]
                     ELSE b.answers[AttrCall[a]]
        kept == {a \in DOMAIN AttrCall : Kept(a, s3, Answer(a))}
    IN  [provider |-> provider, type |-> Bucket, id |-> b.name, name |-> b.name, region |-> region,
         attrs |-> [a \in kept |-> BucketValue(a, Answer(a))],
         prov |-> [a \in kept |-> Attestation("api", AttrCall[a], TRUE, a \in AttrDerived)],
         source |-> NoSource]

CollectBuckets(provider, region, s3, buckets) ==
    [i \in DOMAIN buckets |-> CollectBucket(provider, region, s3, buckets[i])]

-----------------------------------------------------------------------------
(* The rules.  The tags required are a sequence of sets of keys.           *)

TagsControl == "governance_resource_required_tags"
BucketControls ==
    {"objectstorage_bucket_public_access", "objectstorage_bucket_versioning_enabled",
     "objectstorage_bucket_object_lock_enabled", "objectstorage_bucket_default_encryption",
     "objectstorage_bucket_kms_encryption", TagsControl}

Truthy(attrs, a) == a \in DOMAIN attrs /\ attrs[a] = Bool(TRUE)
Falsy(attrs, a) == a \in DOMAIN attrs /\ attrs[a] = Bool(FALSE)
Among(attrs, a, S) == a \in DOMAIN attrs /\ ToSet(attrs[a].of) \cap S # {}

PublicAccess(attrs) ==
    \/ Truthy(attrs, "public_via_acl") \/ Truthy(attrs, "policy_public")
    \/ Among(attrs, "acl_grants", PublicGroups)
NoVersioning(attrs) ==
    "versioning" \in DOMAIN attrs /\ attrs["versioning"] # Text("Enabled")
NoObjectLock(attrs) == Falsy(attrs, "object_lock_enabled")
NoDefaultEncryption(attrs) == Falsy(attrs, "default_encryption_enabled")
NoKMSEncryption(attrs) == Falsy(attrs, "sse_kms_enabled") /\ Among(attrs, "tags", Sensitive)

(* A rule that reads what was not collected stays silent                   *)
Deviates(control, attrs) ==
    CASE control = "objectstorage_bucket_public_access" -> PublicAccess(attrs)
      [] control = "objectstorage_bucket_versioning_enabled" -> NoVersioning(attrs)
      [] control = "objectstorage_bucket_object_lock_enabled" -> NoObjectLock(attrs)
      [] control = "objectstorage_bucket_default_encryption" -> NoDefaultEncryption(attrs)
      [] control = "objectstorage_bucket_kms_encryption" -> NoKMSEncryption(attrs)

(* Tags that are nowhere are not exposed; else, what has none misses them  *)
MissesTags(resources, r, tagged, required) ==
    LET borne == IF "tags" \in DOMAIN r.attrs THEN ToSet(r.attrs["tags"].of) ELSE {}
    IN  /\ r.type \in tagged
        /\ \E i \in DOMAIN resources : resources[i].type = r.type /\ "tags" \in DOMAIN resources[i].attrs
        /\ \E i \in DOMAIN required : borne \cap required[i] = {}

(* The subjects of the findings of a control on the buckets                *)
BucketFindings(control, resources, tagged, required) ==
    {r.name : r \in {r \in ToSet(resources) :
        /\ r.type = Bucket
        /\ IF control = TagsControl THEN MissesTags(resources, r, tagged, required)
           ELSE Deviates(control, r.attrs)}}

-----------------------------------------------------------------------------
(* The verdict: the guards of Capability over the tables of the buckets.   *)

(* Without a signal of the ACL nothing is said of the public access; the   *)
(* policy, and the tags that say what is sensitive, open no verdict.       *)
Decides ==
    [c \in BucketControls |->
        CASE c = "objectstorage_bucket_public_access" -> {"acl_grants", "public_via_acl"}
          [] c = "objectstorage_bucket_versioning_enabled" -> {"versioning"}
          [] c = "objectstorage_bucket_object_lock_enabled" -> {"object_lock_enabled"}
          [] c = "objectstorage_bucket_default_encryption" -> {"default_encryption_enabled"}
          [] c = "objectstorage_bucket_kms_encryption" -> {"sse_kms_enabled"}
          [] OTHER -> {}]

Guard == INSTANCE Capability WITH
    Controls <- BucketControls, Types <- {Bucket}, Attrs <- DOMAIN AttrCall,
    NoType <- "", Main <- "main",
    PrimaryType <- [c \in BucketControls |-> IF c = TagsControl THEN "" ELSE Bucket],
    ExtraTypes <- [c \in BucketControls |-> {}],
    Deciding <- [c \in BucketControls |-> [t \in IF c = TagsControl THEN {} ELSE {"main"} |-> Decides[c]]],
    RequireAll <- {}, Governance <- {TagsControl}, ProviderReaders <- {},
    AbsenceDeciders <- [c \in BucketControls |-> [t \in {} |-> {}]],
    TagControl <- TagsControl, TaggedTypes <- {Bucket},
    TypeEtat <- [t \in {Bucket} |-> "verifie"], DeclaredNa <- {},
    Implemented <- BucketControls, Resources <- BucketNames,
    TypeOf <- [n \in BucketNames |-> Bucket]

BucketInventory(buckets) ==
    LET Named(n) == CHOOSE r \in buckets : r.name = n
        names == {r.name : r \in buckets}
    IN  [present |-> names, incomplete |-> {},
         sought |-> [n \in names |-> DOMAIN Named(n).prov],
         value |-> [n \in names |-> [a \in DOMAIN AttrCall |->
                        IF a \in DOMAIN Named(n).attrs THEN "value" ELSE "absent"]]]

(* Build, for a control of the buckets                                     *)
BucketStatus(control, resources, tagged, required) ==
    LET Earned(inv) ==
            /\ Guard!Verified(control)
            /\ Guard!Applicable(control, Guard!ResourceTypesOf(inv))
            /\ Guard!AttrCollected(control, Guard!ResourceTypesOf(inv), Guard!AttrsByTypeOf(inv))
    IN  IF BucketFindings(control, resources, tagged, required) # {} THEN "fail"
        ELSE IF Earned(BucketInventory({r \in ToSet(resources) : r.type = Bucket}))
        THEN "pass" ELSE "not-evaluated"
=============================================================================
