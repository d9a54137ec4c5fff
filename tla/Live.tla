--------------------------------- MODULE Live ---------------------------------
(***************************************************************************)
(* A live collection (internal/collectkit/collectkit.go): the tasks of the *)
(* engine, then the collectors written in Go, each of them a unit of its   *)
(* own.  The chain of the inline EIM policies (internal/eimpolicy) is here *)
(* in full: the users, the groups, the policies of each group, and for     *)
(* each user the names of his policies, then one document per name.  Any   *)
(* error of the chain gives up everything it had read.                     *)
(***************************************************************************)
EXTENDS Collect

InlineWorking == <<environment, task, late, records, causes>>

\* CollectInlinePolicies returns nil with the error.
GiveUp(f) ==
    /\ stage' = "record" /\ failure' = f /\ mapped' = {}
    /\ UNCHANGED <<known, child, document, call>>

BeginInline ==
    /\ Starting({"inline"})
    /\ stage' = "users"
    /\ known' = <<>>
    /\ call' = Calling(listing[task].parents, "offset", TRUE)

UsersRead ==
    /\ stage = "users" /\ call.ended
    /\ \/ call.failure # NoFailure /\ GiveUp(call.failure)
       \/ /\ call.failure = NoFailure
          /\ stage' = "groups"
          /\ known' = call.got
          /\ call' = Calling(listing[task].groups, "offset", TRUE)
          /\ UNCHANGED <<child, document, mapped, failure>>
    /\ UNCHANGED <<InlineWorking, delivered>>

\* The policies of a group, or the names of those of a user: a loop without bound.
PoliciesOf(owner) == Calling(listing[task].of[owner], "offset", FALSE)

GroupsRead ==
    /\ stage = "groups" /\ call.ended
    /\ \/ call.failure # NoFailure /\ GiveUp(call.failure)
       \/ /\ call.failure = NoFailure
          /\ known' = call.got \o known
          /\ IF known' = <<>> THEN stage' = "record" /\ UNCHANGED call
                              ELSE stage' = "owner" /\ call' = PoliciesOf(known'[1])
          /\ UNCHANGED <<child, document, mapped, failure>>
    /\ UNCHANGED <<InlineWorking, delivered>>

NextOwner ==
    IF child = Len(known) THEN stage' = "record" /\ UNCHANGED <<child, document, call>>
    ELSE /\ stage' = "owner"
         /\ child' = child + 1 /\ document' = 1
         /\ call' = PoliciesOf(known[child + 1])

\* The policies of a group carry their body; those of a user are names to follow.
OwnerRead ==
    /\ stage = "owner" /\ call.ended
    /\ \/ call.failure # NoFailure /\ GiveUp(call.failure)
       \/ /\ call.failure = NoFailure /\ OfUser /\ call.got # <<>>
          /\ stage' = "documents"
          /\ UNCHANGED <<known, child, document, call, mapped, failure>>
       \/ /\ call.failure = NoFailure /\ ~(OfUser /\ call.got # <<>>)
          /\ mapped' = mapped \cup Pairs(known[child], call.got)
          /\ NextOwner
          /\ UNCHANGED <<known, failure>>
    /\ UNCHANGED <<InlineWorking, delivered>>

ReadDocument ==
    LET policy == <<known[child], call.got[document]>> IN
    /\ stage = "documents"
    /\ mapped' = mapped \cup {policy}
    /\ delivered' = delivered \cup {policy}
    /\ IF document < Len(call.got) THEN document' = document + 1 /\ UNCHANGED <<stage, child, call>>
                                   ELSE NextOwner
    /\ UNCHANGED <<InlineWorking, known, failure>>

RefuseDocument ==
    /\ stage = "documents"
    /\ \E f \in Refusals[task] : GiveUp(f)
    /\ UNCHANGED <<InlineWorking, delivered>>

Inline ==
    \/ BeginInline \/ UsersRead \/ GroupsRead \/ OwnerRead \/ ReadDocument \/ RefuseDocument

----------------------------------------------------------------------------
LiveInit ==
    /\ listing \in Listings /\ deaf \in SUBSET Deafable
    /\ task = 1 /\ stage = "begin"
    /\ known = <<>> /\ child = 1 /\ document = 1
    /\ late = NoFailure /\ failure = NoFailure
    /\ call = Calling(<<>>, "single", TRUE)
    /\ mapped = {} /\ delivered = {}
    /\ read = [t \in DOMAIN Tasks |-> {}]
    /\ counts = [t \in DOMAIN Tasks |-> NoCount]
    /\ units = [u \in Units |-> Untried]
    /\ causes = [u \in Units |-> NoFailure]

Finished == task > Len(Tasks)

\* Collection.IncompleteTypes: the types no control may conclude on.
IncompleteTypes ==
    {Tasks[t].type : t \in {t \in 1 .. task - 1 :
                               Tasks[t].enabled /\ units[Tasks[t].unit].state = "incomplete"}}

LiveDone == Finished /\ UNCHANGED liveVars

LiveNext ==
    \/ Begin \/ ReadPage \/ Refuse \/ AnswerOtherwise \/ ParentsRead \/ ItemsRead
    \/ Inline \/ Record \/ Skip \/ LiveDone

LiveSpec == LiveInit /\ [][LiveNext]_liveVars

\* The client bounds every call by a timeout, so that a call is always answered or
\* refused; nothing says which.
FairLiveSpec == LiveSpec /\ WF_liveVars(LiveNext)

----------------------------------------------------------------------------
(* Properties.                                                              *)

\* The state of a collection is well formed.
CollectTypeOK ==
    /\ listing \in Listings /\ deaf \subseteq Deafable
    /\ task \in 1 .. Len(Tasks) + 1 /\ stage \in Stages
    /\ known \in Seq(Items \cup {Root}) /\ child \in Nat /\ document \in Nat
    /\ late \in Failure \cup {NoFailure} /\ failure \in Failure \cup {NoFailure}
    /\ call \in Call
    /\ mapped \in SUBSET ((Items \cup {Root}) \X Items)
    /\ delivered \in SUBSET ((Items \cup {Root}) \X Items)
    /\ read \in [DOMAIN Tasks -> SUBSET ((Items \cup {Root}) \X Items)]
    /\ counts \in [DOMAIN Tasks -> Nat \cup {NoCount}]
    /\ units \in [Units -> UnitState]
    /\ causes \in [Units -> Failure \cup {NoFailure}]

\* A control concludes on the types no unit left incomplete (ADR-0005).  Whatever the
\* pages, the joins, the tasks that feed one unit and the units that feed one type, every
\* task done of such a type was read to its end, unless an API answered a document of
\* another shape (engine.go:137-305, collection.go:147-211).
CompleteIsWhole ==
    \A t \in 1 .. task - 1 :
        t \notin Strangers /\ Tasks[t].enabled /\ Tasks[t].type \notin IncompleteTypes =>
            IF Tasks[t].aggregate THEN counts[t] = Number(t) ELSE read[t] = Whole(t)

\* "Ce qui a ete lu est garde": what an API gave before it failed is in the inventory,
\* and nothing is there that no API gave.  The inline chain keeps all or nothing.
KeptWhatWasRead ==
    stage = "record" /\ ~Tasks[task].aggregate =>
        \/ mapped = delivered
        \/ Tasks[task].kind = "inline" /\ failure # NoFailure /\ mapped = {}

\* A number computed on a truncated list is worse than no number (engine.go:172-178): an
\* aggregate that is published is the exact number, whatever became of its unit.
CountIsExact ==
    \A t \in DOMAIN Tasks : t \notin Strangers => counts[t] \in {NoCount, Number(t)}

\* The class of an incomplete unit is the one of the FIRST failure that hit it, and it
\* sends the reader to the right place: a key the provider does not know is never a
\* missing right, a throttled call is never an outage, a malformed request is never an
\* outage either, and a truncation is never called anything else.  Only a redirect, which
\* the client does not follow, leaves a unit without a class (status.go:76-208).
ErrorIsTrue ==
    \A u \in Units : units[u].state = "incomplete" =>
        LET f == causes[u] IN
        /\ units[u].error = NoOutcome <=> f.kind = "http" /\ f.status < 400 /\ f.code = "none"
        /\ f.code \in {"outscale 4120", "outscale 1", "denied_authentication",
                       "InvalidAccessKeyId"} => units[u].error = "unauthenticated"
        /\ f.code = "SlowDown" => units[u].error = "rate_limited"
        /\ f.kind = "http" /\ f.status = 400 /\ f.code = "none" => units[u].error = "rejected"
        /\ units[u].error = "truncated" <=> f = Truncation

\* A collection ends: no paging, no join and no deaf API makes it go on for ever.
Terminates == <>Finished

\* The contract of a collection.
Promise == INSTANCE CollectionContract
    WITH whole <- [t \in DOMAIN Tasks |-> Whole(t)],
         number <- [t \in DOMAIN Tasks |-> Number(t)]

ContractKept == Promise!Contract

\* Contradicted by the code.  model/collection.go: an answer that is not the expected
\* document ("schema inconnu") is an incomplete unit.  extractItems reads an unknown
\* shape as an empty list.
UnknownSchema ==
    \A t \in 1 .. task - 1 :
        Tasks[t].enabled /\ ~Tasks[t].aggregate /\ Tasks[t].type \notin IncompleteTypes =>
            read[t] = Whole(t)

\* Contradicted by the code.  eimpolicy.go: "maxPages borne les boucles de pagination".
\* Two of the four loops have no bound.
InlineTerminates == <>Finished

=============================================================================
