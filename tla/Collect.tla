-------------------------------- MODULE Collect --------------------------------
(***************************************************************************)
(* The declarative collection engine (internal/collect/engine.go): one     *)
(* task per resource of the descriptor, each an endpoint read page by page *)
(* or a join (the parents are listed, then the endpoint is read once per   *)
(* parent).  A failure stops its task and nothing else.                    *)
(*                                                                         *)
(* The API is the environment.  It serves fixed lists, in pages whose size *)
(* it chooses where the style lets it; it may refuse any call, hand out a  *)
(* token when nothing remains, answer a JSON document of another shape, or *)
(* be deaf: ignore the paging and serve its first page for ever.           *)
(***************************************************************************)
EXTENDS Outcomes, FiniteSetsExt, SequencesExt

CONSTANTS
    Tasks,           \* the sequence of tasks, each a Task
    Root,            \* the only owner of the items of a task that joins nothing
    Items,           \* what the endpoints list; parents are items too
    UnitNames, TypeNames,
    PageSize,        \* the size asked for
    MaxPages,        \* defaultMaxPages, maxListBucketsPages, maxPages
    MaxGot,          \* (bound of the model) what a listing may accumulate
    Refusals,        \* [DOMAIN Tasks -> the failures a call of the task may end with]
    Listings,        \* the lists the APIs may hold: [DOMAIN Tasks -> Listing]
    Deafable,        \* the tasks whose API may be deaf
    Strangers        \* the tasks whose API may answer a document of another shape

Styles == {"single", "page", "offset", "token", "marker"}

Task == [kind        : {"listed", "joined", "inline"},
         unit        : UnitNames,
         type        : TypeNames,
         parentStyle : Styles,
         style       : Styles,
         aggregate   : BOOLEAN,
         enabled     : BOOLEAN]

\* The parents of a joined task, the users of the inline one, the groups of the inline one.
Listing == [parents : Seq(Items), groups : Seq(Items), of : [Items \cup {Root} -> Seq(Items)]]

NoFailure == [kind |-> "none", status |-> 0, code |-> "none"]

ASSUME CollectAssumption ==
    /\ Tasks \in Seq(Task)
    /\ Root \notin Items
    /\ PageSize \in Nat \ {0} /\ MaxPages \in Nat \ {0}
    /\ MaxGot \in Nat /\ MaxGot >= PageSize * MaxPages
    /\ Refusals \in [DOMAIN Tasks -> SUBSET Refusal]
    /\ Deafable \subseteq DOMAIN Tasks /\ Strangers \subseteq DOMAIN Tasks

ASSUME ListingsAssumption ==
    \A w \in Listings :
        /\ DOMAIN w = DOMAIN Tasks
        /\ \A t \in DOMAIN Tasks :
              /\ w[t] \in Listing
              /\ Range(w[t].parents) \cap Range(w[t].groups) = {}
              /\ Len(w[t].parents) <= MaxGot /\ Len(w[t].groups) <= MaxGot
              /\ \A o \in Items \cup {Root} : Len(w[t].of[o]) <= MaxGot

ASSUME AggregateAssumption ==
    \A t \in DOMAIN Tasks : Tasks[t].aggregate => Tasks[t].kind = "listed"

VARIABLES
    listing, deaf,   \* the environment, chosen once
    task,            \* the index of the current task
    stage,           \* where the task is
    known,           \* the owners to read
    child,           \* the owner being read
    document,        \* the document being read, of the user known[child]
    late,            \* the failure of the list of parents, kept for the end
    call,            \* the listing being paged
    mapped,          \* the pairs <<owner, item>> the task has turned into resources
    failure,         \* how the task ended
    read, counts, units,
    delivered,       \* (history) the pairs the API gave in answer to the current task
    causes           \* (history) the failure that made a unit incomplete

environment == <<listing, deaf>>
working == <<known, child, document, late, call, mapped, failure>>
records == <<read, counts, units>>
history == <<delivered, causes>>
liveVars == <<environment, task, stage, working, records, history>>

NoCount == -1
Units == {Tasks[t].unit : t \in DOMAIN Tasks}

PagedStages == {"parents", "items", "users", "groups", "owner"}
Stages == PagedStages \cup {"begin", "documents", "record"}

Call == [list : Seq(Items), style : Styles, bounded : BOOLEAN, page : 1 .. MaxPages,
         got : Seq(Items), ended : BOOLEAN, failure : Failure \cup {NoFailure}]

Calling(list, style, bounded) ==
    [list |-> list, style |-> style, bounded |-> bounded, page |-> 1,
     got |-> <<>>, ended |-> FALSE, failure |-> NoFailure]

Pairs(owner, items) == {<<owner, items[i]>> : i \in DOMAIN items}

Owners(t) ==
    CASE Tasks[t].kind = "listed" -> <<Root>>
      [] Tasks[t].kind = "joined" -> listing[t].parents
      [] Tasks[t].kind = "inline" -> listing[t].groups \o listing[t].parents

Whole(t) == UNION {Pairs(o, listing[t].of[o]) : o \in Range(Owners(t))}

Number(t) == Len(listing[t].of[Root])

----------------------------------------------------------------------------
(* One listing: fetchItems, and the loops of the collectors written in Go.  *)

Remaining == Len(call.list) - (IF task \in deaf THEN 0 ELSE Len(call.got))

Full == Min({PageSize, Remaining})

\* The pages an API may answer: how many items, and whether it says that more remain
\* (the boolean of the offset style, the token of the others).
Answers ==
    CASE call.style = "single" -> {[size |-> Remaining, more |-> FALSE]}
      [] call.style = "page" -> {[size |-> Full, more |-> FALSE]}
      [] call.style \in {"offset", "token", "marker"} /\ task \in deaf ->
            {[size |-> Full, more |-> Full < Remaining]}
      [] call.style = "offset" /\ task \notin deaf ->
            {[size |-> n, more |-> n < Remaining] : n \in IF Full = 0 THEN {0} ELSE 1 .. Full}
      [] call.style \in {"token", "marker"} /\ task \notin deaf ->
            {[size |-> n, more |-> n < Remaining] : n \in 0 .. Full}
               \cup {[size |-> Full, more |-> TRUE]}

Batch(n) ==
    IF task \in deaf THEN SubSeq(call.list, 1, n)
                     ELSE SubSeq(call.list, Len(call.got) + 1, Len(call.got) + n)

IsLast(a) ==
    CASE call.style = "single" -> TRUE
      [] call.style = "page" -> a.size < PageSize
      [] call.style = "offset" -> a.size = 0 \/ ~a.more
      [] call.style \in {"token", "marker"} -> ~a.more

\* CollectBuckets remembers the tokens it was given: a deaf API repeats its own.
Repeats == call.style = "marker" /\ task \in deaf /\ call.page > 1

Got(n) == IF Len(call.got) + n > MaxGot THEN call.got ELSE call.got \o Batch(n)

\* The bound of the inline collector is an error without a type.
AtBound == IF Tasks[task].kind = "inline" THEN Untyped ELSE Truncation

NextPage == IF call.page = MaxPages THEN 1 ELSE call.page + 1

EndedBy(a, f) == [call EXCEPT !.got = Got(a.size), !.ended = TRUE, !.failure = f]

\* (mutant) the loop trusts the API to say that the list ends.
AfterPageUnbounded(a) ==
    CASE IsLast(a) -> EndedBy(a, NoFailure)
      [] ~IsLast(a) /\ Repeats -> EndedBy(a, Unreadable)
      [] OTHER -> [call EXCEPT !.got = Got(a.size), !.page = NextPage]

\* (mutant) the bound of pages ends the list as if it had been read to its end.
AfterPageSilent(a) ==
    CASE IsLast(a) -> EndedBy(a, NoFailure)
      [] ~IsLast(a) /\ Repeats -> EndedBy(a, Unreadable)
      [] ~IsLast(a) /\ ~Repeats /\ call.bounded /\ call.page = MaxPages -> EndedBy(a, NoFailure)
      [] OTHER -> [call EXCEPT !.got = Got(a.size), !.page = NextPage]

AfterPage(a) ==
    CASE IsLast(a) -> EndedBy(a, NoFailure)
      [] ~IsLast(a) /\ Repeats -> EndedBy(a, Unreadable)
      [] ~IsLast(a) /\ ~Repeats /\ call.bounded /\ call.page = MaxPages -> EndedBy(a, AtBound)
      [] OTHER -> [call EXCEPT !.got = Got(a.size), !.page = NextPage]

OfUser == known[child] \in Range(listing[task].parents)

\* (history) what the answer gave of the items of the task: names are not items yet.
GivesItems ==
    ~Tasks[task].aggregate /\ (stage = "items" \/ (stage = "owner" /\ ~OfUser))

Deliver(n) ==
    delivered' = IF GivesItems THEN delivered \cup Pairs(known[child], Batch(n)) ELSE delivered

Paging == stage \in PagedStages /\ ~call.ended
AfterCall ==
    UNCHANGED <<environment, task, stage, known, child, document, late, mapped, failure, records, causes>>

ReadPage ==
    /\ Paging
    /\ \E a \in Answers : call' = AfterPage(a) /\ Deliver(a.size)
    /\ AfterCall

\* The pages already read come with the error.
Refuse ==
    /\ Paging
    /\ \E f \in Refusals[task] : call' = [call EXCEPT !.ended = TRUE, !.failure = f]
    /\ AfterCall /\ UNCHANGED delivered

\* A 200 whose document has neither the list nor the token nor the boolean.
AnswerOtherwise ==
    /\ task \in Strangers /\ Paging
    /\ call' = [call EXCEPT !.ended = TRUE]
    /\ AfterCall /\ UNCHANGED delivered

----------------------------------------------------------------------------
(* One task of the engine: collectResource and collectForEach.  The buckets *)
(* and the clusters, each one listing, are tasks of this form.              *)

Starting(kinds) ==
    /\ stage = "begin" /\ task \in DOMAIN Tasks
    /\ Tasks[task].enabled /\ Tasks[task].kind \in kinds
    /\ child' = 1 /\ document' = 1
    /\ late' = NoFailure /\ failure' = NoFailure
    /\ mapped' = {} /\ delivered' = {}
    /\ UNCHANGED <<environment, task, records, causes>>

Begin ==
    /\ Starting({"listed", "joined"})
    /\ IF Tasks[task].kind = "joined"
       THEN /\ stage' = "parents"
            /\ known' = <<>>
            /\ call' = Calling(listing[task].parents, Tasks[task].parentStyle, TRUE)
       ELSE /\ stage' = "items"
            /\ known' = <<Root>>
            /\ call' = Calling(listing[task].of[Root], Tasks[task].style, TRUE)

ItemsOf(owner) == Calling(listing[task].of[owner], Tasks[task].style, TRUE)

\* A partial list of parents: the children of those that are known are read, and the
\* error comes back at the end.
ParentsRead ==
    /\ stage = "parents" /\ call.ended
    /\ known' = call.got
    /\ late' = call.failure
    /\ IF call.got = <<>>
       THEN stage' = "record" /\ failure' = call.failure /\ UNCHANGED call
       ELSE stage' = "items" /\ call' = ItemsOf(call.got[1]) /\ UNCHANGED failure
    /\ UNCHANGED <<environment, task, child, document, mapped, records, history>>

\* (mutant) a call that failed gives nothing.
MappedUnlessFailed ==
    IF call.failure # NoFailure THEN mapped ELSE mapped \cup Pairs(known[child], call.got)

\* (mutant) the children of every parent are those of the first one.
MappedToFirst == mapped \cup Pairs(known[1], call.got)

Mapped == mapped \cup Pairs(known[child], call.got)

ItemsRead ==
    /\ stage = "items" /\ call.ended
    /\ mapped' = Mapped
    /\ \/ /\ call.failure # NoFailure
          /\ stage' = "record" /\ failure' = call.failure
          /\ UNCHANGED <<child, call>>
       \/ /\ call.failure = NoFailure /\ child = Len(known)
          /\ stage' = "record" /\ failure' = late
          /\ UNCHANGED <<child, call>>
       \/ /\ call.failure = NoFailure /\ child < Len(known)
          /\ child' = child + 1 /\ call' = ItemsOf(known[child + 1])
          /\ UNCHANGED <<stage, failure>>
    /\ UNCHANGED <<environment, task, known, document, late, records, history>>

----------------------------------------------------------------------------
(* The end of a task: Collect and collectUnit.                              *)

Count == IF failure = NoFailure THEN Len(call.got) ELSE NoCount

Ending == IF failure = NoFailure THEN Complete ELSE Incomplete(Classify(failure))

\* What was read joins the inventory, the unit is recorded, the next task comes.
Record ==
    LET unit == Tasks[task].unit IN
    /\ stage = "record"
    /\ IF Tasks[task].aggregate
       THEN counts' = [counts EXCEPT ![task] = Count] /\ UNCHANGED read
       ELSE read' = [read EXCEPT ![task] = mapped] /\ UNCHANGED counts
    /\ units' = [units EXCEPT ![unit] = Merge(@, Ending)]
    /\ causes' = IF units[unit].state = "incomplete" THEN causes
                 ELSE [causes EXCEPT ![unit] = failure]
    /\ task' = task + 1
    /\ stage' = "begin"
    /\ UNCHANGED <<environment, working, delivered>>

\* A service the provider does not offer is not tried, and leaves no trace.
Skip ==
    /\ stage = "begin" /\ task \in DOMAIN Tasks /\ ~Tasks[task].enabled
    /\ task' = task + 1
    /\ UNCHANGED <<environment, stage, working, records, history>>

=============================================================================
