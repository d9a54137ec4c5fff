-------------------------- MODULE CollectionContract --------------------------
(***************************************************************************)
(* What a collection promises, whatever the paging, the joins and the      *)
(* number of calls: the tasks are done in order and to the last; a task    *)
(* either reads everything its API has to give, or keeps a part of it and  *)
(* marks its unit incomplete, for good and with the class of the failure.  *)
(* A number computed on a list is published only when the list is whole.   *)
(*                                                                         *)
(* The promise has one hole, and it is stated: an API that answers a       *)
(* document of another shape is believed.                                  *)
(***************************************************************************)
EXTENDS Integers, Sequences

CONSTANTS
    Tasks,           \* the sequence of the tasks of a collection, see Collect
    Strangers,       \* the tasks whose API may answer a document of another shape
    Outcome, NoOutcome

VARIABLES
    task,            \* the task to do
    whole,           \* [DOMAIN Tasks -> what the API has to give]
    number,          \* [DOMAIN Tasks -> how many that is]
    read,            \* [DOMAIN Tasks -> what became resources]
    counts,          \* [DOMAIN Tasks -> the number an aggregate published, or NoCount]
    units            \* [Units -> the state of the unit]

contractVars == <<task, whole, number, read, counts, units>>

NoCount == -1
Units == {Tasks[t].unit : t \in DOMAIN Tasks}

ContractInit ==
    /\ task = 1
    /\ read = [t \in DOMAIN Tasks |-> {}]
    /\ counts = [t \in DOMAIN Tasks |-> NoCount]
    /\ units = [u \in Units |-> [state |-> "untried", error |-> NoOutcome]]

Doomed == units[Tasks[task].unit].state = "incomplete"

MarkComplete ==
    units' = IF Doomed THEN units
             ELSE [units EXCEPT ![Tasks[task].unit] = [state |-> "complete", error |-> NoOutcome]]

\* A redirect leaves a unit incomplete without a class.
MarkIncomplete ==
    \E o \in Outcome \cup {NoOutcome} :
        units' = IF Doomed THEN units
                 ELSE [units EXCEPT ![Tasks[task].unit] = [state |-> "incomplete", error |-> o]]

Keep(kept) == read' = [read EXCEPT ![task] = kept] /\ UNCHANGED counts

Publish(n) == counts' = [counts EXCEPT ![task] = n] /\ UNCHANGED read

ReadWhole ==
    /\ IF Tasks[task].aggregate THEN Publish(number[task]) ELSE Keep(whole[task])
    /\ MarkComplete

ReadPart ==
    /\ IF Tasks[task].aggregate THEN Publish(NoCount) ELSE \E kept \in SUBSET whole[task] : Keep(kept)
    /\ MarkIncomplete

\* A number that was believed may be any number.
Believe ==
    /\ task \in Strangers
    /\ IF Tasks[task].aggregate THEN counts'[task] \in Nat /\ Publish(counts'[task])
                                ELSE \E kept \in SUBSET whole[task] : Keep(kept)
    /\ MarkComplete

Pass == UNCHANGED <<read, counts, units>>

ContractNext ==
    /\ task \in DOMAIN Tasks
    /\ IF Tasks[task].enabled THEN ReadWhole \/ ReadPart \/ Believe ELSE Pass
    /\ task' = task + 1
    /\ UNCHANGED <<whole, number>>

Contract == ContractInit /\ [][ContractNext]_contractVars

=============================================================================
