------------------------------ MODULE Live_proofs ------------------------------
(***************************************************************************)
(* What a live collection keeps, marks and publishes, for every descriptor *)
(* (any number of tasks), whatever the APIs list, refuse, cut or repeat.   *)
(***************************************************************************)
EXTENDS Live, TLAPS, SequenceTheorems

----------------------------------------------------------------------------
(* The assumptions, in the form the proofs read them.                       *)

\* The least of two numbers.
LEMMA MinOfTwo ==
    ASSUME NEW a \in Int, NEW b \in Int
    PROVE  Min({a, b}) = IF a <= b THEN a ELSE b
BY DEF Min

\* What two sequences make when they are put end to end.
LEMMA Concatenation ==
    ASSUME NEW S, NEW s \in Seq(S), NEW t \in Seq(S)
    PROVE  /\ s \o t \in Seq(S) /\ Len(s \o t) = Len(s) + Len(t)
           /\ \A i \in 1 .. Len(s) : (s \o t)[i] = s[i]
           /\ \A i \in 1 .. Len(t) : (s \o t)[Len(s) + i] = t[i]
<1>1. Len(s) \in Nat /\ Len(t) \in Nat
  OBVIOUS
<1>2. /\ s \o t \in Seq(S) /\ Len(s \o t) = Len(s) + Len(t)
      /\ \A i \in 1 .. Len(s) + Len(t) :
            (s \o t)[i] = IF i <= Len(s) THEN s[i] ELSE t[i - Len(s)]
  BY ConcatProperties, Zenon
<1>3. ASSUME NEW i \in 1 .. Len(t) PROVE (s \o t)[Len(s) + i] = t[i]
  <2>1. Len(s) + i \in 1 .. Len(s) + Len(t) /\ ~(Len(s) + i <= Len(s)) /\ Len(s) + i - Len(s) = i
    BY <1>1
  <2>2. (s \o t)[Len(s) + i] = t[Len(s) + i - Len(s)]
    BY <1>2, <2>1
  <2> QED
    BY <2>1, <2>2
<1> QED
  BY <1>1, <1>2, <1>3

\* What the lists of a task are.
LEMMA ListTypes ==
    ASSUME listing \in Listings, NEW t \in DOMAIN Tasks
    PROVE  /\ listing[t].parents \in Seq(Items) /\ Len(listing[t].parents) <= MaxGot
           /\ listing[t].groups \in Seq(Items) /\ Len(listing[t].groups) <= MaxGot
           /\ \A o \in Items \cup {Root} : /\ listing[t].of[o] \in Seq(Items)
                                           /\ Len(listing[t].of[o]) <= MaxGot
BY ListingsAssumption DEF Listing

\* What a task is.
LEMMA TaskTypes ==
    ASSUME NEW t \in DOMAIN Tasks
    PROVE  Tasks[t] \in Task /\ t \in Nat /\ t \in 1 .. Len(Tasks)
BY CollectAssumption

----------------------------------------------------------------------------
(* One listing.                                                             *)

\* A call that has something to read.  It is about the API of the task: a deaf one
\* serves its first page over and over.
\* What was got is in the list; an API that is not deaf gives the list in order; a deaf one
\* that goes on has a first page that is not the last, and gave all of it; what ended
\* well is the list, unless an API answered a document of another shape.
CallOK(c) ==
    /\ Len(c.list) <= MaxGot
    /\ ~c.ended => c.failure = NoFailure
    /\ \A i \in DOMAIN c.got : \E j \in DOMAIN c.list : c.got[i] = c.list[j]
    /\ task \notin deaf => /\ Len(c.got) <= Len(c.list)
                           /\ \A i \in DOMAIN c.got : c.got[i] = c.list[i]
    /\ task \in deaf /\ ~c.ended /\ c.got # <<>> =>
          /\ c.style # "single"
          /\ IF c.style = "page" THEN Len(c.list) >= PageSize ELSE Len(c.list) > PageSize
          /\ \A j \in 1 .. PageSize : \E i \in DOMAIN c.got : c.got[i] = c.list[j]
    /\ c.ended /\ c.failure = NoFailure /\ task \notin Strangers => c.got = c.list

\* A call that has not started.
LEMMA CallingIsOK ==
    ASSUME NEW list \in Seq(Items), Len(list) <= MaxGot, NEW style \in Styles, NEW bounded \in BOOLEAN
    PROVE  Calling(list, style, bounded) \in Call /\ CallOK(Calling(list, style, bounded))
BY CollectAssumption DEF Calling, Call, CallOK

\* What an answer may hold: no more than a page, nor than what remains.
LEMMA AnswerBounds ==
    ASSUME call \in Call, CallOK(call), NEW a \in Answers
    PROVE  /\ a.size \in Nat /\ a.more \in BOOLEAN /\ Remaining \in Nat /\ a.size <= Remaining
           /\ call.style # "single" => a.size <= PageSize
<1> USE CollectAssumption
<1>1. call.list \in Seq(Items) /\ call.got \in Seq(Items) /\ call.style \in Styles
  BY DEF Call
<1>2. Remaining \in Nat
  BY <1>1 DEF CallOK, Remaining
<1>3. Full \in Nat /\ Full <= Remaining /\ Full <= PageSize
  BY <1>2, MinOfTwo DEF Full
<1>4. CASE call.style = "single"
  <2>1. a = [size |-> Remaining, more |-> FALSE]
    BY <1>4 DEF Answers
  <2> QED
    BY <1>2, <1>4, <2>1
<1>5. CASE call.style = "page"
  <2>1. a = [size |-> Full, more |-> FALSE]
    BY <1>5 DEF Answers
  <2> QED
    BY <1>2, <1>3, <2>1
<1>6. CASE call.style \in {"offset", "token", "marker"} /\ task \in deaf
  <2>1. a = [size |-> Full, more |-> Full < Remaining]
    BY <1>6 DEF Answers
  <2> QED
    BY <1>2, <1>3, <2>1
<1>7. CASE call.style = "offset" /\ task \notin deaf
  <2>1. \E n \in 0 .. Full : a = [size |-> n, more |-> n < Remaining]
    BY <1>3, <1>7 DEF Answers
  <2> QED
    BY <1>2, <1>3, <2>1
<1>8. CASE call.style \in {"token", "marker"} /\ task \notin deaf
  <2>1. \/ \E n \in 0 .. Full : a = [size |-> n, more |-> n < Remaining]
        \/ a = [size |-> Full, more |-> TRUE]
    <3>1. Answers = {[size |-> n, more |-> n < Remaining] : n \in 0 .. Full}
                       \cup {[size |-> Full, more |-> TRUE]}
      BY <1>8 DEF Answers
    <3> QED
      BY <3>1
  <2>2. a.size \in 0 .. Full /\ a.more \in BOOLEAN
    <3>1. CASE \E n \in 0 .. Full : a = [size |-> n, more |-> n < Remaining]
      BY <3>1
    <3>2. CASE a = [size |-> Full, more |-> TRUE]
      BY <1>3, <3>2
    <3> QED
      BY <2>1, <3>1, <3>2
  <2> QED
    BY <1>2, <1>3, <2>2
<1> QED
  BY <1>1, <1>4, <1>5, <1>6, <1>7, <1>8 DEF Styles

\* A page is a part of the list: the first one when the API is deaf, else the next one.
LEMMA BatchIsAPage ==
    ASSUME call \in Call, CallOK(call), NEW n \in Nat, n <= Remaining
    PROVE  /\ Batch(n) \in Seq(Items) /\ Len(Batch(n)) = n /\ n <= Len(call.list)
           /\ \A i \in 1 .. n :
                 Batch(n)[i] = call.list[IF task \in deaf THEN i ELSE Len(call.got) + i]
           /\ task \notin deaf => Len(call.got) + n <= Len(call.list)
<1>1. call.list \in Seq(Items) /\ call.got \in Seq(Items)
  BY DEF Call
<1>2. CASE task \in deaf
  <2>1. n <= Len(call.list)
    BY <1>1, <1>2 DEF Remaining
  <2>2. \A i \in 1 .. n : call.list[i] \in Items
    BY <1>1, <2>1
  <2>3. /\ SubSeq(call.list, 1, n) \in Seq(Items) /\ Len(SubSeq(call.list, 1, n)) = n
        /\ \A i \in 1 .. n : SubSeq(call.list, 1, n)[i] = call.list[i]
    BY <2>2, SubSeqProperties
  <2> QED
    BY <1>2, <2>1, <2>3 DEF Batch
<1>3. CASE task \notin deaf
  <2> DEFINE m == Len(call.got)
  <2>1. m \in Nat /\ m + n <= Len(call.list)
    BY <1>1, <1>3 DEF Remaining
  <2>2. \A i \in m + 1 .. m + n : call.list[i] \in Items
    BY <1>1, <2>1
  <2> HIDE DEF m
  <2>3. /\ SubSeq(call.list, m + 1, m + n) \in Seq(Items) /\ Len(SubSeq(call.list, m + 1, m + n)) = n
        /\ \A i \in 1 .. n : SubSeq(call.list, m + 1, m + n)[i] = call.list[m + i]
    BY <2>1, <2>2, SubSeqProperties
  <2>4. Batch(n) = SubSeq(call.list, m + 1, m + n)
    BY <1>3 DEF Batch, m
  <2> QED
    BY <1>3, <2>1, <2>3, <2>4 DEF m
<1> QED
  BY <1>2, <1>3

\* What is got after a page: MaxGot cuts nothing but a deaf listing that had everything.
LEMMA GotAfterPage ==
    ASSUME call \in Call, CallOK(call), NEW n \in Nat, n <= Remaining
    PROVE  /\ Got(n) \in Seq(Items)
           /\ \/ /\ Len(Got(n)) = Len(call.got) + n
                 /\ \A i \in 1 .. Len(call.got) : Got(n)[i] = call.got[i]
                 /\ \A i \in 1 .. n : Got(n)[Len(call.got) + i] = Batch(n)[i]
              \/ /\ task \in deaf /\ call.got # <<>>
                 /\ Got(n) = call.got
<1>1. call.list \in Seq(Items) /\ call.got \in Seq(Items) /\ MaxGot \in Nat
  BY CollectAssumption DEF Call
<1>2. /\ Batch(n) \in Seq(Items) /\ Len(Batch(n)) = n /\ n <= Len(call.list)
      /\ task \notin deaf => Len(call.got) + n <= Len(call.list)
  BY BatchIsAPage
<1>3. CASE Len(call.got) + n > MaxGot
  <2>1. Got(n) = call.got
    BY <1>3 DEF Got
  <2>2. task \in deaf /\ call.got # <<>>
    BY <1>1, <1>2, <1>3 DEF CallOK
  <2> QED
    BY <1>1, <2>1, <2>2
<1>4. CASE ~(Len(call.got) + n > MaxGot)
  <2>1. Got(n) = call.got \o Batch(n)
    BY <1>4 DEF Got
  <2>2. /\ call.got \o Batch(n) \in Seq(Items)
        /\ Len(call.got \o Batch(n)) = Len(call.got) + Len(Batch(n))
        /\ \A i \in 1 .. Len(call.got) : (call.got \o Batch(n))[i] = call.got[i]
        /\ \A i \in 1 .. Len(Batch(n)) : (call.got \o Batch(n))[Len(call.got) + i] = Batch(n)[i]
    <3>1. call.got \in Seq(Items) /\ Batch(n) \in Seq(Items)
      BY <1>1, <1>2
    <3> QED
      BY <3>1, Concatenation
  <2> QED
    BY <1>2, <2>1, <2>2
<1> QED
  BY <1>3, <1>4

\* What is got after a page is in the list, in its order when the API is not deaf.
LEMMA GotIsInTheList ==
    ASSUME call \in Call, CallOK(call), NEW n \in Nat, n <= Remaining
    PROVE  /\ Got(n) \in Seq(Items)
           /\ \A i \in DOMAIN Got(n) : \E j \in DOMAIN call.list : Got(n)[i] = call.list[j]
           /\ task \notin deaf => /\ Len(Got(n)) = Len(call.got) + n
                                  /\ Len(Got(n)) <= Len(call.list)
                                  /\ \A i \in DOMAIN Got(n) : Got(n)[i] = call.list[i]
<1>1. call.list \in Seq(Items) /\ call.got \in Seq(Items) /\ Got(n) \in Seq(Items)
  BY GotAfterPage DEF Call
<1>2. /\ Len(Batch(n)) = n /\ n <= Len(call.list)
      /\ \A i \in 1 .. n : Batch(n)[i] = call.list[IF task \in deaf THEN i ELSE Len(call.got) + i]
      /\ task \notin deaf => Len(call.got) + n <= Len(call.list)
  BY BatchIsAPage
<1>3. CASE Got(n) = call.got /\ task \in deaf
  BY <1>1, <1>3 DEF CallOK
<1>4. CASE ~(Got(n) = call.got /\ task \in deaf)
  <2>1. /\ Len(Got(n)) = Len(call.got) + n
        /\ \A i \in 1 .. Len(call.got) : Got(n)[i] = call.got[i]
        /\ \A i \in 1 .. n : Got(n)[Len(call.got) + i] = Batch(n)[i]
    BY <1>4, GotAfterPage
  <2>2. ASSUME NEW i \in DOMAIN Got(n)
        PROVE  /\ \E j \in DOMAIN call.list : Got(n)[i] = call.list[j]
               /\ task \notin deaf => Got(n)[i] = call.list[i]
    <3>1. CASE i <= Len(call.got)
      BY <1>1, <2>1, <3>1 DEF CallOK
    <3>2. CASE i > Len(call.got)
      <4>0. i \in 1 .. Len(call.got) + n /\ Len(call.got) \in Nat
        BY <1>1, <2>1
      <4>1. i - Len(call.got) \in 1 .. n /\ Len(call.got) + (i - Len(call.got)) = i
        BY <3>2, <4>0
      <4>2. Got(n)[i] = Batch(n)[i - Len(call.got)]
        BY <2>1, <4>1
      <4>3. Batch(n)[i - Len(call.got)] = call.list[IF task \in deaf THEN i - Len(call.got) ELSE i]
        BY <1>2, <4>1
      <4>4. i - Len(call.got) \in DOMAIN call.list /\ (task \notin deaf => i \in DOMAIN call.list)
        BY <1>1, <1>2, <2>1, <4>1
      <4> QED
        BY <4>2, <4>3, <4>4
    <3> QED
      BY <1>1, <2>1, <3>1, <3>2
  <2> QED
    BY <1>1, <1>2, <2>1, <2>2
<1> QED
  BY <1>3, <1>4

\* The last page of a list completes it, and only it does.
LEMMA LastPageCompletes ==
    ASSUME call \in Call, CallOK(call), ~call.ended, NEW a \in Answers, IsLast(a)
    PROVE  Got(a.size) = call.list
<1>1. call.list \in Seq(Items) /\ call.got \in Seq(Items) /\ call.style \in Styles
  BY DEF Call
<1>2. a.size \in Nat /\ a.size <= Remaining /\ Remaining \in Nat
  BY AnswerBounds
<1>3. PageSize \in Nat \ {0}
  BY CollectAssumption
<1>4. Full = IF PageSize <= Remaining THEN PageSize ELSE Remaining
  BY <1>2, <1>3, MinOfTwo DEF Full
<1>5. task \in deaf => call.got = <<>>
  <2>1. SUFFICES ASSUME task \in deaf, call.got # <<>> PROVE FALSE
    OBVIOUS
  <2>2. /\ call.style # "single" /\ Remaining = Len(call.list)
        /\ IF call.style = "page" THEN Len(call.list) >= PageSize ELSE Len(call.list) > PageSize
    BY <1>1, <2>1 DEF CallOK, Remaining
  <2>3. Full = PageSize
    BY <1>3, <1>4, <2>2, <1>1
  <2>4. CASE call.style = "page"
    <3>1. a.size = Full
      <4>1. a = [size |-> Full, more |-> FALSE]
        BY <2>4 DEF Answers
      <4> QED
        BY <4>1
    <3> QED
      BY <1>3, <2>3, <2>4, <3>1 DEF IsLast
  <2>5. CASE call.style # "page"
    <3>1. call.style \in {"offset", "token", "marker"}
      BY <1>1, <2>2, <2>5 DEF Styles
    <3>2. a = [size |-> Full, more |-> Full < Remaining]
      BY <2>1, <3>1 DEF Answers
    <3>3. Full < Remaining /\ a.size = Full
      BY <1>1, <1>3, <2>2, <2>3, <2>5, <3>2
    <3>4. a.more
      BY <3>2, <3>3, Zenon
    <3> QED
      BY <1>3, <2>3, <3>1, <3>3, <3>4 DEF IsLast
  <2> QED
    BY <2>4, <2>5
<1>6. a.size = Remaining
  <2>1. CASE call.style = "single"
    <3>1. a = [size |-> Remaining, more |-> FALSE]
      BY <2>1 DEF Answers
    <3> QED
      BY <3>1
  <2>2. CASE call.style = "page"
    <3>1. a = [size |-> Full, more |-> FALSE]
      BY <2>2 DEF Answers
    <3>2. a.size = Full /\ a.size < PageSize
      BY <2>2, <3>1 DEF IsLast
    <3> QED
      BY <1>2, <1>3, <1>4, <3>2
  <2>3. CASE call.style \in {"offset", "token", "marker"} /\ task \in deaf
    <3>1. a = [size |-> Full, more |-> Full < Remaining]
      BY <2>3 DEF Answers
    <3>2. a.size = Full /\ (Full < Remaining => a.more)
      BY <3>1, Zenon
    <3>3. a.size = 0 \/ ~a.more
      BY <2>3 DEF IsLast
    <3> QED
      BY <1>2, <1>3, <1>4, <3>2, <3>3
  <2>4. CASE call.style = "offset" /\ task \notin deaf
    <3>1. PICK n \in IF Full = 0 THEN {0} ELSE 1 .. Full : a = [size |-> n, more |-> n < Remaining]
      BY <2>4 DEF Answers
    <3>2. a.size = n /\ (n < Remaining => a.more)
      BY <3>1, Zenon
    <3>3. a.size = 0 \/ ~a.more
      BY <2>4 DEF IsLast
    <3> QED
      BY <1>2, <1>3, <1>4, <3>1, <3>2, <3>3
  <2>5. CASE call.style \in {"token", "marker"} /\ task \notin deaf
    <3>1. Answers = {[size |-> n, more |-> n < Remaining] : n \in 0 .. Full}
                       \cup {[size |-> Full, more |-> TRUE]}
      BY <2>5 DEF Answers
    <3>2. ~a.more
      BY <2>5 DEF IsLast
    <3>3. a # [size |-> Full, more |-> TRUE]
      BY <3>2
    <3>4. PICK n \in 0 .. Full : a = [size |-> n, more |-> n < Remaining]
      BY <3>1, <3>3
    <3>5. a.size = n /\ (n < Remaining => a.more)
      BY <3>4, Zenon
    <3> QED
      BY <1>2, <1>3, <1>4, <3>2, <3>4, <3>5
  <2> QED
    BY <1>1, <2>1, <2>2, <2>3, <2>4, <2>5 DEF Styles
<1>7. /\ Got(a.size) \in Seq(Items) /\ Len(Got(a.size)) = Len(call.list)
      /\ \A i \in 1 .. Len(call.list) : Got(a.size)[i] = call.list[i]
  <2>1. CASE task \notin deaf
    <3>1. /\ Got(a.size) \in Seq(Items) /\ Len(Got(a.size)) = Len(call.got) + a.size
          /\ \A i \in DOMAIN Got(a.size) : Got(a.size)[i] = call.list[i]
      BY <1>2, <2>1, GotIsInTheList
    <3>2. Remaining = Len(call.list) - Len(call.got)
      BY <2>1 DEF Remaining
    <3>3. Len(call.got) \in Nat /\ Len(call.list) \in Nat
      BY <1>1
    <3>4. Len(Got(a.size)) = Len(call.list)
      BY <1>6, <3>1, <3>2, <3>3
    <3>5. DOMAIN Got(a.size) = 1 .. Len(call.list)
      BY <3>1, <3>4
    <3> QED
      BY <3>1, <3>4, <3>5
  <2>2. CASE task \in deaf
    <3>1. a.size = Len(call.list) /\ Len(call.got) = 0
      BY <1>1, <1>5, <1>6, <2>2 DEF Remaining
    <3>2. /\ Got(a.size) \in Seq(Items) /\ Len(Got(a.size)) = 0 + a.size
          /\ \A i \in 1 .. a.size : Got(a.size)[0 + i] = Batch(a.size)[i]
      BY <1>2, <1>5, <2>2, <3>1, GotAfterPage
    <3>3. \A i \in 1 .. a.size : Batch(a.size)[i] = call.list[i]
      BY <1>2, <2>2, BatchIsAPage
    <3> QED
      BY <1>1, <3>1, <3>2, <3>3
  <2> QED
    BY <2>1, <2>2
<1> QED
  BY <1>1, <1>7, SeqEqual

\* A deaf API whose first page is not the last gives a full page, and more remains.
LEMMA DeafPageIsFull ==
    ASSUME call \in Call, CallOK(call), task \in deaf, NEW a \in Answers, ~IsLast(a)
    PROVE  /\ call.style # "single" /\ a.size = PageSize
           /\ IF call.style = "page" THEN Len(call.list) >= PageSize ELSE Len(call.list) > PageSize
<1>1. call.list \in Seq(Items) /\ call.style \in Styles /\ Len(call.list) \in Nat
  BY DEF Call
<1>2. Remaining = Len(call.list)
  BY <1>1 DEF Remaining
<1>3. PageSize \in Nat \ {0}
  BY CollectAssumption
<1>4. Full = IF PageSize <= Len(call.list) THEN PageSize ELSE Len(call.list)
  BY <1>1, <1>2, <1>3, MinOfTwo DEF Full
<1>5. CASE call.style = "single"
  BY <1>5 DEF IsLast
<1>6. CASE call.style = "page"
  <2>1. a = [size |-> Full, more |-> FALSE]
    BY <1>6 DEF Answers
  <2>2. a.size = Full /\ ~(a.size < PageSize)
    BY <1>6, <2>1 DEF IsLast
  <2> QED
    BY <1>1, <1>3, <1>4, <1>6, <2>2
<1>7. CASE call.style \in {"offset", "token", "marker"}
  <2>1. a = [size |-> Full, more |-> Full < Remaining]
    BY <1>7 DEF Answers
  <2>2. a.size = Full /\ (a.more => Full < Remaining)
    BY <2>1, Zenon
  <2>3. a.more
    BY <1>7 DEF IsLast
  <2> QED
    BY <1>1, <1>2, <1>3, <1>4, <1>7, <2>2, <2>3
<1> QED
  BY <1>1, <1>5, <1>6, <1>7 DEF Styles

\* How a call may end.
Endings == Refusal \cup {Truncation, Unreadable, NoFailure}

\* The ways a call ends are failures, or none.
LEMMA EndingTypes ==
    /\ Endings \subseteq Failure \cup {NoFailure}
    /\ Truncation # NoFailure /\ Unreadable # NoFailure /\ Untyped # NoFailure
    /\ NoFailure \notin Failure
    /\ Refusal \subseteq Failure
    /\ Untyped \in Refusal
BY DEF Endings, Refusal, Failure, Kinds, NoFailure, Truncation, Unreadable, Untyped

\* A page that comes leaves a call that makes sense.
LEMMA AfterPageIsOK ==
    ASSUME call \in Call, CallOK(call), ~call.ended, call.failure \in Endings, NEW a \in Answers
    PROVE  /\ AfterPage(a) \in Call /\ CallOK(AfterPage(a))
           /\ AfterPage(a).list = call.list /\ AfterPage(a).got = Got(a.size)
           /\ AfterPage(a).failure \in Endings
<1> USE CollectAssumption
<1>1. /\ call.list \in Seq(Items) /\ call.got \in Seq(Items) /\ call.style \in Styles
      /\ call.bounded \in BOOLEAN /\ call.page \in 1 .. MaxPages
  BY DEF Call
<1>2. a.size \in Nat /\ a.size <= Remaining
  BY AnswerBounds
<1>3. /\ Got(a.size) \in Seq(Items)
      /\ \A i \in DOMAIN Got(a.size) : \E j \in DOMAIN call.list : Got(a.size)[i] = call.list[j]
      /\ task \notin deaf => /\ Len(Got(a.size)) <= Len(call.list)
                             /\ \A i \in DOMAIN Got(a.size) : Got(a.size)[i] = call.list[i]
  BY <1>2, GotIsInTheList
<1>4. Len(call.list) <= MaxGot
  BY DEF CallOK
<1>5. ASSUME NEW f \in Endings, IsLast(a) \/ f # NoFailure
      PROVE  /\ EndedBy(a, f) \in Call /\ CallOK(EndedBy(a, f))
             /\ EndedBy(a, f).list = call.list /\ EndedBy(a, f).got = Got(a.size)
             /\ EndedBy(a, f).failure = f
  <2>1. /\ EndedBy(a, f).list = call.list /\ EndedBy(a, f).got = Got(a.size)
        /\ EndedBy(a, f).failure = f /\ EndedBy(a, f).ended = TRUE
        /\ EndedBy(a, f) \in Call
    BY <1>1, <1>3, EndingTypes DEF EndedBy, Call
  <2>2. IsLast(a) => Got(a.size) = call.list
    BY LastPageCompletes
  <2> QED
    BY <1>3, <1>4, <1>5, <2>1, <2>2 DEF CallOK
<1>6. NoFailure \in Endings /\ Unreadable \in Endings /\ AtBound \in Endings /\ AtBound # NoFailure
      /\ Unreadable # NoFailure
  BY EndingTypes DEF Endings, AtBound
<1>7. CASE ~IsLast(a) /\ AfterPage(a) = [call EXCEPT !.got = Got(a.size), !.page = NextPage]
  <2>1. NextPage \in 1 .. MaxPages
    BY <1>1 DEF NextPage
  <2>2. /\ AfterPage(a).list = call.list /\ AfterPage(a).got = Got(a.size)
        /\ AfterPage(a).failure = call.failure /\ AfterPage(a).ended = FALSE
        /\ AfterPage(a).style = call.style
        /\ AfterPage(a) \in Call
    BY <1>1, <1>3, <1>7, <2>1 DEF Call
  <2>3. ASSUME task \in deaf
        PROVE  /\ call.style # "single"
               /\ IF call.style = "page" THEN Len(call.list) >= PageSize ELSE Len(call.list) > PageSize
               /\ \A j \in 1 .. PageSize : \E i \in DOMAIN Got(a.size) : Got(a.size)[i] = call.list[j]
    <3>1. /\ call.style # "single" /\ a.size = PageSize
          /\ IF call.style = "page" THEN Len(call.list) >= PageSize ELSE Len(call.list) > PageSize
      BY <1>7, <2>3, DeafPageIsFull
    <3>2. CASE Got(a.size) = call.got /\ call.got # <<>>
      BY <2>3, <3>1, <3>2 DEF CallOK
    <3>3. CASE /\ Len(Got(a.size)) = Len(call.got) + a.size
               /\ \A i \in 1 .. a.size : Got(a.size)[Len(call.got) + i] = Batch(a.size)[i]
      <4>1. \A i \in 1 .. a.size : Batch(a.size)[i] = call.list[i]
        BY <1>2, <2>3, BatchIsAPage
      <4>2. ASSUME NEW j \in 1 .. PageSize PROVE \E i \in DOMAIN Got(a.size) : Got(a.size)[i] = call.list[j]
        <5>1. Len(call.got) + j \in DOMAIN Got(a.size)
          BY <1>1, <1>3, <3>1, <3>3
        <5>2. Got(a.size)[Len(call.got) + j] = call.list[j]
          BY <3>1, <3>3, <4>1
        <5> QED
          BY <5>1, <5>2
      <4> QED
        BY <3>1, <4>2
    <3> QED
      BY <1>2, <3>2, <3>3, GotAfterPage
  <2>4. call.failure = NoFailure
    BY DEF CallOK
  <2> QED
    BY <1>3, <1>4, <1>6, <2>2, <2>3, <2>4 DEF CallOK
<1>8. \/ IsLast(a) /\ AfterPage(a) = EndedBy(a, NoFailure)
      \/ AfterPage(a) = EndedBy(a, Unreadable)
      \/ AfterPage(a) = EndedBy(a, AtBound)
      \/ ~IsLast(a) /\ AfterPage(a) = [call EXCEPT !.got = Got(a.size), !.page = NextPage]
  <2>1. CASE IsLast(a)
    BY <2>1 DEF AfterPage
  <2>2. CASE ~IsLast(a) /\ Repeats
    BY <2>2, Zenon DEF AfterPage
  <2>3. CASE ~IsLast(a) /\ ~Repeats /\ call.bounded /\ call.page = MaxPages
    BY <2>3, Zenon DEF AfterPage
  <2>4. CASE ~IsLast(a) /\ ~Repeats /\ ~(call.bounded /\ call.page = MaxPages)
    BY <2>4, Zenon DEF AfterPage
  <2> QED
    BY <2>1, <2>2, <2>3, <2>4
<1> QED
  BY <1>5, <1>6, <1>7, <1>8

\* What a page adds is what its call has got more.
LEMMA PairsAfterPage ==
    ASSUME call \in Call, CallOK(call), ~call.ended, NEW a \in Answers, NEW o
    PROVE  Pairs(o, Got(a.size)) = Pairs(o, call.got) \cup Pairs(o, Batch(a.size))
<1>1. a.size \in Nat /\ a.size <= Remaining /\ (call.style # "single" => a.size <= PageSize)
  BY AnswerBounds
<1>2. /\ call.got \in Seq(Items) /\ Got(a.size) \in Seq(Items) /\ Batch(a.size) \in Seq(Items)
      /\ Len(Batch(a.size)) = a.size
  BY <1>1, GotAfterPage, BatchIsAPage DEF Call
<1>3. CASE /\ Len(Got(a.size)) = Len(call.got) + a.size
           /\ \A i \in 1 .. Len(call.got) : Got(a.size)[i] = call.got[i]
           /\ \A i \in 1 .. a.size : Got(a.size)[Len(call.got) + i] = Batch(a.size)[i]
  <2> DEFINE m == Len(call.got)
  <2>0. /\ m \in Nat /\ DOMAIN call.got = 1 .. m /\ DOMAIN Batch(a.size) = 1 .. a.size
        /\ DOMAIN Got(a.size) = 1 .. m + a.size
    <3>1. Len(Got(a.size)) = m + a.size
      BY <1>3
    <3> QED
      BY <1>1, <1>2, <3>1
  <2>1. ASSUME NEW i \in DOMAIN Got(a.size)
        PROVE  \/ \E j \in DOMAIN call.got : Got(a.size)[i] = call.got[j]
               \/ \E j \in DOMAIN Batch(a.size) : Got(a.size)[i] = Batch(a.size)[j]
    <3>1. CASE i <= m
      BY <1>1, <1>3, <2>0, <3>1
    <3>2. CASE i > m
      <4>1. i - m \in 1 .. a.size /\ m + (i - m) = i
        BY <1>1, <2>0, <3>2
      <4>2. Got(a.size)[i] = Batch(a.size)[i - m]
        BY <1>3, <4>1
      <4> QED
        BY <2>0, <4>1, <4>2
    <3> QED
      BY <1>1, <2>0, <3>1, <3>2
  <2>2. \A i \in DOMAIN call.got : i \in DOMAIN Got(a.size) /\ Got(a.size)[i] = call.got[i]
    BY <1>1, <1>3, <2>0
  <2>3. \A i \in DOMAIN Batch(a.size) : /\ m + i \in DOMAIN Got(a.size)
                                        /\ Got(a.size)[m + i] = Batch(a.size)[i]
    BY <1>1, <1>3, <2>0
  <2> QED
    BY <2>1, <2>2, <2>3 DEF Pairs
<1>4. CASE task \in deaf /\ call.got # <<>> /\ Got(a.size) = call.got
  <2>1. call.style # "single" /\ a.size <= PageSize /\ PageSize \in Nat
    BY <1>1, <1>4, CollectAssumption DEF CallOK
  <2>3. \A i \in 1 .. a.size : Batch(a.size)[i] = call.list[i]
    BY <1>1, <1>4, BatchIsAPage
  <2>4. DOMAIN Batch(a.size) = 1 .. a.size /\ \A i \in 1 .. a.size : i \in 1 .. PageSize
    BY <1>1, <1>2, <2>1
  <2>2. \A i \in DOMAIN Batch(a.size) : \E j \in DOMAIN call.got : call.got[j] = Batch(a.size)[i]
    BY <1>4, <2>3, <2>4 DEF CallOK
  <2> QED
    BY <1>4, <2>2 DEF Pairs
<1> QED
  BY <1>1, <1>3, <1>4, GotAfterPage
----------------------------------------------------------------------------
(* The inductive invariant, in layers: each is proved from the ones before. *)

\* Where a task is: a stage belongs to a kind of task, reads an owner that is known, and
\* has not failed yet; a document that is read is one of a user whose names came whole.
PlaceInv ==
    /\ stage # "begin" => task \in DOMAIN Tasks /\ Tasks[task].enabled
    /\ stage = "parents" => Tasks[task].kind = "joined"
    /\ stage = "items" => Tasks[task].kind \in {"listed", "joined"}
    /\ stage \in {"users", "groups", "owner", "documents"} => Tasks[task].kind = "inline"
    /\ stage \in {"parents", "users", "groups"} => child = 1
    /\ stage \in PagedStages => document = 1
    /\ stage \in {"items", "owner", "documents"} => child \in DOMAIN known
    /\ stage \in PagedStages \cup {"documents"} => failure = NoFailure
    /\ stage = "documents" => /\ call.ended /\ call.failure = NoFailure
                              /\ document \in DOMAIN call.got /\ OfUser

\* The call is about the list its stage waits for, and a failure is one a call may end with.
CallInv ==
    /\ stage \in PagedStages \cup {"documents"} => CallOK(call)
    /\ stage \in {"parents", "users"} => call.list = listing[task].parents
    /\ stage = "groups" => call.list = listing[task].groups
    /\ stage \in {"items", "owner", "documents"} => call.list = listing[task].of[known[child]]
    /\ call.failure \in Endings /\ late \in Endings /\ failure \in Endings

PlaceAndCall == CollectTypeOK /\ PlaceInv /\ CallInv

\* What is mapped is what was delivered, less what the call that is running has given.
KeptInv ==
    /\ stage \in {"parents", "users", "groups"} => mapped = {} /\ delivered = {}
    /\ stage = "items" /\ ~Tasks[task].aggregate => delivered = mapped \cup Pairs(known[child], call.got)
    /\ stage = "owner" => delivered = IF OfUser THEN mapped ELSE mapped \cup Pairs(known[child], call.got)
    /\ stage = "documents" => delivered = mapped
    /\ KeptWhatWasRead

\* The owners that are known are owners of the task, and all of them when their list came whole.
OwnersInv ==
    /\ stage = "groups" => /\ Range(known) \subseteq Range(listing[task].parents)
                           /\ task \notin Strangers => known = listing[task].parents
    /\ stage \in {"items", "owner", "documents"} =>
          /\ Range(known) \subseteq Range(Owners(task))
          /\ task \notin Strangers /\ (stage = "items" => late = NoFailure) => known = Owners(task)

\* What is mapped is in the lists, and holds all that the owners before this one have.
WholeInv ==
    /\ stage # "begin" => mapped \subseteq Whole(task)
    /\ stage \in {"parents", "users", "groups"} => mapped = {}
    /\ stage \in {"items", "owner", "documents"} /\ task \notin Strangers =>
          \A c \in 1 .. child - 1 : Pairs(known[c], listing[task].of[known[c]]) \subseteq mapped
    /\ stage = "documents" => \A d \in 1 .. document - 1 : <<known[child], call.got[d]>> \in mapped
    /\ stage = "record" /\ failure = NoFailure /\ task \notin Strangers =>
          /\ mapped = Whole(task)
          /\ Tasks[task].aggregate => Len(call.got) = Number(task)

\* What was recorded of a task whose unit is not incomplete is all there was.
RecordInv ==
    \A t \in 1 .. task - 1 :
        t \notin Strangers /\ Tasks[t].enabled /\ units[Tasks[t].unit].state # "incomplete" =>
            IF Tasks[t].aggregate THEN counts[t] = Number(t) ELSE read[t] = Whole(t)

\* The error of a unit is the class of the failure that is remembered as its cause.
CauseInv ==
    \A u \in Units : units[u].state = "incomplete" =>
        causes[u] \in Endings \ {NoFailure} /\ units[u].error = Classify(causes[u])

----------------------------------------------------------------------------
(* The first layer: the types, the place and the call.                      *)

\* The lists a task may call for.
ListsOf(t) == {listing[t].parents, listing[t].groups} \cup {listing[t].of[o] : o \in Items \cup {Root}}

\* A call that starts on one of them.
LEMMA NewCall ==
    ASSUME listing \in Listings, task \in DOMAIN Tasks, UNCHANGED <<task, deaf>>,
           NEW l \in ListsOf(task), NEW style \in Styles, NEW b \in BOOLEAN,
           call' = Calling(l, style, b)
    PROVE  /\ call' \in Call /\ CallOK(call)'
           /\ call'.list = l /\ call'.got = <<>> /\ ~call'.ended /\ call'.failure = NoFailure
<1>1. l \in Seq(Items) /\ Len(l) <= MaxGot
  BY ListTypes DEF ListsOf
<1>2. Calling(l, style, b) \in Call /\ CallOK(Calling(l, style, b))
  BY <1>1, CallingIsOK
<1>3. CallOK(call)'
  BY <1>2 DEF CallOK
<1> QED
  BY <1>2, <1>3 DEF Calling

\* What a call changes, when it is answered or refused.
LEMMA CallMoves ==
    ASSUME PlaceAndCall, Paging, AfterCall,
           call' \in Call, CallOK(call'), call'.list = call.list, call'.failure \in Endings,
           delivered' \in SUBSET ((Items \cup {Root}) \X Items)
    PROVE  PlaceAndCall'
<1> USE DEF PlaceAndCall, AfterCall, environment, records, Paging, PagedStages
<1>1. CollectTypeOK'
  BY DEF CollectTypeOK
<1>2. PlaceInv'
  BY DEF PlaceInv, OfUser
<1>3. CallOK(call)'
  BY DEF CallOK
<1>4. CallInv'
  BY <1>3 DEF CallInv
<1> QED
  BY <1>1, <1>2, <1>4

\* ReadPage keeps where the collection is and what it called.
LEMMA ReadPagePlace == ASSUME PlaceAndCall, ReadPage PROVE PlaceAndCall'
<1>1. PICK a \in Answers : call' = AfterPage(a) /\ Deliver(a.size)
  BY DEF ReadPage
<1>2. call \in Call /\ CallOK(call) /\ ~call.ended /\ call.failure \in Endings /\ Paging /\ AfterCall
  BY DEF PlaceAndCall, CollectTypeOK, CallInv, ReadPage, Paging
<1>3. /\ call' \in Call /\ CallOK(call') /\ call'.list = call.list /\ call'.failure \in Endings
  BY <1>1, <1>2, AfterPageIsOK
<1>4. delivered' \in SUBSET ((Items \cup {Root}) \X Items)
  <2>1. delivered \in SUBSET ((Items \cup {Root}) \X Items) /\ known \in Seq(Items \cup {Root})
    BY DEF PlaceAndCall, CollectTypeOK
  <2>2. Batch(a.size) \in Seq(Items)
    BY <1>2, AnswerBounds, BatchIsAPage
  <2>3. GivesItems => child \in DOMAIN known
    BY DEF PlaceAndCall, PlaceInv, GivesItems
  <2>4. GivesItems => Pairs(known[child], Batch(a.size)) \subseteq (Items \cup {Root}) \X Items
    BY <2>1, <2>2, <2>3 DEF Pairs
  <2> QED
    BY <1>1, <2>1, <2>4 DEF Deliver
<1> QED
  BY <1>2, <1>3, <1>4, CallMoves

\* Refuse keeps where the collection is and what it called.
LEMMA RefusePlace == ASSUME PlaceAndCall, Refuse PROVE PlaceAndCall'
<1>1. PICK f \in Refusals[task] : call' = [call EXCEPT !.ended = TRUE, !.failure = f]
  BY DEF Refuse
<1>2. /\ call \in Call /\ CallOK(call) /\ ~call.ended /\ Paging /\ AfterCall /\ UNCHANGED delivered
      /\ delivered \in SUBSET ((Items \cup {Root}) \X Items)
  BY DEF PlaceAndCall, CollectTypeOK, CallInv, Refuse, Paging
<1>3. task \in DOMAIN Tasks
  BY <1>2 DEF PlaceAndCall, PlaceInv, Paging, PagedStages
<1>4. f \in Refusal /\ f \in Endings /\ f # NoFailure /\ f \in Failure
  BY <1>1, <1>3, CollectAssumption, EndingTypes DEF Endings
<1>5. /\ call' \in Call /\ call'.list = call.list /\ call'.failure = f /\ call'.got = call.got
      /\ call'.ended
  BY <1>1, <1>2, <1>4 DEF Call
<1>6. CallOK(call')
  BY <1>2, <1>4, <1>5 DEF CallOK
<1> QED
  BY <1>2, <1>4, <1>5, <1>6, CallMoves

\* AnswerOtherwise keeps where the collection is and what it called.
LEMMA AnswerOtherwisePlace == ASSUME PlaceAndCall, AnswerOtherwise PROVE PlaceAndCall'
<1>1. /\ call \in Call /\ CallOK(call) /\ ~call.ended /\ Paging /\ AfterCall /\ UNCHANGED delivered
      /\ delivered \in SUBSET ((Items \cup {Root}) \X Items) /\ call.failure \in Endings
      /\ task \in Strangers /\ call' = [call EXCEPT !.ended = TRUE]
  BY DEF PlaceAndCall, CollectTypeOK, CallInv, AnswerOtherwise, Paging
<1>2. /\ call' \in Call /\ call'.list = call.list /\ call'.failure = call.failure /\ call'.got = call.got
      /\ call'.ended
  BY <1>1 DEF Call
<1>3. CallOK(call')
  BY <1>1, <1>2 DEF CallOK
<1> QED
  BY <1>1, <1>2, <1>3, CallMoves

\* Begin keeps where the collection is and what it called.
LEMMA BeginPlace == ASSUME PlaceAndCall, Begin PROVE PlaceAndCall'
<1> USE DEF Starting, environment, records
<1>1. /\ listing \in Listings /\ task \in DOMAIN Tasks /\ UNCHANGED <<task, deaf, listing>>
      /\ Tasks[task] \in Task
  BY TaskTypes DEF PlaceAndCall, CollectTypeOK, Begin
<1>2. /\ \/ stage' = "parents" /\ Tasks[task].kind = "joined" /\ known' = <<>>
            /\ call' = Calling(listing[task].parents, Tasks[task].parentStyle, TRUE)
         \/ stage' = "items" /\ Tasks[task].kind = "listed" /\ known' = <<Root>>
            /\ call' = Calling(listing[task].of[Root], Tasks[task].style, TRUE)
  BY DEF Begin
<1>3. /\ call' \in Call /\ CallOK(call)' /\ call'.failure = NoFailure
      /\ stage' = "parents" => call'.list = listing[task].parents
      /\ stage' = "items" => call'.list = listing[task].of[Root]
  BY <1>1, <1>2, NewCall DEF ListsOf, Task
<1>4. /\ known' \in Seq(Items \cup {Root}) /\ stage' \in Stages /\ child' = 1
      /\ stage' = "items" => known'[1] = Root /\ 1 \in DOMAIN known'
  <2>1. /\ <<Root>> \in Seq(Items \cup {Root}) /\ <<Root>>[1] = Root /\ 1 \in DOMAIN <<Root>>
        /\ <<>> \in Seq(Items \cup {Root})
    OBVIOUS
  <2>2. child' = 1
    BY DEF Begin
  <2> QED
    BY <1>2, <2>1, <2>2 DEF Stages, PagedStages
<1>5. CollectTypeOK'
  BY <1>3, <1>4 DEF PlaceAndCall, CollectTypeOK, Begin
<1>6. PlaceInv'
  BY <1>2, <1>4 DEF PlaceInv, Begin, PagedStages
<1>7. CallInv'
  BY <1>1, <1>2, <1>3, <1>4 DEF CallInv, Begin, PagedStages, Endings
<1> QED
  BY <1>5, <1>6, <1>7 DEF PlaceAndCall

\* BeginInline keeps where the collection is and what it called.
LEMMA BeginInlinePlace == ASSUME PlaceAndCall, BeginInline PROVE PlaceAndCall'
<1> USE DEF Starting, environment, records
<1>1. listing \in Listings /\ task \in DOMAIN Tasks /\ UNCHANGED <<task, deaf, listing>>
  BY DEF PlaceAndCall, CollectTypeOK, BeginInline
<1>2. call' \in Call /\ CallOK(call)' /\ call'.failure = NoFailure /\ call'.list = listing[task].parents
  BY <1>1, NewCall DEF BeginInline, ListsOf, Styles
<1>3. CollectTypeOK'
  <2>1. known' \in Seq(Items \cup {Root}) /\ stage' \in Stages
    BY DEF BeginInline, Stages, PagedStages
  <2> QED
    BY <1>2, <2>1 DEF PlaceAndCall, CollectTypeOK, BeginInline
<1>4. PlaceInv'
  BY DEF PlaceInv, BeginInline, PagedStages
<1>5. CallInv'
  BY <1>1, <1>2 DEF CallInv, BeginInline, PagedStages, Endings
<1> QED
  BY <1>3, <1>4, <1>5 DEF PlaceAndCall

\* A task whose stage is "record" has nothing more to read.
LEMMA EndingPlace ==
    ASSUME PlaceAndCall, stage # "begin", stage' = "record", failure' \in Endings,
           late' \in Endings, call' = call, known' \in Seq(Items \cup {Root}), UNCHANGED <<child, document>>,
           mapped' \in SUBSET ((Items \cup {Root}) \X Items),
           delivered' \in SUBSET ((Items \cup {Root}) \X Items),
           UNCHANGED <<environment, task, records, causes>>
    PROVE  PlaceAndCall'
<1> USE DEF environment, records
<1>1. CollectTypeOK'
  BY EndingTypes DEF PlaceAndCall, CollectTypeOK, Stages, PagedStages
<1>2. PlaceInv'
  BY DEF PlaceAndCall, PlaceInv, PagedStages
<1>3. CallInv'
  BY DEF PlaceAndCall, CallInv, PagedStages
<1> QED
  BY <1>1, <1>2, <1>3 DEF PlaceAndCall

\* ParentsRead keeps where the collection is and what it called.
LEMMA ParentsReadPlace == ASSUME PlaceAndCall, ParentsRead PROVE PlaceAndCall'
<1> USE DEF environment, records, history
<1>1. /\ listing \in Listings /\ task \in DOMAIN Tasks /\ UNCHANGED <<task, deaf, listing>>
      /\ Tasks[task] \in Task /\ Tasks[task].kind = "joined" /\ stage # "begin"
      /\ call.got \in Seq(Items) /\ call.failure \in Endings
      /\ mapped \in SUBSET ((Items \cup {Root}) \X Items)
      /\ delivered \in SUBSET ((Items \cup {Root}) \X Items)
  BY TaskTypes DEF PlaceAndCall, CollectTypeOK, PlaceInv, CallInv, ParentsRead, Call
<1>2. call.got \in Seq(Items \cup {Root})
  BY <1>1
<1>3. CASE call.got = <<>>
  BY <1>1, <1>2, <1>3, EndingPlace DEF ParentsRead
<1>4. CASE call.got # <<>>
  <2>1. call.got[1] \in Items /\ 1 \in DOMAIN call.got
    BY <1>1, <1>4
  <2>2. /\ stage' = "items" /\ call' = Calling(listing[task].of[call.got[1]], Tasks[task].style, TRUE)
        /\ known' = call.got /\ late' = call.failure /\ UNCHANGED failure
    BY <1>4 DEF ParentsRead, ItemsOf
  <2>3. /\ call' \in Call /\ CallOK(call)' /\ call'.failure = NoFailure
        /\ call'.list = listing[task].of[call.got[1]]
    BY <1>1, <2>1, <2>2, NewCall DEF ListsOf, Task
  <2>4. CollectTypeOK'
    BY <1>1, <1>2, <2>2, <2>3, EndingTypes DEF PlaceAndCall, CollectTypeOK, ParentsRead, Stages, PagedStages
  <2>5. PlaceInv'
    BY <1>1, <2>1, <2>2 DEF PlaceAndCall, PlaceInv, ParentsRead, PagedStages
  <2>6. CallInv'
    <3>1. child' = 1
      BY DEF PlaceAndCall, PlaceInv, ParentsRead
    <3> QED
      BY <1>1, <2>2, <2>3, <3>1 DEF PlaceAndCall, CallInv, PagedStages, Endings
  <2> QED
    BY <2>4, <2>5, <2>6 DEF PlaceAndCall
<1> QED
  BY <1>3, <1>4

\* What an owner gave can be mapped.
LEMMA MappedPairs ==
    ASSUME PlaceAndCall, stage \in {"items", "owner", "documents"}
    PROVE  /\ known[child] \in Items \cup {Root} /\ child \in 1 .. Len(known) /\ Len(known) \in Nat
           /\ Pairs(known[child], call.got) \subseteq (Items \cup {Root}) \X Items
<1>1. known \in Seq(Items \cup {Root}) /\ call.got \in Seq(Items) /\ child \in DOMAIN known
  BY DEF PlaceAndCall, CollectTypeOK, PlaceInv, Call
<1> QED
  BY <1>1 DEF Pairs

\* The next owner is called for.
LEMMA NextOwnerPlace ==
    ASSUME PlaceAndCall, stage \in {"items", "owner", "documents"}, child < Len(known),
           child' = child + 1, document' = 1, UNCHANGED <<environment, task, late, failure, records, causes>>,
           known' = known, failure = NoFailure,
           NEW style \in Styles, NEW b \in BOOLEAN,
           call' = Calling(listing[task].of[known[child + 1]], style, b),
           mapped' \in SUBSET ((Items \cup {Root}) \X Items),
           delivered' \in SUBSET ((Items \cup {Root}) \X Items),
           stage' = IF stage = "items" THEN "items" ELSE "owner"
    PROVE  PlaceAndCall'
<1> USE DEF environment, records
<1>1. listing \in Listings /\ task \in DOMAIN Tasks /\ known \in Seq(Items \cup {Root}) /\ child \in DOMAIN known
  BY DEF PlaceAndCall, CollectTypeOK, PlaceInv
<1>2. child + 1 \in DOMAIN known /\ known[child + 1] \in Items \cup {Root}
  BY <1>1
<1>3. call' \in Call /\ CallOK(call)' /\ call'.failure = NoFailure /\ call'.list = listing[task].of[known[child + 1]]
  BY <1>1, <1>2, NewCall DEF ListsOf
<1>4. CollectTypeOK'
  BY <1>1, <1>3 DEF PlaceAndCall, CollectTypeOK, Stages, PagedStages
<1>5. PlaceInv'
  BY <1>2 DEF PlaceAndCall, PlaceInv, PagedStages
<1>6. CallInv'
  BY <1>3 DEF PlaceAndCall, CallInv, PagedStages, Endings
<1> QED
  BY <1>4, <1>5, <1>6 DEF PlaceAndCall

\* ItemsRead keeps where the collection is and what it called.
LEMMA ItemsReadPlace == ASSUME PlaceAndCall, ItemsRead PROVE PlaceAndCall'
<1> USE DEF records, history
<1>1. /\ stage = "items" /\ stage # "begin" /\ task \in DOMAIN Tasks /\ Tasks[task] \in Task
      /\ call.failure \in Endings /\ late \in Endings /\ failure = NoFailure /\ document = 1
      /\ known \in Seq(Items \cup {Root})
      /\ mapped \in SUBSET ((Items \cup {Root}) \X Items)
      /\ delivered \in SUBSET ((Items \cup {Root}) \X Items)
      /\ UNCHANGED <<environment, task, known, document, late, records, causes, delivered>>
  BY TaskTypes DEF PlaceAndCall, CollectTypeOK, PlaceInv, CallInv, ItemsRead, PagedStages
<1>2. mapped' \in SUBSET ((Items \cup {Root}) \X Items)
  BY <1>1, MappedPairs DEF ItemsRead, Mapped
<1>3. CASE stage' = "record" /\ failure' \in {call.failure, late} /\ UNCHANGED <<child, call>>
  BY <1>1, <1>2, <1>3, EndingPlace
<1>4. CASE /\ child < Len(known) /\ child' = child + 1 /\ call' = ItemsOf(known[child + 1])
           /\ UNCHANGED <<stage, failure>>
  <2>1. call' = Calling(listing[task].of[known[child + 1]], Tasks[task].style, TRUE) /\ Tasks[task].style \in Styles
    BY <1>1, <1>4 DEF ItemsOf, Task
  <2> QED
    BY <1>1, <1>2, <1>4, <2>1, NextOwnerPlace
<1> QED
  BY <1>1, <1>3, <1>4 DEF ItemsRead

\* A listing of the inline chain follows the one that ended.
LEMMA NextListPlace ==
    ASSUME PlaceAndCall, stage = "users", stage' = "groups", known' \in Seq(Items \cup {Root}),
           call' = Calling(listing[task].groups, "offset", TRUE),
           UNCHANGED <<environment, task, late, records, causes, delivered, child, document, mapped, failure>>
    PROVE  PlaceAndCall'
<1> USE DEF environment, records
<1>1. listing \in Listings /\ task \in DOMAIN Tasks /\ UNCHANGED <<task, deaf, listing>>
  BY DEF PlaceAndCall, CollectTypeOK, PlaceInv
<1>2. call' \in Call /\ CallOK(call)' /\ call'.failure = NoFailure /\ call'.list = listing[task].groups
  BY <1>1, NewCall DEF ListsOf, Styles
<1>3. CollectTypeOK'
  BY <1>2 DEF PlaceAndCall, CollectTypeOK, Stages, PagedStages
<1>4. PlaceInv'
  BY DEF PlaceAndCall, PlaceInv, PagedStages
<1>5. CallInv'
  BY <1>2 DEF PlaceAndCall, CallInv, PagedStages, Endings
<1> QED
  BY <1>3, <1>4, <1>5 DEF PlaceAndCall

\* A chain that fails ends with nothing.
LEMMA GiveUpPlace ==
    ASSUME PlaceAndCall, NEW f \in Endings, GiveUp(f), stage # "begin",
           UNCHANGED <<environment, task, late, records, causes>>,
           UNCHANGED delivered
    PROVE  PlaceAndCall'
<1>1. /\ known \in Seq(Items \cup {Root}) /\ late \in Endings
      /\ delivered \in SUBSET ((Items \cup {Root}) \X Items)
  BY DEF PlaceAndCall, CollectTypeOK, CallInv
<1> QED
  BY <1>1, EndingPlace DEF GiveUp

\* UsersRead keeps where the collection is and what it called.
LEMMA UsersReadPlace == ASSUME PlaceAndCall, UsersRead PROVE PlaceAndCall'
<1>1. /\ stage = "users" /\ stage # "begin" /\ call.failure \in Endings /\ call.got \in Seq(Items)
      /\ UNCHANGED <<environment, task, late, records, causes, delivered>>
  BY DEF PlaceAndCall, CollectTypeOK, CallInv, UsersRead, InlineWorking, Call
<1>2. call.got \in Seq(Items \cup {Root})
  BY <1>1
<1> QED
  BY <1>1, <1>2, GiveUpPlace, NextListPlace DEF UsersRead

\* GroupsRead keeps where the collection is and what it called.
LEMMA GroupsReadPlace == ASSUME PlaceAndCall, GroupsRead PROVE PlaceAndCall'
<1> USE DEF environment, records
<1>1. /\ stage = "groups" /\ stage # "begin" /\ call.failure \in Endings /\ call.got \in Seq(Items)
      /\ known \in Seq(Items \cup {Root}) /\ child = 1 /\ failure \in Endings /\ late \in Endings
      /\ mapped \in SUBSET ((Items \cup {Root}) \X Items)
      /\ delivered \in SUBSET ((Items \cup {Root}) \X Items)
      /\ listing \in Listings /\ task \in DOMAIN Tasks
      /\ UNCHANGED <<environment, task, late, records, causes, delivered, listing, deaf>>
  BY DEF PlaceAndCall, CollectTypeOK, PlaceInv, CallInv, GroupsRead, InlineWorking, Call
<1>2. CASE call.failure # NoFailure /\ GiveUp(call.failure)
  BY <1>1, <1>2, GiveUpPlace
<1>3. CASE /\ known' = call.got \o known
           /\ IF known' = <<>> THEN stage' = "record" /\ UNCHANGED call
                               ELSE stage' = "owner" /\ call' = PoliciesOf(known'[1])
           /\ UNCHANGED <<child, document, mapped, failure>>
  <2>1. known' \in Seq(Items \cup {Root})
    BY <1>1, <1>3
  <2>2. CASE known' = <<>>
    BY <1>1, <1>3, <2>1, <2>2, EndingPlace
  <2>3. CASE known' # <<>>
    <3>1. 1 \in DOMAIN known' /\ known'[1] \in Items \cup {Root}
      BY <2>1, <2>3
    <3>2. stage' = "owner" /\ call' = Calling(listing[task].of[known'[1]], "offset", FALSE)
      BY <1>3, <2>3 DEF PoliciesOf
    <3>3. /\ call' \in Call /\ CallOK(call)' /\ call'.failure = NoFailure
          /\ call'.list = listing[task].of[known'[1]]
      BY <1>1, <3>1, <3>2, NewCall DEF ListsOf, Styles
    <3>4. CollectTypeOK'
      BY <1>1, <1>3, <2>1, <3>2, <3>3 DEF PlaceAndCall, CollectTypeOK, Stages, PagedStages
    <3>5. PlaceInv'
      BY <1>1, <1>3, <3>1, <3>2 DEF PlaceAndCall, PlaceInv, PagedStages
    <3>6. CallInv'
      BY <1>1, <1>3, <3>2, <3>3 DEF PlaceAndCall, CallInv, PagedStages, Endings
    <3> QED
      BY <3>4, <3>5, <3>6 DEF PlaceAndCall
  <2> QED
    BY <2>2, <2>3
<1> QED
  BY <1>2, <1>3 DEF GroupsRead

\* The end of an owner is the next one, or the end of the task.
LEMMA OwnerEndsPlace ==
    ASSUME PlaceAndCall, stage \in {"owner", "documents"}, NextOwner,
           UNCHANGED <<environment, task, late, records, causes, known, failure>>,
           mapped' \in SUBSET ((Items \cup {Root}) \X Items),
           delivered' \in SUBSET ((Items \cup {Root}) \X Items)
    PROVE  PlaceAndCall'
<1>1. /\ stage # "begin" /\ stage # "items" /\ failure = NoFailure /\ failure \in Endings /\ late \in Endings
      /\ known \in Seq(Items \cup {Root}) /\ child \in 1 .. Len(known) /\ Len(known) \in Nat
  BY MappedPairs DEF PlaceAndCall, CollectTypeOK, PlaceInv, CallInv, PagedStages
<1>2. CASE child = Len(known)
  BY <1>1, <1>2, EndingPlace DEF NextOwner
<1>3. CASE child # Len(known)
  <2>1. child < Len(known)
    BY <1>1, <1>3
  <2>2. /\ stage' = "owner" /\ child' = child + 1 /\ document' = 1
        /\ call' = Calling(listing[task].of[known[child + 1]], "offset", FALSE)
    BY <1>3 DEF NextOwner, PoliciesOf
  <2> QED
    BY <1>1, <2>1, <2>2, NextOwnerPlace DEF Styles
<1> QED
  BY <1>2, <1>3

\* OwnerRead keeps where the collection is and what it called.
LEMMA OwnerReadPlace == ASSUME PlaceAndCall, OwnerRead PROVE PlaceAndCall'
<1> USE DEF environment, records
<1>1. /\ stage = "owner" /\ stage # "begin" /\ call.ended /\ call.failure \in Endings /\ call.got \in Seq(Items)
      /\ mapped \in SUBSET ((Items \cup {Root}) \X Items)
      /\ delivered \in SUBSET ((Items \cup {Root}) \X Items) /\ document = 1
      /\ UNCHANGED <<environment, task, late, records, causes, delivered>>
  BY DEF PlaceAndCall, CollectTypeOK, PlaceInv, CallInv, OwnerRead, InlineWorking, Call, PagedStages
<1>2. CASE call.failure # NoFailure /\ GiveUp(call.failure)
  BY <1>1, <1>2, GiveUpPlace
<1>3. CASE /\ call.failure = NoFailure /\ OfUser /\ call.got # <<>> /\ stage' = "documents"
           /\ UNCHANGED <<known, child, document, call, mapped, failure>>
  <2>1. CollectTypeOK'
    BY <1>1, <1>3 DEF PlaceAndCall, CollectTypeOK, Stages
  <2>2. PlaceInv'
    BY <1>1, <1>3 DEF PlaceAndCall, PlaceInv, OfUser, PagedStages
  <2>3. CallInv'
    BY <1>1, <1>3 DEF PlaceAndCall, CallInv, CallOK, PagedStages
  <2> QED
    BY <2>1, <2>2, <2>3 DEF PlaceAndCall
<1>4. CASE mapped' = mapped \cup Pairs(known[child], call.got) /\ NextOwner /\ UNCHANGED <<known, failure>>
  BY <1>1, <1>4, MappedPairs, OwnerEndsPlace
<1> QED
  BY <1>2, <1>3, <1>4 DEF OwnerRead

\* ReadDocument keeps where the collection is and what it called.
LEMMA ReadDocumentPlace == ASSUME PlaceAndCall, ReadDocument PROVE PlaceAndCall'
<1> USE DEF environment, records
<1>1. /\ stage = "documents" /\ call.got \in Seq(Items) /\ document \in DOMAIN call.got
      /\ known[child] \in Items \cup {Root}
      /\ mapped \in SUBSET ((Items \cup {Root}) \X Items)
      /\ delivered \in SUBSET ((Items \cup {Root}) \X Items)
      /\ UNCHANGED <<environment, task, late, records, causes, known, failure>>
  BY MappedPairs DEF PlaceAndCall, CollectTypeOK, PlaceInv, ReadDocument, InlineWorking, Call
<1>2. <<known[child], call.got[document]>> \in (Items \cup {Root}) \X Items
  BY <1>1
<1>3. /\ mapped' \in SUBSET ((Items \cup {Root}) \X Items)
      /\ delivered' \in SUBSET ((Items \cup {Root}) \X Items)
  BY <1>1, <1>2 DEF ReadDocument
<1>4. CASE document < Len(call.got)
  <2>1. document' = document + 1 /\ UNCHANGED <<stage, child, call>>
    BY <1>4 DEF ReadDocument
  <2>2. document' \in DOMAIN call.got /\ document' \in Nat
    BY <1>1, <1>4, <2>1
  <2>3. CollectTypeOK'
    BY <1>1, <1>3, <2>1, <2>2 DEF PlaceAndCall, CollectTypeOK
  <2>4. PlaceInv'
    BY <1>1, <2>1, <2>2 DEF PlaceAndCall, PlaceInv, OfUser, PagedStages
  <2>5. CallInv'
    BY <1>1, <2>1 DEF PlaceAndCall, CallInv, CallOK, PagedStages
  <2> QED
    BY <2>3, <2>4, <2>5 DEF PlaceAndCall
<1>5. CASE ~(document < Len(call.got))
  BY <1>1, <1>3, <1>5, OwnerEndsPlace DEF ReadDocument
<1> QED
  BY <1>4, <1>5

\* RefuseDocument keeps where the collection is and what it called.
LEMMA RefuseDocumentPlace == ASSUME PlaceAndCall, RefuseDocument PROVE PlaceAndCall'
<1>1. PICK f \in Refusals[task] : GiveUp(f)
  BY DEF RefuseDocument
<1>2. /\ stage # "begin" /\ task \in DOMAIN Tasks
      /\ UNCHANGED <<environment, task, late, records, causes, delivered>>
  BY DEF PlaceAndCall, PlaceInv, RefuseDocument, InlineWorking
<1>3. f \in Endings
  BY <1>1, <1>2, CollectAssumption DEF Endings
<1> QED
  BY <1>1, <1>2, <1>3, GiveUpPlace

\* Every status and every code has its class, or none.
LEMMA StatusTypes ==
    ASSUME NEW s \in 0 .. 599
    PROVE  /\ OutcomeForStatus(s) \in (Outcome \ {"unauthenticated", "truncated", "unreadable"}) \cup {NoOutcome}
           /\ OutcomeForStatus(s) = NoOutcome <=> s < 400
           /\ s = 400 => OutcomeForStatus(s) = "rejected"
BY DEF OutcomeForStatus, Outcome, NoOutcome

\* The outcome of an error code is of its type.
LEMMA CodeTypes ==
    ASSUME NEW c \in BodyCodes \cup SdkCodes \cup {"none"}
    PROVE  /\ OutcomeForCode(c) \in {"unauthenticated", "permission_denied", "rate_limited", NoOutcome}
           /\ OutcomeForCode(c) = NoOutcome <=> c = "none"
           /\ c \in {"outscale 4120", "outscale 1", "denied_authentication", "InvalidAccessKeyId"} =>
                 OutcomeForCode(c) = "unauthenticated"
           /\ c = "SlowDown" => OutcomeForCode(c) = "rate_limited"
BY DEF OutcomeForCode, BodyCodes, SdkCodes, NoOutcome

\* What a failure is classified as is of its type.
LEMMA ClassifyTypes ==
    ASSUME NEW f \in Failure
    PROVE  Classify(f) \in Outcome \cup {NoOutcome}
<1>1. f.status \in 0 .. 599 /\ f.code \in BodyCodes \cup SdkCodes \cup {"none"} /\ f.kind \in Kinds
  BY DEF Failure
<1>2. /\ OutcomeForStatus(f.status) \in Outcome \cup {NoOutcome}
      /\ OutcomeForCode(f.code) \in Outcome \cup {NoOutcome}
  BY <1>1, StatusTypes, CodeTypes DEF Outcome
<1> QED
  BY <1>1, <1>2 DEF Classify, Kinds, Outcome

\* Record is pessimistic: a unit is incomplete when it was, or when the new end is.
LEMMA MergeIsPessimistic ==
    ASSUME NEW old \in UnitState, NEW new \in UnitState, new.state # "untried"
    PROVE  /\ Merge(old, new) \in UnitState
           /\ Merge(old, new) = IF old.state = "incomplete" \/ (old.state = "complete" /\ new.state = "complete")
                                THEN old ELSE new
           /\ Merge(old, new).state = "incomplete" <=> old.state = "incomplete" \/ new.state = "incomplete"
BY DEF Merge, UnitState

\* A unit ends complete, or incomplete with the class of its failure.
LEMMA EndingState ==
    ASSUME failure \in Endings
    PROVE  /\ Ending \in UnitState
           /\ Ending = IF failure = NoFailure THEN [state |-> "complete", error |-> NoOutcome]
                       ELSE [state |-> "incomplete", error |-> Classify(failure)]
<1>1. failure # NoFailure => Classify(failure) \in Outcome \cup {NoOutcome}
  BY EndingTypes, ClassifyTypes
<1> QED
  BY <1>1 DEF Ending, Complete, Incomplete, UnitState

\* Record keeps where the collection is and what it called.
LEMMA RecordPlace == ASSUME PlaceAndCall, Record PROVE PlaceAndCall'
<1> USE DEF environment, working
<1> DEFINE unit == Tasks[task].unit
<1>1. /\ stage = "record" /\ task \in DOMAIN Tasks /\ Tasks[task] \in Task /\ task \in 1 .. Len(Tasks)
      /\ unit \in Units /\ failure \in Endings /\ failure \in Failure \cup {NoFailure}
      /\ call.got \in Seq(Items)
      /\ mapped \in SUBSET ((Items \cup {Root}) \X Items)
      /\ read \in [DOMAIN Tasks -> SUBSET ((Items \cup {Root}) \X Items)]
      /\ counts \in [DOMAIN Tasks -> Nat \cup {NoCount}]
      /\ units \in [Units -> UnitState]
      /\ causes \in [Units -> Failure \cup {NoFailure}]
  BY TaskTypes DEF PlaceAndCall, CollectTypeOK, PlaceInv, CallInv, Record, Units, Call
<1>2. /\ read' \in [DOMAIN Tasks -> SUBSET ((Items \cup {Root}) \X Items)]
      /\ counts' \in [DOMAIN Tasks -> Nat \cup {NoCount}]
  <2>1. Count \in Nat \cup {NoCount}
    BY <1>1 DEF Count
  <2> QED
    BY <1>1, <2>1 DEF Record
<1>3. units' \in [Units -> UnitState]
  <2>1. Merge(units[unit], Ending) \in UnitState
    <3>1. Ending \in UnitState /\ Ending.state # "untried" /\ units[unit] \in UnitState
      BY <1>1, EndingState
    <3> QED
      BY <3>1, MergeIsPessimistic
  <2>2. units' = [units EXCEPT ![unit] = Merge(units[unit], Ending)]
    BY DEF Record
  <2> QED
    BY <1>1, <2>1, <2>2
<1>4. causes' \in [Units -> Failure \cup {NoFailure}]
  BY <1>1 DEF Record
<1>5. task' \in 1 .. Len(Tasks) + 1 /\ stage' = "begin" /\ stage' \in Stages
  BY <1>1, CollectAssumption DEF Record, Stages
<1>6. CollectTypeOK'
  BY <1>2, <1>3, <1>4, <1>5 DEF PlaceAndCall, CollectTypeOK, Record
<1>7. PlaceInv'
  BY <1>5 DEF PlaceInv, PagedStages
<1>8. CallInv'
  BY <1>5 DEF PlaceAndCall, CallInv, PagedStages, Record
<1> QED
  BY <1>6, <1>7, <1>8 DEF PlaceAndCall

\* Skip keeps where the collection is and what it called.
LEMMA SkipPlace == ASSUME PlaceAndCall, Skip PROVE PlaceAndCall'
<1> USE DEF environment, working, records, history
<1>1. task \in 1 .. Len(Tasks) /\ task' = task + 1 /\ Len(Tasks) \in Nat
  BY CollectAssumption, TaskTypes DEF Skip
<1>2. CollectTypeOK'
  BY <1>1 DEF PlaceAndCall, CollectTypeOK, Skip
<1>3. PlaceInv'
  BY DEF Skip, PlaceInv, PagedStages
<1>4. CallInv'
  BY DEF PlaceAndCall, CallInv, PagedStages, Skip
<1> QED
  BY <1>2, <1>3, <1>4 DEF PlaceAndCall

\* A step that changes nothing keeps where the collection is.
LEMMA StutterPlace == ASSUME PlaceAndCall, UNCHANGED liveVars PROVE PlaceAndCall'
BY DEF PlaceAndCall, CollectTypeOK, PlaceInv, CallInv, CallOK, OfUser,
       liveVars, environment, working, records, history

\* The initial states.
LEMMA InitPlace == LiveInit => PlaceAndCall
<1> SUFFICES ASSUME LiveInit PROVE PlaceAndCall
  OBVIOUS
<1>1. call \in Call /\ call.failure = NoFailure
  <2>1. <<>> \in Seq(Items) /\ Len(<<>>) <= MaxGot /\ "single" \in Styles
    BY CollectAssumption DEF Styles
  <2>2. Calling(<<>>, "single", TRUE) \in Call
    BY <2>1, CallingIsOK
  <2>3. call = Calling(<<>>, "single", TRUE)
    BY DEF LiveInit
  <2> QED
    BY <2>2, <2>3 DEF Calling
<1>2. Len(Tasks) \in Nat /\ 1 \in 1 .. Len(Tasks) + 1
  BY CollectAssumption
<1>3. Untried \in UnitState
  BY DEF Untried, UnitState
<1>4. CollectTypeOK
  <2>1. /\ known \in Seq(Items \cup {Root}) /\ task \in 1 .. Len(Tasks) + 1 /\ stage \in Stages
        /\ child \in Nat /\ document \in Nat
    BY <1>2 DEF LiveInit, Stages
  <2>2. /\ read \in [DOMAIN Tasks -> SUBSET ((Items \cup {Root}) \X Items)]
        /\ counts \in [DOMAIN Tasks -> Nat \cup {NoCount}]
    BY DEF LiveInit
  <2>3. units \in [Units -> UnitState] /\ causes \in [Units -> Failure \cup {NoFailure}]
    BY <1>3 DEF LiveInit
  <2> QED
    BY <1>1, <2>1, <2>2, <2>3 DEF LiveInit, CollectTypeOK
<1>5. PlaceInv
  BY DEF LiveInit, PlaceInv, PagedStages
<1>6. CallInv
  BY <1>1 DEF LiveInit, CallInv, PagedStages, Endings
<1> QED
  BY <1>4, <1>5, <1>6 DEF PlaceAndCall

\* The state of a collection is well formed, and each stage of a task reads what it is
\* about (engine.go:137-305, eimpolicy.go).
THEOREM PlaceAndCallHold == LiveSpec => []PlaceAndCall
<1>1. PlaceAndCall /\ [LiveNext]_liveVars => PlaceAndCall'
  <2> SUFFICES ASSUME PlaceAndCall, [LiveNext]_liveVars PROVE PlaceAndCall'
    OBVIOUS
  <2>1. CASE Inline
    BY <2>1, BeginInlinePlace, UsersReadPlace, GroupsReadPlace, OwnerReadPlace, ReadDocumentPlace,
       RefuseDocumentPlace DEF Inline
  <2> QED
    BY <2>1, BeginPlace, ReadPagePlace, RefusePlace, AnswerOtherwisePlace, ParentsReadPlace,
       ItemsReadPlace, RecordPlace, SkipPlace, StutterPlace DEF LiveNext, LiveDone
<1> QED
  BY <1>1, InitPlace, PTL DEF LiveSpec

\* The state of a collection is well formed, whatever the descriptor, the lists and the
\* failures.
THEOREM CollectTypesHold == LiveSpec => []CollectTypeOK
<1>1. PlaceAndCall => CollectTypeOK
  BY DEF PlaceAndCall
<1> QED
  BY <1>1, PlaceAndCallHold, PTL

----------------------------------------------------------------------------
(* The causes and the classes.                                              *)

\* Classify sends a failure to the right place.
LEMMA ClassIsTrue ==
    ASSUME NEW f \in Endings \ {NoFailure}
    PROVE  /\ Classify(f) = NoOutcome <=> f.kind = "http" /\ f.status < 400 /\ f.code = "none"
           /\ f.code \in {"outscale 4120", "outscale 1", "denied_authentication",
                          "InvalidAccessKeyId"} => Classify(f) = "unauthenticated"
           /\ f.code = "SlowDown" => Classify(f) = "rate_limited"
           /\ f.kind = "http" /\ f.status = 400 /\ f.code = "none" => Classify(f) = "rejected"
           /\ Classify(f) = "truncated" <=> f = Truncation
<1>1. CASE f \in [kind : {"http", "sdk"}, status : 0 .. 599, code : BodyCodes \cup SdkCodes \cup {"none"}]
  <2>1. /\ f.status \in 0 .. 599 /\ f.code \in BodyCodes \cup SdkCodes \cup {"none"}
        /\ f.kind \in {"http", "sdk"} /\ f # Truncation
    BY <1>1 DEF Truncation
  <2> DEFINE byCode == OutcomeForCode(f.code)
             byStatus == OutcomeForStatus(f.status)
  <2>2. Classify(f) = IF byCode # NoOutcome THEN byCode
                      ELSE IF f.kind = "http" \/ byStatus # NoOutcome THEN byStatus ELSE "unavailable"
    BY <2>1 DEF Classify
  <2>3. /\ byCode \in {"unauthenticated", "permission_denied", "rate_limited", NoOutcome}
        /\ byCode = NoOutcome <=> f.code = "none"
        /\ f.code \in {"outscale 4120", "outscale 1", "denied_authentication", "InvalidAccessKeyId"} =>
                 byCode = "unauthenticated"
        /\ f.code = "SlowDown" => byCode = "rate_limited"
    BY <2>1, CodeTypes
  <2>4. /\ byStatus # "truncated"
        /\ byStatus = NoOutcome <=> f.status < 400
        /\ f.status = 400 => byStatus = "rejected"
    BY <2>1, StatusTypes DEF Outcome, NoOutcome
  <2> HIDE DEF byCode, byStatus
  <2>5. Classify(f) = NoOutcome <=> f.kind = "http" /\ f.status < 400 /\ f.code = "none"
    BY <2>1, <2>2, <2>3, <2>4 DEF NoOutcome
  <2>6. /\ f.code # "none" => Classify(f) = byCode
        /\ f.code = "none" /\ f.kind = "http" => Classify(f) = byStatus
    BY <2>2, <2>3
  <2>7. Classify(f) # "truncated"
    BY <2>2, <2>3, <2>4 DEF NoOutcome
  <2> QED
    BY <2>1, <2>3, <2>4, <2>5, <2>6, <2>7
<1>2. CASE f \in [kind : {"timeout", "json", "transport"}, status : {0}, code : {"none"}]
  <2>1. f.kind \in {"timeout", "json", "transport"} /\ f.code = "none" /\ f.kind # Truncation.kind
    BY <1>2 DEF Truncation
  <2>2. Classify(f) \in {"timeout", "unreadable", "unavailable"}
    BY <2>1 DEF Classify
  <2> QED
    BY <2>1, <2>2 DEF NoOutcome
<1>3. CASE f \in {Truncation, Unreadable}
  <2>1. Truncation.kind = "truncated" /\ Unreadable.kind = "unreadable" /\ f.code = "none" /\ Truncation # Unreadable
    BY <1>3 DEF Truncation, Unreadable
  <2>2. Classify(f) = f.kind
    BY <1>3, <2>1 DEF Classify
  <2> QED
    BY <1>3, <2>1, <2>2 DEF NoOutcome
<1> QED
  BY <1>1, <1>2, <1>3 DEF Endings, Refusal

\* Record keeps the causes of what was refused.
LEMMA RecordCause == ASSUME PlaceAndCall, CauseInv, Record PROVE CauseInv'
<1> DEFINE unit == Tasks[task].unit
<1>1. /\ failure \in Endings /\ units \in [Units -> UnitState] /\ unit \in Units
      /\ causes \in [Units -> Failure \cup {NoFailure}]
  BY DEF PlaceAndCall, CollectTypeOK, PlaceInv, CallInv, Record, Units
<1>2. /\ units' = [units EXCEPT ![unit] = Merge(units[unit], Ending)]
      /\ causes' = IF units[unit].state = "incomplete" THEN causes ELSE [causes EXCEPT ![unit] = failure]
  BY DEF Record
<1>3. Ending \in UnitState /\ Ending.state # "untried" /\ units[unit] \in UnitState
  BY <1>1, EndingState
<1>4. Ending.state = "incomplete" => failure # NoFailure /\ Ending.error = Classify(failure)
  BY <1>1, EndingState
<1>5. Merge(units[unit], Ending) =
        IF units[unit].state = "incomplete" \/ (units[unit].state = "complete" /\ Ending.state = "complete")
        THEN units[unit] ELSE Ending
  BY <1>3, MergeIsPessimistic
<1>6. ASSUME NEW u \in Units, units'[u].state = "incomplete"
      PROVE  causes'[u] \in Endings \ {NoFailure} /\ units'[u].error = Classify(causes'[u])
  <2>1. CASE u # unit
    <3>1. units'[u] = units[u] /\ causes'[u] = causes[u]
      BY <1>1, <1>2, <2>1
    <3> QED
      BY <1>6, <3>1 DEF CauseInv
  <2>2. CASE u = unit /\ units[unit].state = "incomplete"
    <3>1. units'[u] = units[u] /\ causes'[u] = causes[u]
      BY <1>1, <1>2, <1>5, <2>2
    <3> QED
      BY <1>6, <3>1 DEF CauseInv
  <2>3. CASE u = unit /\ units[unit].state # "incomplete"
    <3>1. units'[u] = Merge(units[unit], Ending) /\ causes'[u] = failure
      BY <1>1, <1>2, <2>3
    <3>2. units'[u] = Ending
      BY <1>5, <1>6, <2>3, <3>1
    <3> QED
      BY <1>1, <1>4, <1>6, <3>1, <3>2
  <2> QED
    BY <2>1, <2>2, <2>3
<1> QED
  BY <1>6 DEF CauseInv

\* What does not record leaves the results as they are.
LEMMA OnlyRecordRecords ==
    ASSUME [LiveNext]_liveVars, ~Record
    PROVE  UNCHANGED <<records, causes, environment>> /\ (task' = task \/ Skip)
<1> USE DEF environment, records, history, working
<1>1. CASE Inline
  BY <1>1 DEF Inline, BeginInline, Starting, UsersRead, GroupsRead, OwnerRead, ReadDocument, RefuseDocument,
              InlineWorking
<1>2. CASE Begin
  BY <1>2 DEF Begin, Starting
<1>3. CASE ReadPage \/ Refuse \/ AnswerOtherwise
  BY <1>3 DEF ReadPage, Refuse, AnswerOtherwise, AfterCall
<1>4. CASE ParentsRead \/ ItemsRead
  BY <1>4 DEF ParentsRead, ItemsRead
<1>5. CASE Skip
  BY <1>5 DEF Skip
<1>6. CASE UNCHANGED liveVars
  BY <1>6 DEF liveVars
<1> QED
  BY <1>1, <1>2, <1>3, <1>4, <1>5, <1>6 DEF LiveNext, LiveDone

\* The cause of an incomplete unit is its first failure, and its error the class of it.
THEOREM CausesHold == LiveSpec => []CauseInv
<1>1. LiveInit => CauseInv
  BY DEF LiveInit, CauseInv, Untried
<1>2. PlaceAndCall /\ CauseInv /\ [LiveNext]_liveVars => CauseInv'
  <2>1. CASE Record
    BY <2>1, RecordCause
  <2>2. CASE ~Record
    BY <2>2, OnlyRecordRecords DEF CauseInv, records
  <2> QED
    BY <2>1, <2>2
<1> QED
  BY <1>1, <1>2, PlaceAndCallHold, PTL DEF LiveSpec

\* The class of an incomplete unit sends the reader to the right place: a key the provider
\* does not know is never a missing right, a throttled call never an outage, a malformed
\* request neither, a truncation never anything else (status.go:76-208, collection.go:147-211).
THEOREM ErrorsAreTrue == LiveSpec => []ErrorIsTrue
<1>1. CauseInv => ErrorIsTrue
  <2> SUFFICES ASSUME CauseInv, NEW u \in Units, units[u].state = "incomplete",
                      NEW f, f = causes[u]
               PROVE  /\ units[u].error = NoOutcome <=> f.kind = "http" /\ f.status < 400 /\ f.code = "none"
                      /\ f.code \in {"outscale 4120", "outscale 1", "denied_authentication",
                                     "InvalidAccessKeyId"} => units[u].error = "unauthenticated"
                      /\ f.code = "SlowDown" => units[u].error = "rate_limited"
                      /\ f.kind = "http" /\ f.status = 400 /\ f.code = "none" => units[u].error = "rejected"
                      /\ units[u].error = "truncated" <=> f = Truncation
    BY DEF ErrorIsTrue
  <2>1. f \in Endings \ {NoFailure}
    BY DEF CauseInv
  <2>2. units[u].error = Classify(f)
    BY DEF CauseInv
  <2>3. /\ Classify(f) = NoOutcome <=> f.kind = "http" /\ f.status < 400 /\ f.code = "none"
        /\ f.code \in {"outscale 4120", "outscale 1", "denied_authentication",
                       "InvalidAccessKeyId"} => Classify(f) = "unauthenticated"
        /\ f.code = "SlowDown" => Classify(f) = "rate_limited"
        /\ f.kind = "http" /\ f.status = 400 /\ f.code = "none" => Classify(f) = "rejected"
        /\ Classify(f) = "truncated" <=> f = Truncation
    BY <2>1, ClassIsTrue
  <2> QED
    BY <2>2, <2>3, Zenon
<1> QED
  BY <1>1, CausesHold, PTL

----------------------------------------------------------------------------
(* What is kept.                                                            *)

\* Nothing was read of no page.
LEMMA NoPairs == ASSUME NEW o PROVE Pairs(o, <<>>) = {}
BY DEF Pairs

\* Begin keeps what was read.
LEMMA BeginKept == ASSUME KeptInv, Begin \/ BeginInline PROVE KeptInv'
<1>1. /\ mapped' = {} /\ delivered' = {} /\ stage' \in {"parents", "items", "users"}
      /\ stage' = "items" => call'.got = <<>>
  BY DEF Begin, BeginInline, Starting, Calling
<1> QED
  BY <1>1, NoPairs DEF KeptInv, KeptWhatWasRead

\* A page, or its refusal, keeps what was read.
LEMMA PagingKept ==
    ASSUME PlaceAndCall, KeptInv, ReadPage \/ Refuse \/ AnswerOtherwise
    PROVE  KeptInv'
<1> USE DEF AfterCall, environment
<1>1. UNCHANGED <<listing, task, stage, known, child, mapped, failure>> /\ Paging
  BY DEF ReadPage, Refuse, AnswerOtherwise
<1>2. CASE UNCHANGED delivered /\ call'.got = call.got
  BY <1>1, <1>2 DEF KeptInv, KeptWhatWasRead, OfUser
<1>3. CASE ReadPage
  <2>1. PICK a \in Answers : call' = AfterPage(a) /\ Deliver(a.size)
    BY <1>3 DEF ReadPage
  <2>2. call \in Call /\ CallOK(call) /\ ~call.ended /\ call.failure \in Endings
    BY <1>1 DEF PlaceAndCall, CollectTypeOK, CallInv, Paging
  <2>3. call'.got = Got(a.size)
    BY <2>1, <2>2, AfterPageIsOK
  <2>4. Pairs(known[child], call'.got) = Pairs(known[child], call.got) \cup Pairs(known[child], Batch(a.size))
    BY <2>2, <2>3, PairsAfterPage
  <2>5. delivered' = IF GivesItems THEN delivered \cup Pairs(known[child], Batch(a.size)) ELSE delivered
    BY <2>1 DEF Deliver
  <2>6. stage # "record" /\ stage # "documents"
    BY <1>1 DEF Paging, PagedStages
  <2>7. CASE stage \in {"parents", "users", "groups"}
    BY <1>1, <2>5, <2>6, <2>7 DEF KeptInv, KeptWhatWasRead, GivesItems
  <2>8. CASE stage = "items"
    BY <1>1, <2>4, <2>5, <2>6, <2>8 DEF KeptInv, KeptWhatWasRead, GivesItems
  <2>9. CASE stage = "owner"
    <3>1. Tasks[task].kind = "inline" /\ task \in DOMAIN Tasks
      BY <2>9 DEF PlaceAndCall, PlaceInv
    <3>2. ~Tasks[task].aggregate
      BY <3>1, AggregateAssumption
    <3>3. OfUser' = OfUser
      BY <1>1 DEF OfUser
    <3> QED
      BY <1>1, <2>4, <2>5, <2>6, <2>9, <3>2, <3>3 DEF KeptInv, KeptWhatWasRead, GivesItems
  <2> QED
    BY <1>1, <2>7, <2>8, <2>9 DEF Paging, PagedStages
<1>4. CASE Refuse \/ AnswerOtherwise
  <2>1. call \in Call
    BY DEF PlaceAndCall, CollectTypeOK
  <2>2. UNCHANGED delivered /\ call'.got = call.got
    BY <1>4, <2>1 DEF Refuse, AnswerOtherwise, Call
  <2> QED
    BY <1>2, <2>2
<1> QED
  BY <1>3, <1>4

\* ParentsRead keeps what was read.
LEMMA ParentsReadKept == ASSUME KeptInv, ParentsRead PROVE KeptInv'
<1>1. /\ mapped' = {} /\ delivered' = {} /\ stage' \in {"record", "items"}
      /\ stage' = "items" => call'.got = <<>>
  BY DEF KeptInv, ParentsRead, history, ItemsOf, Calling
<1> QED
  BY <1>1, NoPairs DEF KeptInv, KeptWhatWasRead

\* ItemsRead keeps what was read.
LEMMA ItemsReadKept == ASSUME KeptInv, ItemsRead PROVE KeptInv'
<1>1. /\ task' = task
      /\ ~Tasks[task].aggregate => mapped' = delivered'
      /\ stage' \in {"record", "items"}
      /\ stage' = "items" => call'.got = <<>>
  BY DEF KeptInv, ItemsRead, Mapped, history, ItemsOf, Calling
<1> QED
  BY <1>1, NoPairs DEF KeptInv, KeptWhatWasRead

\* A chain that gives up is an inline one that failed, and keeps nothing.
LEMMA GiveUpKept ==
    ASSUME PlaceAndCall, stage \in {"users", "groups", "owner", "documents"}, task' = task,
           NEW f, f # NoFailure, GiveUp(f)
    PROVE  KeptInv'
BY DEF PlaceAndCall, PlaceInv, GiveUp, KeptInv, KeptWhatWasRead

\* UsersRead keeps what was read.
LEMMA UsersReadKept == ASSUME PlaceAndCall, KeptInv, UsersRead PROVE KeptInv'
<1>1. CASE call.failure # NoFailure /\ GiveUp(call.failure)
  BY <1>1, GiveUpKept DEF UsersRead, InlineWorking
<1>2. CASE stage' = "groups" /\ UNCHANGED mapped
  <2>1. mapped' = {} /\ delivered' = {}
    BY <1>2 DEF KeptInv, UsersRead
  <2> QED
    BY <1>2, <2>1 DEF KeptInv, KeptWhatWasRead
<1> QED
  BY <1>1, <1>2 DEF UsersRead

\* GroupsRead keeps what was read.
LEMMA GroupsReadKept == ASSUME PlaceAndCall, KeptInv, GroupsRead PROVE KeptInv'
<1>1. CASE call.failure # NoFailure /\ GiveUp(call.failure)
  BY <1>1, GiveUpKept DEF GroupsRead, InlineWorking
<1>2. CASE /\ UNCHANGED mapped
           /\ stage' = "record" \/ (stage' = "owner" /\ call'.got = <<>>)
  <2>1. mapped' = {} /\ delivered' = {}
    BY <1>2 DEF KeptInv, GroupsRead
  <2> QED
    BY <1>2, <2>1, NoPairs DEF KeptInv, KeptWhatWasRead
<1> QED
  BY <1>1, <1>2 DEF GroupsRead, PoliciesOf, Calling

\* The next owner has given nothing yet.
LEMMA NextOwnerKept ==
    ASSUME stage \in {"owner", "documents"}, NextOwner, mapped' = delivered'
    PROVE  KeptInv'
<1>1. stage' = "record" \/ (stage' = "owner" /\ call'.got = <<>>)
  BY DEF NextOwner, PoliciesOf, Calling
<1> QED
  BY <1>1, NoPairs DEF KeptInv, KeptWhatWasRead

\* OwnerRead keeps what was read.
LEMMA OwnerReadKept == ASSUME PlaceAndCall, KeptInv, OwnerRead PROVE KeptInv'
<1>1. stage = "owner" /\ UNCHANGED <<delivered, task>>
  BY DEF OwnerRead, InlineWorking
<1>2. CASE call.failure # NoFailure /\ GiveUp(call.failure)
  BY <1>1, <1>2, GiveUpKept
<1>3. CASE OfUser /\ stage' = "documents" /\ UNCHANGED mapped
  BY <1>1, <1>3 DEF KeptInv, KeptWhatWasRead
<1>4. CASE ~(OfUser /\ call.got # <<>>) /\ mapped' = mapped \cup Pairs(known[child], call.got) /\ NextOwner
  <2>1. mapped' = delivered'
    BY <1>1, <1>4, NoPairs DEF KeptInv
  <2> QED
    BY <1>1, <1>4, <2>1, NextOwnerKept
<1> QED
  BY <1>2, <1>3, <1>4 DEF OwnerRead

\* ReadDocument keeps what was read.
LEMMA ReadDocumentKept == ASSUME KeptInv, ReadDocument PROVE KeptInv'
<1>1. stage = "documents" /\ mapped' = delivered'
  BY DEF KeptInv, ReadDocument
<1>2. CASE stage' = "documents"
  BY <1>1, <1>2 DEF KeptInv, KeptWhatWasRead
<1>3. CASE NextOwner
  BY <1>1, <1>3, NextOwnerKept
<1> QED
  BY <1>1, <1>2, <1>3 DEF ReadDocument

\* RefuseDocument keeps what was read.
LEMMA RefuseDocumentKept == ASSUME PlaceAndCall, RefuseDocument PROVE KeptInv'
<1>1. PICK f \in Refusals[task] : GiveUp(f)
  BY DEF RefuseDocument
<1>2. task \in DOMAIN Tasks /\ stage = "documents" /\ task' = task
  BY DEF PlaceAndCall, PlaceInv, RefuseDocument, InlineWorking
<1>3. f # NoFailure
  BY <1>1, <1>2, CollectAssumption, EndingTypes
<1> QED
  BY <1>1, <1>2, <1>3, GiveUpKept

\* What was delivered is kept: mapped now, or by the call that is running.
THEOREM KeptHolds == LiveSpec => []KeptInv
<1>1. LiveInit => KeptInv
  BY DEF LiveInit, KeptInv, KeptWhatWasRead
<1>2. PlaceAndCall /\ KeptInv /\ [LiveNext]_liveVars => KeptInv'
  <2> SUFFICES ASSUME PlaceAndCall, KeptInv, [LiveNext]_liveVars PROVE KeptInv'
    OBVIOUS
  <2>1. CASE Inline
    BY <2>1, BeginKept, UsersReadKept, GroupsReadKept, OwnerReadKept, ReadDocumentKept,
       RefuseDocumentKept DEF Inline
  <2>2. CASE Record \/ Skip
    <3>1. stage' = "begin"
      BY <2>2 DEF Record, Skip
    <3> QED
      BY <3>1 DEF KeptInv, KeptWhatWasRead
  <2>3. CASE UNCHANGED liveVars
    BY <2>3 DEF KeptInv, KeptWhatWasRead, OfUser, liveVars, environment, working, records, history
  <2> QED
    BY <2>1, <2>2, <2>3, BeginKept, PagingKept, ParentsReadKept, ItemsReadKept DEF LiveNext, LiveDone
<1> QED
  BY <1>1, <1>2, PlaceAndCallHold, PTL DEF LiveSpec

\* "Ce qui a ete lu est garde": what an API gave before it failed is in the inventory, and
\* nothing is there that no API gave; the inline chain keeps all or nothing
\* (engine.go:137-305, eimpolicy.go).
THEOREM WhatWasReadIsKept == LiveSpec => []KeptWhatWasRead
<1>1. KeptInv => KeptWhatWasRead
  BY DEF KeptInv
<1> QED
  BY <1>1, KeptHolds, PTL

----------------------------------------------------------------------------
(* What is whole.                                                           *)

OwnersAndWhole == OwnersInv /\ WholeInv

\* The owners of a task that is under way.
LEMMA OwnersOfTask ==
    ASSUME task \in DOMAIN Tasks
    PROVE  /\ Tasks[task].kind = "listed" => Owners(task) = <<Root>>
           /\ Tasks[task].kind = "joined" => Owners(task) = listing[task].parents
           /\ Tasks[task].kind = "inline" => Owners(task) = listing[task].groups \o listing[task].parents
BY DEF Owners

\* What all the owners have is the whole.
LEMMA OwnersMakeTheWhole ==
    ASSUME NEW S, NEW s \in Seq(Items \cup {Root}), Owners(task) = s,
           \A c \in 1 .. Len(s) : Pairs(s[c], listing[task].of[s[c]]) \subseteq S
    PROVE  Whole(task) \subseteq S
<1>1. \A o \in Range(Owners(task)) : Pairs(o, listing[task].of[o]) \subseteq S
  BY DEF Range
<1> QED
  BY <1>1 DEF Whole

\* What the call of an owner has got is in the whole; a call that ended well got all.
LEMMA GotOfOwner ==
    ASSUME PlaceAndCall, OwnersInv, stage \in {"items", "owner", "documents"}
    PROVE  /\ Pairs(known[child], call.got) \subseteq Whole(task)
           /\ call.ended /\ call.failure = NoFailure /\ task \notin Strangers =>
                 call.got = listing[task].of[known[child]]
<1>1. /\ CallOK(call) /\ call.list = listing[task].of[known[child]]
      /\ child \in DOMAIN known /\ Range(known) \subseteq Range(Owners(task))
  BY DEF PlaceAndCall, CallInv, PlaceInv, OwnersInv, PagedStages
<1>2. known[child] \in Range(Owners(task))
  BY <1>1 DEF Range
<1>3. Pairs(known[child], call.got) \subseteq Pairs(known[child], call.list)
  BY <1>1 DEF CallOK, Pairs
<1>4. Pairs(known[child], call.list) \subseteq Whole(task)
  BY <1>1, <1>2 DEF Whole
<1> QED
  BY <1>1, <1>3, <1>4 DEF CallOK

\* Begin keeps the owners and what a task has whole.
LEMMA BeginWhole == ASSUME PlaceAndCall, Begin \/ BeginInline PROVE OwnersAndWhole'
<1> USE DEF Starting, environment
<1>1. /\ mapped' = {} /\ child' = 1 /\ late' = NoFailure /\ UNCHANGED <<task, listing>>
      /\ task \in DOMAIN Tasks
      /\ stage' \in {"parents", "users"} \/ (stage' = "items" /\ known' = <<Root>> /\ Tasks[task].kind = "listed")
  BY TaskTypes DEF Begin, BeginInline, Task
<1>2. Tasks[task].kind = "listed" => Owners(task) = <<Root>>
  BY <1>1, OwnersOfTask
<1>3. Owners(task)' = Owners(task)
  BY <1>1 DEF Owners
<1>4. OwnersInv'
  BY <1>1, <1>2, <1>3 DEF OwnersInv
<1>5. WholeInv'
  BY <1>1 DEF WholeInv
<1> QED
  BY <1>4, <1>5 DEF OwnersAndWhole

\* The owners and the whole do not depend on the call.
LEMMA SameOwnersAndWhole ==
    ASSUME OwnersAndWhole, UNCHANGED <<listing, task, stage, known, child, document, late, mapped, failure>>,
           UNCHANGED call \/ stage \in PagedStages
    PROVE  OwnersAndWhole'
<1>1. Owners(task)' = Owners(task) /\ Whole(task)' = Whole(task) /\ Number(task)' = Number(task)
  BY DEF Owners, Whole, Number
<1>2. OwnersInv'
  BY <1>1 DEF OwnersAndWhole, OwnersInv
<1>3. WholeInv'
  BY <1>1 DEF OwnersAndWhole, WholeInv, PagedStages
<1> QED
  BY <1>2, <1>3 DEF OwnersAndWhole

\* A page, or its refusal, keeps the owners and what a task has whole.
LEMMA PagingWhole ==
    ASSUME OwnersAndWhole, ReadPage \/ Refuse \/ AnswerOtherwise
    PROVE  OwnersAndWhole'
BY SameOwnersAndWhole DEF ReadPage, Refuse, AnswerOtherwise, AfterCall, environment, Paging

\* ParentsRead keeps the owners and what a task has whole.
LEMMA ParentsReadWhole == ASSUME PlaceAndCall, OwnersAndWhole, ParentsRead PROVE OwnersAndWhole'
<1> USE DEF environment
<1>1. /\ stage = "parents" /\ task \in DOMAIN Tasks /\ Tasks[task].kind = "joined" /\ child = 1
      /\ ~Tasks[task].aggregate /\ mapped = {} /\ mapped' = {} /\ child' = 1
      /\ UNCHANGED <<task, listing>>
      /\ known' = call.got /\ late' = call.failure /\ call.ended
      /\ CallOK(call) /\ call.list = listing[task].parents
      /\ call.got \in Seq(Items)
  BY AggregateAssumption
     DEF PlaceAndCall, CollectTypeOK, PlaceInv, CallInv, OwnersAndWhole, WholeInv, ParentsRead, PagedStages, Call
<1>2. Owners(task) = listing[task].parents /\ Owners(task)' = Owners(task)
  BY <1>1, OwnersOfTask DEF Owners
<1>3. /\ Range(call.got) \subseteq Range(listing[task].parents)
      /\ call.failure = NoFailure /\ task \notin Strangers => call.got = listing[task].parents
  BY <1>1 DEF CallOK, Range
<1>4. CASE stage' = "items"
  <2>1. OwnersInv'
    BY <1>1, <1>2, <1>3, <1>4 DEF OwnersInv
  <2>2. WholeInv'
    BY <1>1, <1>4 DEF WholeInv
  <2> QED
    BY <2>1, <2>2 DEF OwnersAndWhole
<1>5. CASE stage' = "record" /\ call.got = <<>> /\ failure' = call.failure
  <2>1. OwnersInv'
    BY <1>5 DEF OwnersInv
  <2>2. failure' = NoFailure /\ task \notin Strangers => Whole(task)' = {}
    <3>1. failure' = NoFailure /\ task \notin Strangers => Owners(task)' = <<>>
      BY <1>1, <1>2, <1>3, <1>5
    <3> QED
      BY <3>1 DEF Whole, Range
  <2>3. WholeInv'
    BY <1>1, <1>5, <2>2 DEF WholeInv
  <2> QED
    BY <2>1, <2>3 DEF OwnersAndWhole
<1> QED
  BY <1>4, <1>5 DEF ParentsRead

\* One owner is done: its pairs are mapped, and the next one comes, or the task ends.
LEMMA OwnerDone ==
    ASSUME PlaceAndCall, OwnersAndWhole, stage \in {"items", "owner", "documents"},
           UNCHANGED <<task, listing, known, late>>,
           mapped \subseteq mapped', mapped' \subseteq Whole(task),
           call.ended, call.failure = NoFailure,
           Pairs(known[child], call.got) \subseteq mapped',
           \/ /\ stage' = "record" /\ child = Len(known) /\ failure' = (IF stage = "items" THEN late ELSE failure)
              /\ UNCHANGED call
           \/ /\ child' = child + 1 /\ stage' = IF stage = "items" THEN "items" ELSE "owner"
    PROVE  OwnersAndWhole'
<1>1. /\ Owners(task)' = Owners(task) /\ Whole(task)' = Whole(task) /\ Number(task)' = Number(task)
      /\ task \in DOMAIN Tasks /\ known \in Seq(Items \cup {Root}) /\ child \in 1 .. Len(known) /\ Len(known) \in Nat
  BY MappedPairs DEF PlaceAndCall, CollectTypeOK, PlaceInv, Owners, Whole, Number
<1>2. task \notin Strangers =>
         /\ call.got = listing[task].of[known[child]]
         /\ \A c \in 1 .. child : Pairs(known[c], listing[task].of[known[c]]) \subseteq mapped'
  <2> SUFFICES ASSUME task \notin Strangers
               PROVE  /\ call.got = listing[task].of[known[child]]
                      /\ \A c \in 1 .. child : Pairs(known[c], listing[task].of[known[c]]) \subseteq mapped'
    OBVIOUS
  <2>1. call.got = listing[task].of[known[child]]
    BY GotOfOwner DEF OwnersAndWhole
  <2>2. \A c \in 1 .. child - 1 : Pairs(known[c], listing[task].of[known[c]]) \subseteq mapped
    BY DEF OwnersAndWhole, WholeInv
  <2>3. \A c \in 1 .. child : c = child \/ c \in 1 .. child - 1
    BY <1>1
  <2> QED
    BY <2>1, <2>2, <2>3
<1>3. CASE /\ stage' = "record" /\ child = Len(known) /\ failure' = (IF stage = "items" THEN late ELSE failure)
           /\ UNCHANGED call
  <2>1. OwnersInv'
    BY <1>3 DEF OwnersInv
  <2>2. ASSUME failure' = NoFailure, task \notin Strangers
        PROVE  /\ mapped' = Whole(task)
               /\ Tasks[task].aggregate => Len(call.got) = Number(task)
    <3>1. known = Owners(task)
      BY <1>3, <2>2 DEF OwnersAndWhole, OwnersInv
    <3>2. Whole(task) \subseteq mapped'
      BY <1>1, <1>2, <1>3, <2>2, <3>1, OwnersMakeTheWhole
    <3>3. ASSUME Tasks[task].aggregate PROVE Len(call.got) = Number(task)
      <4>1. known = <<Root>>
        BY <1>1, <3>1, <3>3, AggregateAssumption, OwnersOfTask
      <4>2. known[child] = Root
        BY <1>1, <4>1
      <4> QED
        BY <1>2, <2>2, <4>2 DEF Number
    <3> QED
      BY <3>2, <3>3
  <2>3. WholeInv'
    BY <1>1, <1>3, <2>2 DEF WholeInv
  <2> QED
    BY <2>1, <2>3 DEF OwnersAndWhole
<1>4. CASE child' = child + 1 /\ stage' = IF stage = "items" THEN "items" ELSE "owner"
  <2>1. OwnersInv'
    BY <1>1, <1>4 DEF OwnersAndWhole, OwnersInv
  <2>2. child' - 1 = child
    BY <1>1, <1>4
  <2>3. WholeInv'
    BY <1>1, <1>2, <1>4, <2>2 DEF WholeInv
  <2> QED
    BY <2>1, <2>3 DEF OwnersAndWhole
<1> QED
  BY <1>3, <1>4

\* ItemsRead keeps the owners and what a task has whole.
LEMMA ItemsReadWhole == ASSUME PlaceAndCall, OwnersAndWhole, ItemsRead PROVE OwnersAndWhole'
<1> USE DEF environment
<1>1. /\ stage = "items" /\ call.ended /\ UNCHANGED <<task, listing, known, late>>
      /\ mapped' = mapped \cup Pairs(known[child], call.got) /\ mapped \subseteq Whole(task)
  BY DEF ItemsRead, Mapped, OwnersAndWhole, WholeInv
<1>2. mapped' \subseteq Whole(task)
  BY <1>1, GotOfOwner DEF OwnersAndWhole
<1>3. CASE call.failure # NoFailure /\ stage' = "record" /\ failure' = call.failure
  <2>1. OwnersInv'
    BY <1>3 DEF OwnersInv
  <2>2. Whole(task)' = Whole(task)
    BY <1>1 DEF Whole, Owners
  <2>3. WholeInv'
    BY <1>1, <1>2, <1>3, <2>2 DEF WholeInv
  <2> QED
    BY <2>1, <2>3 DEF OwnersAndWhole
<1>4. CASE call.failure = NoFailure
  BY <1>1, <1>2, <1>4, OwnerDone DEF ItemsRead
<1> QED
  BY <1>3, <1>4 DEF ItemsRead

\* A chain that gives up keeps nothing, and has failed.
LEMMA GiveUpWhole ==
    ASSUME NEW f, f # NoFailure, GiveUp(f)
    PROVE  OwnersAndWhole'
BY DEF GiveUp, OwnersAndWhole, OwnersInv, WholeInv

\* UsersRead keeps the owners and what a task has whole.
LEMMA UsersReadWhole == ASSUME PlaceAndCall, OwnersAndWhole, UsersRead PROVE OwnersAndWhole'
<1> USE DEF environment, InlineWorking
<1>1. CASE call.failure # NoFailure /\ GiveUp(call.failure)
  BY <1>1, GiveUpWhole
<1>2. CASE call.failure = NoFailure /\ stage' = "groups" /\ known' = call.got /\ UNCHANGED mapped
  <2>1. /\ UNCHANGED <<task, listing>> /\ mapped = {} /\ call.ended
        /\ CallOK(call) /\ call.list = listing[task].parents
    BY DEF PlaceAndCall, CallInv, OwnersAndWhole, WholeInv, UsersRead, PagedStages
  <2>2. /\ Range(call.got) \subseteq Range(listing[task].parents)
        /\ task \notin Strangers => call.got = listing[task].parents
    BY <1>2, <2>1 DEF CallOK, Range
  <2>3. OwnersInv'
    BY <1>2, <2>1, <2>2 DEF OwnersInv
  <2>4. WholeInv'
    BY <1>2, <2>1 DEF WholeInv
  <2> QED
    BY <2>3, <2>4 DEF OwnersAndWhole
<1> QED
  BY <1>1, <1>2 DEF UsersRead

\* What is in two sequences put end to end.
LEMMA RangeOfConcatenation ==
    ASSUME NEW S, NEW s \in Seq(S), NEW t \in Seq(S)
    PROVE  Range(s \o t) = Range(s) \cup Range(t)
<1>1. /\ s \o t \in Seq(S) /\ Len(s \o t) = Len(s) + Len(t)
      /\ \A i \in 1 .. Len(s) : (s \o t)[i] = s[i]
      /\ \A i \in 1 .. Len(t) : (s \o t)[Len(s) + i] = t[i]
  BY Concatenation
<1>2. Len(s) \in Nat /\ Len(t) \in Nat /\ DOMAIN s = 1 .. Len(s) /\ DOMAIN t = 1 .. Len(t)
  OBVIOUS
<1>3. DOMAIN (s \o t) = 1 .. Len(s) + Len(t)
  BY <1>1
<1>4. ASSUME NEW i \in DOMAIN (s \o t)
      PROVE  (\E j \in DOMAIN s : (s \o t)[i] = s[j]) \/ (\E j \in DOMAIN t : (s \o t)[i] = t[j])
  <2>1. CASE i <= Len(s)
    BY <1>1, <1>2, <1>3, <2>1
  <2>2. CASE i > Len(s)
    <3>1. i - Len(s) \in 1 .. Len(t) /\ Len(s) + (i - Len(s)) = i
      BY <1>2, <1>3, <2>2
    <3> QED
      BY <1>1, <1>2, <3>1
  <2> QED
    BY <1>2, <1>3, <2>1, <2>2
<1>5. /\ \A i \in DOMAIN s : i \in DOMAIN (s \o t) /\ (s \o t)[i] = s[i]
      /\ \A i \in DOMAIN t : Len(s) + i \in DOMAIN (s \o t) /\ (s \o t)[Len(s) + i] = t[i]
  BY <1>1, <1>2, <1>3
<1> DEFINE u == s \o t
<1>6. /\ \A i \in DOMAIN u : (\E j \in DOMAIN s : u[i] = s[j]) \/ (\E j \in DOMAIN t : u[i] = t[j])
      /\ \A i \in DOMAIN s : \E j \in DOMAIN u : u[j] = s[i]
      /\ \A i \in DOMAIN t : \E j \in DOMAIN u : u[j] = t[i]
  BY <1>4, <1>5, Zenon
<1> HIDE DEF u
<1>7. Range(u) = Range(s) \cup Range(t)
  BY <1>6 DEF Range
<1> QED
  BY <1>7 DEF u

\* GroupsRead keeps the owners and what a task has whole.
LEMMA GroupsReadWhole == ASSUME PlaceAndCall, OwnersAndWhole, GroupsRead PROVE OwnersAndWhole'
<1> USE DEF environment, InlineWorking
<1>1. CASE call.failure # NoFailure /\ GiveUp(call.failure)
  BY <1>1, GiveUpWhole
<1>2. CASE /\ call.failure = NoFailure /\ known' = call.got \o known
           /\ IF known' = <<>> THEN stage' = "record" ELSE stage' = "owner"
           /\ UNCHANGED <<child, mapped, failure>>
  <2>1. /\ stage = "groups" /\ UNCHANGED <<task, listing>> /\ mapped = {} /\ call.ended /\ child = 1
        /\ CallOK(call) /\ call.list = listing[task].groups
        /\ task \in DOMAIN Tasks /\ Tasks[task].kind = "inline" /\ ~Tasks[task].aggregate
        /\ Range(known) \subseteq Range(listing[task].parents)
        /\ task \notin Strangers => known = listing[task].parents
    BY AggregateAssumption
       DEF PlaceAndCall, PlaceInv, CallInv, OwnersAndWhole, OwnersInv, WholeInv, GroupsRead, PagedStages
  <2>2. /\ call.got \in Seq(Items \cup {Root}) /\ known \in Seq(Items \cup {Root})
        /\ listing[task].parents \in Seq(Items \cup {Root})
        /\ listing[task].groups \in Seq(Items \cup {Root})
    <3>1. /\ call.got \in Seq(Items) /\ known \in Seq(Items \cup {Root})
          /\ listing[task].parents \in Seq(Items) /\ listing[task].groups \in Seq(Items)
      BY <2>1, ListTypes DEF PlaceAndCall, CollectTypeOK, Call
    <3> QED
      BY <3>1
  <2>3. Owners(task) = listing[task].groups \o listing[task].parents /\ Owners(task)' = Owners(task)
    BY <2>1, OwnersOfTask DEF Owners
  <2>4. /\ Range(call.got) \subseteq Range(listing[task].groups)
        /\ task \notin Strangers => call.got = listing[task].groups
    BY <1>2, <2>1 DEF CallOK, Range
  <2>5. Range(known') \subseteq Range(Owners(task))
    <3>1. Range(call.got \o known) = Range(call.got) \cup Range(known)
      BY <2>2, RangeOfConcatenation
    <3>2. Range(listing[task].groups \o listing[task].parents)
            = Range(listing[task].groups) \cup Range(listing[task].parents)
      BY <2>2, RangeOfConcatenation
    <3> QED
      BY <1>2, <2>1, <2>3, <2>4, <3>1, <3>2
  <2>6. task \notin Strangers => known' = Owners(task)
    BY <1>2, <2>1, <2>3, <2>4
  <2>7. OwnersInv'
    BY <1>2, <2>1, <2>3, <2>5, <2>6 DEF OwnersInv
  <2>8. stage' = "record" /\ task \notin Strangers => Whole(task)' = {}
    <3>1. stage' = "record" /\ task \notin Strangers => Owners(task)' = <<>>
      BY <1>2, <2>3, <2>6
    <3> QED
      BY <3>1 DEF Whole, Range
  <2>9. WholeInv'
    BY <1>2, <2>1, <2>8 DEF WholeInv
  <2> QED
    BY <2>7, <2>9 DEF OwnersAndWhole
<1> QED
  BY <1>1, <1>2 DEF GroupsRead

\* In the inline chain the next owner, or the end, follows an owner that is done.
LEMMA NextOwnerWhole ==
    ASSUME PlaceAndCall, OwnersAndWhole, stage \in {"owner", "documents"}, NextOwner,
           UNCHANGED <<task, listing, known, late, failure>>,
           mapped \subseteq mapped', mapped' \subseteq Whole(task),
           call.ended, call.failure = NoFailure,
           Pairs(known[child], call.got) \subseteq mapped'
    PROVE  OwnersAndWhole'
<1>1. CASE child = Len(known)
  BY <1>1, OwnerDone DEF NextOwner
<1>2. CASE child # Len(known)
  <2>1. child' = child + 1 /\ stage' = "owner" /\ stage # "items"
    BY <1>2 DEF NextOwner
  <2> QED
    BY <2>1, OwnerDone
<1> QED
  BY <1>1, <1>2

\* OwnerRead keeps the owners and what a task has whole.
LEMMA OwnerReadWhole == ASSUME PlaceAndCall, OwnersAndWhole, OwnerRead PROVE OwnersAndWhole'
<1> USE DEF environment, InlineWorking
<1>1. CASE call.failure # NoFailure /\ GiveUp(call.failure)
  BY <1>1, GiveUpWhole
<1>2. CASE /\ call.failure = NoFailure /\ stage' = "documents"
           /\ UNCHANGED <<known, child, document, call, mapped, failure>>
  <2>1. stage = "owner" /\ document = 1 /\ UNCHANGED <<task, listing>> /\ 1 .. document' - 1 = {}
    BY <1>2 DEF PlaceAndCall, PlaceInv, OwnerRead, PagedStages
  <2>2. Owners(task)' = Owners(task) /\ Whole(task)' = Whole(task)
    BY <2>1 DEF Owners, Whole
  <2>3. OwnersInv'
    BY <1>2, <2>1, <2>2 DEF OwnersAndWhole, OwnersInv
  <2>4. WholeInv'
    BY <1>2, <2>1, <2>2 DEF OwnersAndWhole, WholeInv
  <2> QED
    BY <2>3, <2>4 DEF OwnersAndWhole
<1>3. CASE /\ call.failure = NoFailure
           /\ mapped' = mapped \cup Pairs(known[child], call.got) /\ NextOwner /\ UNCHANGED <<known, failure>>
  <2>1. /\ stage = "owner" /\ call.ended /\ UNCHANGED <<task, listing, late>> /\ mapped \subseteq Whole(task)
    BY DEF OwnerRead, OwnersAndWhole, WholeInv
  <2>2. mapped' \subseteq Whole(task)
    BY <1>3, <2>1, GotOfOwner DEF OwnersAndWhole
  <2> QED
    BY <1>3, <2>1, <2>2, NextOwnerWhole
<1> QED
  BY <1>1, <1>2, <1>3 DEF OwnerRead

\* ReadDocument keeps the owners and what a task has whole.
LEMMA ReadDocumentWhole == ASSUME PlaceAndCall, OwnersAndWhole, ReadDocument PROVE OwnersAndWhole'
<1> USE DEF environment, InlineWorking
<1>1. /\ stage = "documents" /\ UNCHANGED <<task, listing, known, late, failure>>
      /\ mapped' = mapped \cup {<<known[child], call.got[document]>>} /\ mapped \subseteq Whole(task)
      /\ call.ended /\ call.failure = NoFailure
      /\ call.got \in Seq(Items) /\ document \in 1 .. Len(call.got) /\ Len(call.got) \in Nat
      /\ \A d \in 1 .. document - 1 : <<known[child], call.got[d]>> \in mapped
  BY DEF PlaceAndCall, PlaceInv, CollectTypeOK, OwnersAndWhole, WholeInv, ReadDocument, Call
<1>2. mapped' \subseteq Whole(task)
  <2>1. <<known[child], call.got[document]>> \in Pairs(known[child], call.got)
    BY <1>1 DEF Pairs
  <2> QED
    BY <1>1, <2>1, GotOfOwner DEF OwnersAndWhole
<1>3. \A d \in 1 .. document : <<known[child], call.got[d]>> \in mapped'
  <2>1. \A d \in 1 .. document : d = document \/ d \in 1 .. document - 1
    BY <1>1
  <2> QED
    BY <1>1, <2>1
<1>4. CASE document < Len(call.got)
  <2>1. document' = document + 1 /\ document' - 1 = document /\ UNCHANGED <<stage, child, call>>
    BY <1>1, <1>4 DEF ReadDocument
  <2>2. Owners(task)' = Owners(task) /\ Whole(task)' = Whole(task)
    BY <1>1 DEF Owners, Whole
  <2>3. OwnersInv'
    BY <1>1, <2>1, <2>2 DEF OwnersAndWhole, OwnersInv
  <2>4. WholeInv'
    BY <1>1, <1>2, <1>3, <2>1, <2>2 DEF OwnersAndWhole, WholeInv
  <2> QED
    BY <2>3, <2>4 DEF OwnersAndWhole
<1>5. CASE ~(document < Len(call.got))
  <2>1. NextOwner
    BY <1>5 DEF ReadDocument
  <2>2. document = Len(call.got)
    BY <1>1, <1>5
  <2>3. Pairs(known[child], call.got) \subseteq mapped'
    BY <1>1, <1>3, <2>2 DEF Pairs
  <2> QED
    BY <1>1, <1>2, <2>1, <2>3, NextOwnerWhole
<1> QED
  BY <1>4, <1>5

\* RefuseDocument keeps the owners and what a task has whole.
LEMMA RefuseDocumentWhole == ASSUME PlaceAndCall, RefuseDocument PROVE OwnersAndWhole'
<1>1. PICK f \in Refusals[task] : GiveUp(f)
  BY DEF RefuseDocument
<1>2. task \in DOMAIN Tasks
  BY DEF PlaceAndCall, PlaceInv, RefuseDocument
<1>3. f # NoFailure
  BY <1>1, <1>2, CollectAssumption, EndingTypes
<1> QED
  BY <1>1, <1>3, GiveUpWhole

\* A task that ends without a failure has mapped all that its owners have.
THEOREM OwnersAndWholeHold == LiveSpec => []OwnersAndWhole
<1>1. LiveInit => OwnersAndWhole
  BY DEF LiveInit, OwnersAndWhole, OwnersInv, WholeInv
<1>2. PlaceAndCall /\ OwnersAndWhole /\ [LiveNext]_liveVars => OwnersAndWhole'
  <2> SUFFICES ASSUME PlaceAndCall, OwnersAndWhole, [LiveNext]_liveVars PROVE OwnersAndWhole'
    OBVIOUS
  <2>1. CASE Inline
    BY <2>1, BeginWhole, UsersReadWhole, GroupsReadWhole, OwnerReadWhole, ReadDocumentWhole,
       RefuseDocumentWhole DEF Inline
  <2>2. CASE Record \/ Skip
    <3>1. stage' = "begin"
      BY <2>2 DEF Record, Skip
    <3> QED
      BY <3>1 DEF OwnersAndWhole, OwnersInv, WholeInv
  <2>3. CASE UNCHANGED liveVars
    BY <2>3, SameOwnersAndWhole DEF liveVars, environment, working
  <2> QED
    BY <2>1, <2>2, <2>3, BeginWhole, PagingWhole, ParentsReadWhole, ItemsReadWhole DEF LiveNext, LiveDone
<1> QED
  BY <1>1, <1>2, PlaceAndCallHold, PTL DEF LiveSpec

----------------------------------------------------------------------------
(* What is recorded.                                                        *)

\* The end of a task, in the terms of the records.
LEMMA RecordResults ==
    ASSUME PlaceAndCall, Record
    PROVE  /\ task \in DOMAIN Tasks /\ Tasks[task].enabled /\ task' = task + 1 /\ task \in Nat
           /\ UNCHANGED <<listing, deaf>>
           /\ counts' = IF Tasks[task].aggregate
                        THEN [counts EXCEPT ![task] = IF failure = NoFailure THEN Len(call.got) ELSE NoCount]
                        ELSE counts
           /\ read' = IF Tasks[task].aggregate THEN read ELSE [read EXCEPT ![task] = mapped]
           /\ units' = [units EXCEPT ![Tasks[task].unit] =
                           IF units[Tasks[task].unit].state = "incomplete" THEN units[Tasks[task].unit]
                           ELSE IF failure = NoFailure THEN [state |-> "complete", error |-> NoOutcome]
                           ELSE [state |-> "incomplete", error |-> Classify(failure)]]
<1> DEFINE unit == Tasks[task].unit
<1>1. /\ task \in DOMAIN Tasks /\ Tasks[task].enabled /\ task' = task + 1 /\ task \in Nat
      /\ UNCHANGED <<listing, deaf>> /\ failure \in Endings
      /\ units \in [Units -> UnitState] /\ unit \in Units
  BY TaskTypes DEF PlaceAndCall, CollectTypeOK, PlaceInv, CallInv, Record, environment, Units
<1>2. /\ Ending \in UnitState /\ Ending.state # "untried" /\ units[unit] \in UnitState
      /\ Ending = IF failure = NoFailure THEN [state |-> "complete", error |-> NoOutcome]
                  ELSE [state |-> "incomplete", error |-> Classify(failure)]
  BY <1>1, EndingState
<1>3. Merge(units[unit], Ending) =
        IF units[unit].state = "incomplete" \/ (units[unit].state = "complete" /\ Ending.state = "complete")
        THEN units[unit] ELSE Ending
  BY <1>2, MergeIsPessimistic
<1>4. units[unit].state = "complete" => units[unit] = [state |-> "complete", error |-> NoOutcome]
  BY <1>2 DEF UnitState
<1>5. Merge(units[unit], Ending) = IF units[unit].state = "incomplete" THEN units[unit] ELSE Ending
  BY <1>2, <1>3, <1>4
<1>6. units' = [units EXCEPT ![unit] = Merge(units[unit], Ending)]
  BY DEF Record
<1> QED
  BY <1>1, <1>2, <1>5, <1>6 DEF Record, Count

\* What a step leaves of a task that is recorded.
LEMMA RecordKeepsRecords ==
    ASSUME PlaceAndCall, OwnersAndWhole, RecordInv, Record
    PROVE  RecordInv'
<1> DEFINE unit == Tasks[task].unit
<1>1. /\ task \in DOMAIN Tasks /\ Tasks[task].enabled /\ task' = task + 1 /\ task \in Nat
      /\ UNCHANGED listing
      /\ stage = "record"
      /\ counts \in [DOMAIN Tasks -> Nat \cup {NoCount}]
      /\ read \in [DOMAIN Tasks -> SUBSET ((Items \cup {Root}) \X Items)]
      /\ units \in [Units -> UnitState] /\ unit \in Units
      /\ counts' = IF Tasks[task].aggregate
                   THEN [counts EXCEPT ![task] = IF failure = NoFailure THEN Len(call.got) ELSE NoCount]
                   ELSE counts
      /\ read' = IF Tasks[task].aggregate THEN read ELSE [read EXCEPT ![task] = mapped]
      /\ units' = [units EXCEPT ![unit] =
                      IF units[unit].state = "incomplete" THEN units[unit]
                      ELSE IF failure = NoFailure THEN [state |-> "complete", error |-> NoOutcome]
                      ELSE [state |-> "incomplete", error |-> Classify(failure)]]
  BY RecordResults DEF PlaceAndCall, CollectTypeOK, Record, Units
<1>2. ASSUME NEW t \in 1 .. task' - 1,
             t \notin Strangers, Tasks[t].enabled, units'[Tasks[t].unit].state # "incomplete"
      PROVE  IF Tasks[t].aggregate THEN counts'[t] = Number(t)' ELSE read'[t] = Whole(t)'
  <2>1. Number(t)' = Number(t) /\ Whole(t)' = Whole(t)
    BY <1>1 DEF Number, Whole, Owners
  <2>2. t \in DOMAIN Tasks /\ Tasks[t].unit \in Units /\ (t = task \/ t \in 1 .. task - 1)
    <3>1. t \in 1 .. task /\ task \in 1 .. Len(Tasks)
      BY <1>1, TaskTypes
    <3>2. t \in DOMAIN Tasks
      BY <3>1, CollectAssumption
    <3> QED
      BY <3>1, <3>2 DEF Units
  <2>3. CASE t = task
    <3>1. failure = NoFailure
      <4>1. units'[unit] = IF units[unit].state = "incomplete" THEN units[unit]
                           ELSE IF failure = NoFailure THEN [state |-> "complete", error |-> NoOutcome]
                           ELSE [state |-> "incomplete", error |-> Classify(failure)]
        BY <1>1
      <4>2. units'[unit].state # "incomplete"
        BY <1>2, <2>3
      <4> QED
        BY <4>1, <4>2
    <3>2. /\ mapped = Whole(task)
          /\ Tasks[task].aggregate => Len(call.got) = Number(task)
      BY <1>1, <1>2, <2>3, <3>1 DEF OwnersAndWhole, WholeInv
    <3> QED
      BY <1>1, <2>1, <2>3, <3>1, <3>2
  <2>4. CASE t # task
    <3>1. units[Tasks[t].unit].state # "incomplete"
      <4>1. CASE Tasks[t].unit # unit
        BY <1>1, <1>2, <2>2, <4>1
      <4>2. CASE Tasks[t].unit = unit
        <5>1. units'[unit] = IF units[unit].state = "incomplete" THEN units[unit]
                             ELSE IF failure = NoFailure THEN [state |-> "complete", error |-> NoOutcome]
                             ELSE [state |-> "incomplete", error |-> Classify(failure)]
          BY <1>1
        <5> QED
          BY <1>2, <4>2, <5>1
      <4> QED
        BY <4>1, <4>2
    <3>2. IF Tasks[t].aggregate THEN counts[t] = Number(t) ELSE read[t] = Whole(t)
      BY <1>2, <2>2, <2>4, <3>1 DEF RecordInv
    <3>3. counts'[t] = counts[t] /\ read'[t] = read[t]
      BY <1>1, <2>2, <2>4
    <3> QED
      BY <2>1, <3>2, <3>3
  <2> QED
    BY <2>3, <2>4
<1> QED
  BY <1>2 DEF RecordInv

\* A task that is skipped leaves what was recorded.
LEMMA SkipKeepsRecords ==
    ASSUME PlaceAndCall, RecordInv, Skip
    PROVE  RecordInv'
<1>1. /\ ~Tasks[task].enabled /\ task' = task + 1 /\ task \in Nat
      /\ UNCHANGED <<listing, counts, read, units>>
  BY TaskTypes DEF Skip, environment, records
<1>2. ASSUME NEW t \in 1 .. task' - 1, t # task PROVE t \in 1 .. task - 1
  BY <1>1, <1>2
<1>3. \A t : Number(t)' = Number(t) /\ Whole(t)' = Whole(t)
  BY <1>1 DEF Number, Whole, Owners
<1> QED
  BY <1>1, <1>2, <1>3 DEF RecordInv

\* Every task that is done, of a unit that is not incomplete, was read to its end.
THEOREM RecordsHold == LiveSpec => []RecordInv
<1>1. LiveInit => RecordInv
  BY DEF LiveInit, RecordInv
<1>2. PlaceAndCall /\ OwnersAndWhole /\ RecordInv /\ [LiveNext]_liveVars => RecordInv'
  <2> SUFFICES ASSUME PlaceAndCall, OwnersAndWhole, RecordInv, [LiveNext]_liveVars PROVE RecordInv'
    OBVIOUS
  <2>1. CASE ~Record /\ task' = task
    <3>1. UNCHANGED <<listing, counts, read, units>>
      BY <2>1, OnlyRecordRecords DEF records, environment
    <3>2. \A t : Number(t)' = Number(t) /\ Whole(t)' = Whole(t)
      BY <3>1 DEF Number, Whole, Owners
    <3> QED
      BY <2>1, <3>1, <3>2 DEF RecordInv
  <2> QED
    BY <2>1, RecordKeepsRecords, SkipKeepsRecords, OnlyRecordRecords
<1> QED
  BY <1>1, <1>2, PlaceAndCallHold, OwnersAndWholeHold, PTL DEF LiveSpec

\* A control concludes on the types no unit left incomplete (ADR-0005): every task done of
\* such a type was read to its end, whatever the pages, the joins, the tasks that feed a
\* unit and the units that feed a type (engine.go:137-305, collection.go:147-211).
THEOREM CompletesAreWhole == LiveSpec => []CompleteIsWhole
<1>1. PlaceAndCall /\ RecordInv => CompleteIsWhole
  <2> SUFFICES ASSUME PlaceAndCall, RecordInv, NEW t \in 1 .. task - 1,
                      t \notin Strangers, Tasks[t].enabled, Tasks[t].type \notin IncompleteTypes
               PROVE  IF Tasks[t].aggregate THEN counts[t] = Number(t) ELSE read[t] = Whole(t)
    BY DEF CompleteIsWhole
  <2>1. units[Tasks[t].unit].state # "incomplete"
    BY DEF IncompleteTypes
  <2> QED
    BY <2>1 DEF RecordInv
<1> QED
  BY <1>1, PlaceAndCallHold, RecordsHold, PTL

\* A number that is published is the exact number, whatever became of its unit
\* (engine.go:172-178).
THEOREM CountsAreExact == LiveSpec => []CountIsExact
<1>1. LiveInit => CountIsExact
  BY DEF LiveInit, CountIsExact
<1>2. PlaceAndCall /\ OwnersAndWhole /\ CountIsExact /\ [LiveNext]_liveVars => CountIsExact'
  <2> SUFFICES ASSUME PlaceAndCall, OwnersAndWhole, CountIsExact, [LiveNext]_liveVars PROVE CountIsExact'
    OBVIOUS
  <2>1. CASE Record
    <3>1. /\ stage = "record" /\ UNCHANGED listing /\ counts \in [DOMAIN Tasks -> Nat \cup {NoCount}]
          /\ counts' = IF Tasks[task].aggregate
                       THEN [counts EXCEPT ![task] = IF failure = NoFailure THEN Len(call.got) ELSE NoCount]
                       ELSE counts
      BY <2>1, RecordResults DEF PlaceAndCall, CollectTypeOK, Record
    <3>2. failure = NoFailure /\ task \notin Strangers /\ Tasks[task].aggregate => Len(call.got) = Number(task)
      BY <3>1 DEF OwnersAndWhole, WholeInv
    <3>3. \A t : Number(t)' = Number(t)
      BY <3>1 DEF Number
    <3> QED
      BY <3>1, <3>2, <3>3 DEF CountIsExact
  <2>2. CASE ~Record
    BY <2>2, OnlyRecordRecords DEF CountIsExact, Number, records, environment
  <2> QED
    BY <2>1, <2>2
<1> QED
  BY <1>1, <1>2, PlaceAndCallHold, OwnersAndWholeHold, PTL DEF LiveSpec

----------------------------------------------------------------------------
(* The contract.                                                            *)

\* The end of a task is a step of the contract: all that the API had, a part of it with
\* the mark, or what a stranger was believed to have.
LEMMA RecordKeepsTheContract ==
    ASSUME PlaceAndCall, OwnersAndWhole, CountIsExact, Record
    PROVE  Promise!ContractNext
<1> DEFINE unit == Tasks[task].unit
           allThere == [t \in DOMAIN Tasks |-> Whole(t)]
           howMany == [t \in DOMAIN Tasks |-> Number(t)]
<1>1. /\ task \in DOMAIN Tasks /\ Tasks[task].enabled /\ task' = task + 1
      /\ UNCHANGED listing /\ stage = "record" /\ failure \in Endings
      /\ Tasks[task].aggregate \in BOOLEAN
      /\ Len(call.got) \in Nat
      /\ counts \in [DOMAIN Tasks -> Nat \cup {NoCount}]
      /\ units \in [Units -> UnitState] /\ unit \in Units
      /\ mapped \subseteq Whole(task)
  <2>1. task \in DOMAIN Tasks /\ Tasks[task].enabled /\ task' = task + 1 /\ UNCHANGED listing
    BY RecordResults
  <2>2. /\ failure \in Endings /\ call \in Call
        /\ counts \in [DOMAIN Tasks -> Nat \cup {NoCount}] /\ units \in [Units -> UnitState]
    BY DEF PlaceAndCall, CollectTypeOK, CallInv
  <2>3. Tasks[task].aggregate \in BOOLEAN /\ unit \in Units /\ Len(call.got) \in Nat
    BY <2>1, <2>2, TaskTypes DEF Units, Call, Task
  <2>4. stage = "record" /\ mapped \subseteq Whole(task)
    BY DEF Record, OwnersAndWhole, WholeInv
  <2> QED
    BY <2>1, <2>2, <2>3, <2>4
<1>2. /\ counts' = IF Tasks[task].aggregate
                   THEN [counts EXCEPT ![task] = IF failure = NoFailure THEN Len(call.got) ELSE NoCount]
                   ELSE counts
      /\ read' = IF Tasks[task].aggregate THEN read ELSE [read EXCEPT ![task] = mapped]
      /\ units' = [units EXCEPT ![unit] =
                      IF units[unit].state = "incomplete" THEN units[unit]
                      ELSE IF failure = NoFailure THEN [state |-> "complete", error |-> NoOutcome]
                      ELSE [state |-> "incomplete", error |-> Classify(failure)]]
  BY RecordResults
<1>3. \A t : Number(t)' = Number(t) /\ Whole(t)' = Whole(t)
  BY <1>1 DEF Number, Whole, Owners
<1>4. UNCHANGED <<allThere, howMany>>
  BY <1>3
<1>5. allThere[task] = Whole(task) /\ howMany[task] = Number(task)
  BY <1>1
<1>6. units[unit].state = "incomplete" => [units EXCEPT ![unit] = units[unit]] = units
  BY <1>1
<1>7. failure = NoFailure => Promise!MarkComplete
  BY <1>2, <1>6 DEF Promise!MarkComplete, Promise!Doomed
<1>8. failure # NoFailure => Promise!MarkIncomplete
  <2>1. failure # NoFailure => Classify(failure) \in Outcome \cup {NoOutcome}
    BY <1>1, EndingTypes, ClassifyTypes
  <2> QED
    BY <1>2, <1>6, <2>1 DEF Promise!MarkIncomplete, Promise!Doomed
<1>9. Promise!ReadWhole \/ Promise!ReadPart \/ Promise!Believe
  <2>1. CASE failure # NoFailure
    <3>1. CASE Tasks[task].aggregate
      BY <1>2, <1>8, <2>1, <3>1 DEF Promise!ReadPart, Promise!Publish, Promise!NoCount, NoCount
    <3>2. CASE ~Tasks[task].aggregate
      BY <1>1, <1>2, <1>5, <1>8, <2>1, <3>2 DEF Promise!ReadPart, Promise!Keep
    <3> QED
      BY <3>1, <3>2
  <2>2. CASE failure = NoFailure /\ task \notin Strangers
    <3>1. mapped = Whole(task) /\ (Tasks[task].aggregate => Len(call.got) = Number(task))
      BY <1>1, <2>2 DEF OwnersAndWhole, WholeInv
    <3> QED
      BY <1>2, <1>5, <1>7, <2>2, <3>1 DEF Promise!ReadWhole, Promise!Publish, Promise!Keep
  <2>3. CASE failure = NoFailure /\ task \in Strangers
    <3>1. CASE Tasks[task].aggregate
      <4>1. counts'[task] = Len(call.got) /\ counts' = [counts EXCEPT ![task] = counts'[task]] /\ UNCHANGED read
        BY <1>1, <1>2, <2>3, <3>1
      <4> QED
        BY <1>1, <1>7, <2>3, <3>1, <4>1 DEF Promise!Believe, Promise!Publish
    <3>2. CASE ~Tasks[task].aggregate
      BY <1>1, <1>2, <1>5, <1>7, <2>3, <3>2 DEF Promise!Believe, Promise!Keep
    <3> QED
      BY <3>1, <3>2
  <2> QED
    BY <2>1, <2>2, <2>3
<1> QED
  BY <1>1, <1>4, <1>9 DEF Promise!ContractNext

\* A live collection keeps the contract of a collection: it does its tasks in order, and of
\* each it reads everything, or keeps a part and marks its unit for good; a number is
\* published only of a list that is whole (engine.go:137-305, collection.go:147-211).
THEOREM TheContractIsKept == LiveSpec => ContractKept
<1>1. LiveInit => Promise!ContractInit
  BY DEF LiveInit, Promise!ContractInit, Promise!NoCount, NoCount, Promise!Units, Units, Untried
<1>2. PlaceAndCall /\ OwnersAndWhole /\ CountIsExact /\ [LiveNext]_liveVars
         => [Promise!ContractNext]_(Promise!contractVars)
  <2> SUFFICES ASSUME PlaceAndCall, OwnersAndWhole, CountIsExact, [LiveNext]_liveVars
               PROVE  Promise!ContractNext \/ UNCHANGED Promise!contractVars
    OBVIOUS
  <2>1. CASE Record
    BY <2>1, RecordKeepsTheContract
  <2>2. CASE ~Record
    <3>1. UNCHANGED <<read, counts, units, listing>> /\ (task' = task \/ Skip)
      BY <2>2, OnlyRecordRecords DEF records, environment
    <3>2. UNCHANGED <<[t \in DOMAIN Tasks |-> Whole(t)], [t \in DOMAIN Tasks |-> Number(t)]>>
      <4>1. \A t : Number(t)' = Number(t) /\ Whole(t)' = Whole(t)
        BY <3>1 DEF Number, Whole, Owners
      <4> QED
        BY <4>1
    <3>3. CASE task' = task
      BY <3>1, <3>2, <3>3 DEF Promise!contractVars
    <3>4. CASE Skip
      BY <3>1, <3>2, <3>4 DEF Skip, Promise!ContractNext, Promise!Pass
    <3> QED
      BY <3>1, <3>3, <3>4
  <2> QED
    BY <2>1, <2>2
<1> QED
  BY <1>1, <1>2, PlaceAndCallHold, OwnersAndWholeHold, CountsAreExact, PTL
     DEF LiveSpec, ContractKept, Promise!Contract

=============================================================================
