---------------------------- MODULE RunDataProofs ----------------------------
(***************************************************************************)
(* Theorems about RunData for any number of runs, requests, URLs, batches  *)
(* and steps, and their proofs.                                            *)
(***************************************************************************)
EXTENDS RunData, FiniteSetTheorems, SequenceTheorems, NaturalsInduction, WellFoundedInduction, TLAPS

(* What MAX(number) + 1 is when the k-th row has at most number k. *)

\* A set of numbers below a bound has a largest one.
LEMMA LargestExists ==
    ASSUME NEW n \in Nat, NEW S, S \subseteq 0..n, S # {}
    PROVE  \E x \in S : \A y \in S : x >= y
<1> DEFINE D == {n - x : x \in S}
           Less == {pair \in Nat \X Nat : pair[1] < pair[2]}
<1>1. D \subseteq Nat /\ D # {}
  <2>1. \A x \in S : n - x \in Nat
    OBVIOUS
  <2>2. \E x \in S : n - x \in D
    OBVIOUS
  <2> QED
    BY <2>1, <2>2
<1>2. IsWellFoundedOn(Less, Nat)
  BY NatLessThanWellFounded DEF OpToRel
<1>3. \E d \in D : \A e \in D : ~(<<e, d>> \in Less)
  <2> HIDE DEF D, Less
  <2> QED
    BY <1>1, <1>2, WFMin
<1>4. PICK d \in D : \A e \in D : ~(e < d)
  BY <1>1, <1>3
<1>5. PICK x \in S : d = n - x
  OBVIOUS
<1>6. ASSUME NEW y \in S PROVE x >= y
  <2>1. ~(n - y < n - x)
    BY <1>4, <1>5
  <2> QED
    BY <2>1
<1> QED
  BY <1>6

LEMMA NextNumberIs ==
    ASSUME NEW s \in Seq(Nat), \A k \in DOMAIN s : s[k] \in 1..k
    PROVE  /\ NextNumber(s) \in 1..(Len(s) + 1)
           /\ \A k \in DOMAIN s : s[k] < NextNumber(s)
           /\ NextNumber(s) > 1 => \E k \in DOMAIN s : s[k] = NextNumber(s) - 1
<1>1. CASE s = <<>>
  <2>1. NextNumber(s) = 1 /\ DOMAIN s = {} /\ Len(s) = 0
    BY <1>1 DEF NextNumber
  <2> QED
    BY <2>1
<1>2. CASE s # <<>>
  <2> DEFINE n == Len(s)
             S == Range(s)
             m == Max(S)
  <2>1. n \in Nat /\ DOMAIN s = 1..n /\ n > 0
    BY <1>2
  <2>2. S \subseteq 0..n /\ S # {}
    BY <2>1 DEF Range
  <2>3. m \in S /\ \A y \in S : m >= y
    <3> HIDE DEF S, n
    <3>1. \E x \in S : \A y \in S : x >= y
      BY <2>1, <2>2, LargestExists
    <3> QED
      BY <3>1 DEF Max
  <2>4. NextNumber(s) = 1 + m
    BY <1>2 DEF NextNumber
  <2>5. PICK k \in DOMAIN s : m = s[k]
    BY <2>3 DEF Range
  <2>6. \A i \in DOMAIN s : s[i] \in S
    BY DEF Range
  <2> HIDE DEF S, m, n
  <2>7. m \in 1..n
    BY <2>1, <2>5
  <2>8. \A i \in DOMAIN s : s[i] <= m
    BY <2>1, <2>3, <2>6, <2>7
  <2>9. NextNumber(s) \in 1..(n + 1)
    BY <2>1, <2>4, <2>7
  <2>10. \A i \in DOMAIN s : s[i] < NextNumber(s)
    BY <2>1, <2>4, <2>7, <2>8
  <2>11. s[k] = NextNumber(s) - 1
    BY <2>4, <2>5, <2>7
  <2> QED
    BY <2>9, <2>10, <2>11 DEF n
<1> QED
  BY <1>1, <1>2

-----------------------------------------------------------------------------
(* Type correctness and numbering. *)

\* The strengthening that makes the numbering inductive: what a thread has read still fits when
\* it writes, and a number is never above the number of rows.
NumbersFit ==
    /\ \A k \in DOMAIN prompts : prompts[k].version \in 1..k
    /\ \A t \in Threads : th[t].pc = "write" /\ th[t].op = "edition" =>
          th[t].number \in 1..(Len(editions) + 1)
    /\ \A t \in Threads : th[t].pc = "write" /\ th[t].op = "prompt" =>
          /\ th[t].number \in 1..(Len(prompts) + 1)
          /\ th[t].number > 1 => \E i \in DOMAIN prompts : prompts[i].version = th[t].number - 1
          /\ \A i \in DOMAIN prompts : prompts[i].by = t => prompts[i].version < th[t].number

\* A run that has begun a step has not used up its steps.
StepsFit ==
    \A t \in Runs : th[t].pc \in {"write", "read", "commit", "log"} => th[t].steps < MaxSteps

\* A thread in bulk_record() has come to an item of its batch.
SeenFit(r) ==
    /\ r.pc \in {"read", "commit"} => r.op = "seen"
    /\ r.op = "seen" /\ r.pc \in {"write", "read", "commit"} =>
          r.urls \in Batches /\ r.next \in 1..Len(r.urls)

SeenFits == \A t \in Threads : SeenFit(th[t])

IInv ==
    /\ TypeOK
    /\ EditionsAreNumberedInOrder
    /\ VersionTwinsAreStrangers
    /\ NumbersFit
    /\ StepsFit
    /\ SeenFits

Row == [version : Nat, by : Threads]

LEMMA ThreadTyped ==
    ASSUME TypeOK, NEW t \in Threads
    PROVE  /\ th[t] \in Thread
           /\ th[t].pc \in Points
           /\ th[t].op \in Ops /\ th[t].number \in Nat /\ th[t].row \in Story
           /\ th[t].urls \in Batches \union {<<>>} /\ th[t].next \in Nat /\ th[t].steps \in 0..MaxSteps
<1>1. th[t] \in Thread
  BY DEF TypeOK
<1> QED
  BY <1>1 DEF Thread

LEMMA EditionNumberFits ==
    ASSUME IInv
    PROVE  NextNumber(editions) \in 1..(Len(editions) + 1)
<1>1. \A k \in DOMAIN editions : editions[k] \in 1..k
  BY DEF IInv, TypeOK, EditionsAreNumberedInOrder
<1> QED
  BY <1>1, NextNumberIs DEF IInv, TypeOK

LEMMA PromptNumberFits ==
    ASSUME IInv
    PROVE  /\ NextNumber(Versions) \in 1..(Len(prompts) + 1)
           /\ NextNumber(Versions) > 1 =>
                  \E i \in DOMAIN prompts : prompts[i].version = NextNumber(Versions) - 1
           /\ \A i \in DOMAIN prompts : prompts[i].version < NextNumber(Versions)
<1>1. prompts \in Seq(Row)
  BY DEF IInv, TypeOK, Row
<1>2. \A k \in DOMAIN prompts : prompts[k].version \in Nat
  <2>1. \A k \in DOMAIN prompts : prompts[k] \in Row
    BY <1>1
  <2> QED
    BY <2>1 DEF Row
<1>3. Versions \in Seq(Nat) /\ Len(Versions) = Len(prompts) /\ DOMAIN Versions = DOMAIN prompts
  <2> DEFINE n == Len(prompts)
             f(k) == prompts[k].version
  <2>1. n \in Nat /\ DOMAIN prompts = 1..n
    BY <1>1
  <2>2. Versions = [k \in 1..n |-> f(k)] /\ \A k \in 1..n : f(k) \in Nat
    BY <1>2, <2>1 DEF Versions
  <2> HIDE DEF n, f
  <2>3. Versions \in Seq(Nat) /\ Len(Versions) = n /\ DOMAIN Versions = 1..n
    BY <2>1, <2>2
  <2> QED
    BY <2>1, <2>3 DEF n
<1>4. \A k \in DOMAIN prompts : Versions[k] = prompts[k].version
  BY DEF Versions
<1>5. \A k \in DOMAIN Versions : Versions[k] \in 1..k
  BY <1>3, <1>4 DEF IInv, NumbersFit
<1> HIDE DEF Versions
<1> QED
  BY <1>3, <1>4, <1>5, NextNumberIs

\* The reading half of an operation.
Reads(t) ==
    \/ ReadEdition(t) \/ ReadPrompt(t) \/ ReadStory(t) \/ ReadMemory(t)
    \/ \E urls \in Batches : ReadSeen(t, urls)

LEMMA Reading ==
    ASSUME IInv, NEW t \in Threads, Reads(t)
    PROVE  /\ th[t].pc = "idle" /\ (t \in Runs => th[t].steps < MaxSteps)
           /\ UNCHANGED <<tables, draft, lock, history>>
           /\ \E new \in Thread :
                 /\ th' = [th EXCEPT ![t] = new]
                 /\ new.pc = "write" /\ new.steps = th[t].steps /\ SeenFit(new)
                 /\ new.op = "seen" => new.next = 1 /\ t \notin Requests
                 /\ new.op = "edition" => new.number = NextNumber(editions)
                 /\ new.op = "prompt" => new.number = NextNumber(Versions)
                 /\ t \in Requests => new.op \in RequestOps
<1>1. TypeOK /\ th \in [Threads -> Thread] /\ th[t] \in Thread
  BY ThreadTyped DEF IInv, TypeOK
<1>2. NextNumber(editions) \in Nat /\ NextNumber(Versions) \in Nat
  BY EditionNumberFits, PromptNumberFits DEF IInv, TypeOK
<1> DEFINE Number == NextNumber(editions)
           Version == NextNumber(Versions)
<1>3. story \in Story /\ hits \in [Urls -> Nat]
  BY <1>1 DEF TypeOK
<1>4. Thread = [pc : Points, op : Ops, number : Nat, row : Story, found : BOOLEAN,
                urls : Batches \union {<<>>}, next : Nat, steps : 0..MaxSteps]
  BY DEF Thread
<1>5. Number \in Nat /\ Version \in Nat
  BY <1>2
<1>6. t \in Requests => t \notin Runs
  BY RunDataAssumption
<1> HIDE DEF Number, Version
<1>7. CASE ReadEdition(t)
  <2> DEFINE new == [th[t] EXCEPT !.pc = "write", !.op = "edition", !.number = Number]
  <2>1. new \in Thread
    BY <1>1, <1>4, <1>5 DEF Ops, Points
  <2>2. th' = [th EXCEPT ![t] = new]
    BY <1>1, <1>4, <1>7 DEF ReadEdition, Number
  <2>3. new.pc = "write" /\ new.op = "edition" /\ new.number = Number /\ new.steps = th[t].steps
    BY <1>1, <1>4
  <2> HIDE DEF new
  <2> QED
    BY <1>7, <2>1, <2>2, <2>3 DEF ReadEdition, Starts, RequestOps, Number, SeenFit
<1>8. CASE ReadPrompt(t)
  <2> DEFINE new == [th[t] EXCEPT !.pc = "write", !.op = "prompt", !.number = Version]
  <2>1. new \in Thread
    BY <1>1, <1>4, <1>5 DEF Ops, Points
  <2>2. th' = [th EXCEPT ![t] = new]
    BY <1>1, <1>4, <1>8 DEF ReadPrompt, Version
  <2>3. new.pc = "write" /\ new.op = "prompt" /\ new.number = Version /\ new.steps = th[t].steps
    BY <1>1, <1>4
  <2> HIDE DEF new
  <2> QED
    BY <1>8, <2>1, <2>2, <2>3 DEF ReadPrompt, Starts, RequestOps, Version, SeenFit
<1>9. CASE ReadStory(t)
  <2> DEFINE new == [th[t] EXCEPT !.pc = "write", !.op = "story", !.row = story]
  <2>1. new \in Thread
    BY <1>1, <1>3, <1>4 DEF Ops, Points
  <2>2. th' = [th EXCEPT ![t] = new]
    BY <1>1, <1>4, <1>9 DEF ReadStory
  <2>3. new.pc = "write" /\ new.op = "story" /\ new.steps = th[t].steps
    BY <1>1, <1>4
  <2> HIDE DEF new
  <2> QED
    BY <1>6, <1>9, <2>1, <2>2, <2>3 DEF ReadStory, Starts, SeenFit
<1>10. CASE ReadMemory(t)
  <2> DEFINE new == [th[t] EXCEPT !.pc = "write", !.op = "memory", !.found = (memory # NoThread)]
  <2>1. new \in Thread
    BY <1>1, <1>4 DEF Ops, Points
  <2>2. th' = [th EXCEPT ![t] = new]
    BY <1>1, <1>4, <1>10 DEF ReadMemory
  <2>3. new.pc = "write" /\ new.op = "memory" /\ new.steps = th[t].steps
    BY <1>1, <1>4
  <2> HIDE DEF new
  <2> QED
    BY <1>10, <2>1, <2>2, <2>3 DEF ReadMemory, Starts, RequestOps, SeenFit
<1>11. ASSUME NEW urls \in Batches, ReadSeen(t, urls)
       PROVE  /\ th[t].pc = "idle" /\ (t \in Runs => th[t].steps < MaxSteps)
              /\ UNCHANGED <<tables, draft, lock, history>>
              /\ \E new \in Thread :
                    /\ th' = [th EXCEPT ![t] = new]
                    /\ new.pc = "write" /\ new.op = "seen" /\ new.steps = th[t].steps
                    /\ new.next = 1 /\ SeenFit(new)
                    /\ t \notin Requests
  <2>1. Head(urls) \in Urls /\ 1 \in 1..Len(urls)
    <3>1. urls \in Seq(Urls) /\ urls # <<>>
      BY RunDataAssumption
    <3> QED
      BY <3>1
  <2> DEFINE count == hits[Head(urls)]
             new == [th[t] EXCEPT !.pc = "write", !.op = "seen", !.urls = urls, !.next = 1,
                                  !.number = count]
  <2>2. count \in Nat
    BY <1>3, <2>1
  <2>3. th' = [th EXCEPT ![t] = new]
    <3>1. th' = [th EXCEPT ![t].pc = "write", ![t].op = "seen", ![t].urls = urls, ![t].next = 1,
                           ![t].number = count]
      BY <1>11 DEF ReadSeen
    <3> HIDE DEF count
    <3> QED
      BY <1>1, <1>4, <3>1
  <2> HIDE DEF count
  <2>4. new \in Thread
    BY <1>1, <1>4, <2>2 DEF Ops, Points
  <2>5. new.pc = "write" /\ new.op = "seen" /\ new.steps = th[t].steps /\ new.next = 1 /\ new.urls = urls
    BY <1>1, <1>4
  <2> HIDE DEF new
  <2> QED
    BY <1>6, <1>11, <2>1, <2>3, <2>4, <2>5 DEF ReadSeen, Starts, SeenFit
<1> QED
  BY <1>7, <1>8, <1>9, <1>10, <1>11 DEF Reads

\* What a thread that has written does next.
LEMMA Returning ==
    ASSUME IInv, NEW t \in Threads, th' = [th EXCEPT ![t] = Returned(t)]
    PROVE  \E new \in Thread :
              /\ th' = [th EXCEPT ![t] = new]
              /\ new.pc = IF t \in Runs THEN "log" ELSE "ended"
              /\ new.op = th[t].op /\ new.steps = th[t].steps
<1> DEFINE new == Returned(t)
<1>1. Thread = [pc : Points, op : Ops, number : Nat, row : Story, found : BOOLEAN,
                urls : Batches \union {<<>>}, next : Nat, steps : 0..MaxSteps]
  BY DEF Thread
<1>2. NoStory \in Story
  BY DEF NoStory, Story
<1>3. th[t] \in Thread
  BY ThreadTyped DEF IInv
<1>4. /\ new \in Thread
      /\ new.pc = IF t \in Runs THEN "log" ELSE "ended"
      /\ new.op = th[t].op /\ new.steps = th[t].steps
  BY <1>1, <1>2, <1>3 DEF Returned, Idle, Ops, Points
<1> HIDE DEF new
<1> QED
  BY <1>4 DEF new

\* The thread of an action that is not about to write afterwards keeps NumbersFit of all others.
LEMMA ThreadMoves ==
    ASSUME IInv, NEW t \in Threads, NEW new \in Thread, th' = [th EXCEPT ![t] = new],
           t \in Requests => new.op \in RequestOps /\ new.pc \in {"idle", "write", "ended"},
           t \in Runs /\ new.pc \in {"write", "read", "commit", "log"} => new.steps < MaxSteps,
           SeenFit(new)
    PROVE  /\ th' \in [Threads -> Thread]
           /\ \A q \in Requests : th'[q].op \in RequestOps /\ th'[q].pc \in {"idle", "write", "ended"}
           /\ StepsFit' /\ SeenFits'
           /\ th'[t] = new /\ \A q \in Threads \ {t} : th'[q] = th[q]
<1> Threads = Runs \union Requests
  BY DEF Threads
<1> HIDE DEF Threads, Thread
<1>1. th \in [Threads -> Thread]
  BY DEF IInv, TypeOK
<1>2. th'[t] = new /\ \A q \in Threads \ {t} : th'[q] = th[q]
  BY <1>1
<1>3. th' \in [Threads -> Thread]
  BY <1>1
<1>4. \A q \in Requests : th[q].op \in RequestOps /\ th[q].pc \in {"idle", "write", "ended"}
  BY DEF IInv, TypeOK
<1>5. \A q \in Requests : th'[q].op \in RequestOps /\ th'[q].pc \in {"idle", "write", "ended"}
  BY <1>2, <1>4
<1>6. StepsFit'
  BY <1>2 DEF IInv, StepsFit
<1>7. SeenFits'
  BY <1>2 DEF IInv, SeenFits
<1> QED
  BY <1>2, <1>3, <1>5, <1>6, <1>7

\* The numbers still fit when a thread that is done with its operation goes on.
LEMMA OthersKeepNumbers ==
    ASSUME IInv, NEW t \in Threads, th'[t].pc # "write",
           \A q \in Threads \ {t} : th'[q] = th[q],
           editions' = editions, prompts' = prompts
    PROVE  NumbersFit' /\ EditionsAreNumberedInOrder' /\ VersionTwinsAreStrangers'
<1>1. EditionsAreNumberedInOrder'
  BY DEF IInv, EditionsAreNumberedInOrder
<1>2. VersionTwinsAreStrangers'
  BY DEF IInv, VersionTwinsAreStrangers
<1>3. NumbersFit'
  BY DEF IInv, NumbersFit
<1> QED
  BY <1>1, <1>2, <1>3

LEMMA ReadKeeps == ASSUME IInv, NEW t \in Threads, Reads(t) PROVE IInv'
<1>1. PICK new \in Thread :
         /\ th' = [th EXCEPT ![t] = new]
         /\ new.pc = "write" /\ new.steps = th[t].steps /\ SeenFit(new)
         /\ new.op = "edition" => new.number = NextNumber(editions)
         /\ new.op = "prompt" => new.number = NextNumber(Versions)
         /\ t \in Requests => new.op \in RequestOps
  BY Reading
<1>2. t \in Runs => th[t].steps < MaxSteps
  BY Reading
<1>3. UNCHANGED <<tables, draft, lock, history>>
  BY Reading
<1>4. /\ th' \in [Threads -> Thread]
      /\ \A q \in Requests : th'[q].op \in RequestOps /\ th'[q].pc \in {"idle", "write", "ended"}
      /\ StepsFit' /\ SeenFits'
      /\ th'[t] = new /\ \A q \in Threads \ {t} : th'[q] = th[q]
  <2>1. t \in Requests => new.op \in RequestOps /\ new.pc \in {"idle", "write", "ended"}
    BY <1>1
  <2>2. t \in Runs /\ new.pc \in {"write", "read", "commit", "log"} => new.steps < MaxSteps
    BY <1>1, <1>2
  <2> QED
    BY <1>1, <2>1, <2>2, ThreadMoves
<1>5. TypeOK'
  BY <1>3, <1>4 DEF IInv, TypeOK, tables, history
<1>6. EditionsAreNumberedInOrder' /\ VersionTwinsAreStrangers'
  BY <1>3 DEF tables, IInv, EditionsAreNumberedInOrder, VersionTwinsAreStrangers
<1>7. NumbersFit'
  <2>1. editions' = editions /\ prompts' = prompts
    BY <1>3 DEF tables
  <2>2. ASSUME NEW q \in Threads, th'[q].pc = "write", th'[q].op = "edition"
        PROVE  th'[q].number \in 1..(Len(editions) + 1)
    <3>1. CASE q = t
      BY <1>1, <1>4, <2>2, <3>1, EditionNumberFits
    <3>2. CASE q # t
      BY <1>4, <2>2, <3>2 DEF IInv, NumbersFit
    <3> QED
      BY <3>1, <3>2
  <2>3. ASSUME NEW q \in Threads, th'[q].pc = "write", th'[q].op = "prompt"
        PROVE  /\ th'[q].number \in 1..(Len(prompts) + 1)
               /\ th'[q].number > 1 => \E i \in DOMAIN prompts : prompts[i].version = th'[q].number - 1
               /\ \A i \in DOMAIN prompts : prompts[i].by = q => prompts[i].version < th'[q].number
    <3>1. CASE q = t
      <4>1. th'[q].number = NextNumber(Versions)
        BY <1>1, <1>4, <2>3, <3>1
      <4> QED
        BY <4>1, PromptNumberFits
    <3>2. CASE q # t
      BY <1>4, <2>3, <3>2 DEF IInv, NumbersFit
    <3> QED
      BY <3>1, <3>2
  <2> QED
    BY <2>1, <2>2, <2>3 DEF IInv, NumbersFit
<1> QED
  BY <1>4, <1>5, <1>6, <1>7 DEF IInv

\* What all the writing actions do to the threads.
LEMMA WriteMoves ==
    ASSUME IInv, NEW t \in Threads, th[t].pc \in {"write", "commit"},
           th' = [th EXCEPT ![t] = Returned(t)]
    PROVE  /\ th' \in [Threads -> Thread]
           /\ \A q \in Requests : th'[q].op \in RequestOps /\ th'[q].pc \in {"idle", "write", "ended"}
           /\ StepsFit' /\ SeenFits'
           /\ th'[t].pc # "write" /\ \A q \in Threads \ {t} : th'[q] = th[q]
<1>1. PICK new \in Thread :
         /\ th' = [th EXCEPT ![t] = new]
         /\ new.pc = IF t \in Runs THEN "log" ELSE "ended"
         /\ new.op = th[t].op /\ new.steps = th[t].steps
  BY Returning
<1>2. t \in Requests => new.op \in RequestOps /\ new.pc \in {"idle", "write", "ended"}
  BY <1>1, RunDataAssumption DEF IInv, TypeOK
<1>3. t \in Runs /\ new.pc \in {"write", "read", "commit", "log"} => new.steps < MaxSteps
  BY <1>1 DEF IInv, StepsFit
<1>5. SeenFit(new)
  BY <1>1 DEF SeenFit
<1>4. /\ th' \in [Threads -> Thread]
      /\ \A q \in Requests : th'[q].op \in RequestOps /\ th'[q].pc \in {"idle", "write", "ended"}
      /\ StepsFit' /\ SeenFits'
      /\ th'[t] = new /\ \A q \in Threads \ {t} : th'[q] = th[q]
  BY <1>1, <1>2, <1>3, <1>5, ThreadMoves
<1> QED
  BY <1>1, <1>4

LEMMA InsertEditionKeeps == ASSUME IInv, NEW t \in Threads, InsertEdition(t) PROVE IInv'
<1> DEFINE n == Len(editions)
           number == th[t].number
<1>1. /\ th[t].pc = "write" /\ th[t].op = "edition" /\ th' = [th EXCEPT ![t] = Returned(t)]
      /\ number \notin Range(editions)
      /\ editions' = Append(editions, number)
      /\ UNCHANGED <<prompts, story, memory, hits, draft, lock, history>>
  BY DEF InsertEdition, Writes, NumberTaken
<1>2. editions \in Seq(Nat) /\ n \in Nat /\ DOMAIN editions = 1..n
  BY DEF IInv, TypeOK
<1>3. number = n + 1
  <2>1. number \in 1..(n + 1)
    BY <1>1 DEF IInv, NumbersFit
  <2>2. \A i \in 1..n : i \in Range(editions)
    BY <1>2 DEF IInv, EditionsAreNumberedInOrder, Range
  <2> QED
    BY <1>1, <1>2, <2>1, <2>2
<1>4. /\ editions' \in Seq(Nat) /\ Len(editions') = n + 1 /\ DOMAIN editions' = 1..(n + 1)
      /\ editions'[n + 1] = number
      /\ \A i \in 1..n : editions'[i] = editions[i]
  BY <1>1, <1>2, <1>3
<1> HIDE DEF n, number
<1>5. TypeOK'
  BY <1>1, <1>4, WriteMoves DEF IInv, TypeOK, history
<1>6. EditionsAreNumberedInOrder'
  <2> SUFFICES ASSUME NEW i \in 1..(n + 1) PROVE editions'[i] = i
    BY <1>4 DEF EditionsAreNumberedInOrder
  <2>1. CASE i = n + 1
    BY <1>3, <1>4, <2>1
  <2>2. CASE i # n + 1
    <3>1. i \in 1..n
      BY <1>2, <2>2
    <3> QED
      BY <1>2, <1>4, <3>1 DEF IInv, EditionsAreNumberedInOrder
  <2> QED
    BY <2>1, <2>2
<1>7. VersionTwinsAreStrangers'
  BY <1>1 DEF IInv, VersionTwinsAreStrangers
<1>8. NumbersFit'
  <2>1. th'[t].pc # "write" /\ \A q \in Threads \ {t} : th'[q] = th[q]
    BY <1>1, WriteMoves
  <2>2. ASSUME NEW q \in Threads, th'[q].pc = "write", th'[q].op = "edition"
        PROVE  th'[q].number \in 1..(n + 1 + 1)
    <3>1. th'[q].number \in 1..(n + 1)
      BY <2>1, <2>2 DEF IInv, NumbersFit, n
    <3> QED
      BY <1>2, <3>1
  <2> QED
    BY <1>1, <1>4, <2>1, <2>2 DEF IInv, NumbersFit
<1> QED
  BY <1>1, <1>5, <1>6, <1>7, <1>8, WriteMoves DEF IInv

LEMMA InsertPromptKeeps == ASSUME IInv, NEW t \in Threads, InsertPrompt(t) PROVE IInv'
<1> DEFINE n == Len(prompts)
           number == th[t].number
           row == [version |-> number, by |-> t]
<1>1. /\ th[t].pc = "write" /\ th[t].op = "prompt" /\ th' = [th EXCEPT ![t] = Returned(t)]
      /\ prompts' = Append(prompts, row)
      /\ UNCHANGED <<editions, story, memory, hits, draft, lock, history>>
  BY DEF InsertPrompt, Writes
<1>2. prompts \in Seq(Row) /\ n \in Nat /\ DOMAIN prompts = 1..n
  BY DEF IInv, TypeOK, Row
<1>3. /\ number \in 1..(n + 1)
      /\ number > 1 => \E i \in 1..n : prompts[i].version = number - 1
      /\ \A i \in 1..n : prompts[i].by = t => prompts[i].version < number
  BY <1>1, <1>2 DEF IInv, NumbersFit
<1>4. row \in Row /\ row.version = number /\ row.by = t
  BY <1>3 DEF Row
<1> HIDE DEF row, number
<1>5. /\ prompts' \in Seq(Row) /\ Len(prompts') = n + 1 /\ DOMAIN prompts' = 1..(n + 1)
      /\ prompts'[n + 1] = row
      /\ \A i \in 1..n : prompts'[i] = prompts[i]
  <2> HIDE DEF Row
  <2> QED
    BY <1>1, <1>2, <1>4
<1> HIDE DEF n
<1>6. TypeOK'
  BY <1>1, <1>5, WriteMoves DEF IInv, TypeOK, history, Row
<1>7. EditionsAreNumberedInOrder'
  BY <1>1 DEF IInv, EditionsAreNumberedInOrder
<1>8. VersionTwinsAreStrangers'
  <2> SUFFICES ASSUME NEW k \in 1..(n + 1)
               PROVE  /\ prompts'[k].version > 1 =>
                             \E i \in 1..(k - 1) : prompts'[i].version = prompts'[k].version - 1
                      /\ \A i \in 1..(k - 1) :
                             prompts'[i].version = prompts'[k].version => prompts'[i].by # prompts'[k].by
    BY <1>5 DEF VersionTwinsAreStrangers
  <2>1. CASE k = n + 1
    <3>1. 1..(k - 1) = 1..n
      BY <1>2, <2>1
    <3>2. \A i \in 1..n : prompts[i].version = number => prompts[i].by # t
      BY <1>3
    <3> QED
      BY <1>3, <1>4, <1>5, <2>1, <3>1, <3>2
  <2>2. CASE k # n + 1
    <3>1. k \in 1..n /\ k \in DOMAIN prompts /\ \A i \in 1..(k - 1) : i \in 1..n
      BY <1>2, <2>2
    <3>2. prompts'[k] = prompts[k] /\ \A i \in 1..(k - 1) : prompts'[i] = prompts[i]
      BY <1>5, <3>1
    <3>3. /\ prompts[k].version > 1 =>
                \E i \in 1..(k - 1) : prompts[i].version = prompts[k].version - 1
          /\ \A i \in 1..(k - 1) :
                prompts[i].version = prompts[k].version => prompts[i].by # prompts[k].by
      BY <3>1 DEF IInv, VersionTwinsAreStrangers
    <3> QED
      BY <3>2, <3>3
  <2> QED
    BY <2>1, <2>2
<1>9. NumbersFit'
  <2>1. th'[t].pc # "write" /\ \A q \in Threads \ {t} : th'[q] = th[q]
    BY <1>1, WriteMoves
  <2>2. ASSUME NEW k \in 1..(n + 1) PROVE prompts'[k].version \in 1..k
    <3>1. CASE k = n + 1
      BY <1>3, <1>4, <1>5, <3>1
    <3>2. CASE k # n + 1
      <4>1. k \in 1..n
        BY <1>2, <3>2
      <4> QED
        BY <1>2, <1>5, <4>1 DEF IInv, NumbersFit
    <3> QED
      BY <3>1, <3>2
  <2>3. ASSUME NEW q \in Threads, th'[q].pc = "write", th'[q].op = "prompt"
        PROVE  /\ th'[q].number \in 1..(n + 1 + 1)
               /\ th'[q].number > 1 => \E i \in 1..(n + 1) : prompts'[i].version = th'[q].number - 1
               /\ \A i \in 1..(n + 1) : prompts'[i].by = q => prompts'[i].version < th'[q].number
    <3>1. q # t /\ th'[q] = th[q]
      BY <2>1, <2>3
    <3>2. /\ th[q].number \in 1..(n + 1)
          /\ th[q].number > 1 => \E i \in 1..n : prompts[i].version = th[q].number - 1
          /\ \A i \in 1..n : prompts[i].by = q => prompts[i].version < th[q].number
      BY <1>2, <2>3, <3>1 DEF IInv, NumbersFit, n
    <3>3. th'[q].number \in 1..(n + 1 + 1)
      BY <1>2, <3>1, <3>2
    <3>4. th'[q].number > 1 => \E i \in 1..(n + 1) : prompts'[i].version = th'[q].number - 1
      <4>1. \A i \in 1..n : i \in 1..(n + 1)
        BY <1>2
      <4> QED
        BY <1>5, <3>1, <3>2, <4>1
    <3>5. ASSUME NEW i \in 1..(n + 1), prompts'[i].by = q PROVE prompts'[i].version < th'[q].number
      <4>1. i # n + 1
        BY <1>4, <1>5, <3>1, <3>5
      <4>2. i \in 1..n
        BY <1>2, <4>1
      <4> QED
        BY <1>5, <3>1, <3>2, <3>5, <4>2
    <3> QED
      BY <3>3, <3>4, <3>5
  <2> QED
    BY <1>1, <1>5, <2>1, <2>2, <2>3 DEF IInv, NumbersFit
<1> QED
  BY <1>1, <1>6, <1>7, <1>8, <1>9, WriteMoves DEF IInv

\* How often a URL occurs in a list is a number.
LEMMA CountTyped ==
    ASSUME NEW urls \in Seq(Urls), NEW u PROVE CountIn(urls, u) \in Nat
<1> DEFINE S == {i \in DOMAIN urls : urls[i] = u}
<1>1. Len(urls) \in Nat /\ DOMAIN urls = 1..Len(urls)
  OBVIOUS
<1>2. IsFiniteSet(1..Len(urls))
  BY <1>1, FS_Interval
<1>3. S \in SUBSET (1..Len(urls))
  BY <1>1
<1> HIDE DEF S
<1>4. IsFiniteSet(S)
  BY <1>2, <1>3, FS_Subset
<1>5. Cardinality(S) \in Nat
  BY <1>4, FS_CardinalityType
<1> QED
  BY <1>5 DEF CountIn, S

\* The writes that touch neither editions nor prompts.
LEMMA OtherWritesKeep ==
    ASSUME IInv, NEW t \in Threads,
           \/ \E bare \in BOOLEAN : WriteStory(t, [by |-> t, bare |-> bare])
           \/ WriteMemory(t) \/ CommitSeen(t) \/ Conflict(t)
    PROVE  IInv'
<1>1. /\ th[t].pc \in {"write", "commit"} /\ th' = [th EXCEPT ![t] = Returned(t)]
      /\ editions' = editions /\ prompts' = prompts
  BY DEF WriteStory, WriteMemory, CommitSeen, Conflict, Writes, tables
<1>2. NumbersFit' /\ EditionsAreNumberedInOrder' /\ VersionTwinsAreStrangers'
  BY <1>1, WriteMoves, OthersKeepNumbers
<1>3. /\ th' \in [Threads -> Thread]
      /\ \A q \in Requests : th'[q].op \in RequestOps /\ th'[q].pc \in {"idle", "write", "ended"}
      /\ StepsFit' /\ SeenFits'
  BY <1>1, WriteMoves
<1>4. ASSUME NEW bare \in BOOLEAN, WriteStory(t, [by |-> t, bare |-> bare]) PROVE IInv'
  <2> DEFINE entry == [by |-> t, bare |-> bare]
             row == th[t].row
  <2>1. t \in Runs
    BY <1>4 DEF WriteStory, Writes, IInv, TypeOK, Threads, RequestOps
  <2>2. entry \in Entry /\ row \in Story /\ told \in Seq(Entry)
    BY <2>1, ThreadTyped DEF IInv, TypeOK, Entry
  <2>3. /\ story' = Edition(row, entry) /\ told' = Append(told, entry)
        /\ overtaken' \in BOOLEAN
        /\ UNCHANGED <<editions, prompts, memory, hits, draft, lock, recorded>>
    BY <1>4 DEF WriteStory, IInv, TypeOK
  <2> HIDE DEF entry, row
  <2>4. Edition(row, entry) \in Story
    <3>1. row.count + 1 \in Nat
      BY <2>2 DEF Story
    <3>2. <<>> \in Seq(Entry) /\ Append(row.log, entry) \in Seq(Entry)
      BY <2>2 DEF Story
    <3> QED
      BY <3>1, <3>2 DEF Edition, Story
  <2>5. told' \in Seq(Entry)
    BY <2>2, <2>3
  <2>6. TypeOK'
    BY <1>3, <2>3, <2>4, <2>5 DEF IInv, TypeOK
  <2> QED
    BY <1>2, <1>3, <2>6 DEF IInv
<1>5. CASE WriteMemory(t)
  <2>1. TypeOK'
    BY <1>1, <1>3, <1>5 DEF WriteMemory, IInv, TypeOK, history
  <2> QED
    BY <1>2, <1>3, <2>1 DEF IInv
<1>6. CASE CommitSeen(t)
  <2>1. th[t].urls \in Seq(Urls)
    <3>1. <<>> \in Seq(Urls)
      OBVIOUS
    <3> QED
      BY <3>1, ThreadTyped, RunDataAssumption DEF IInv
  <2>2. \A u \in Urls : CountIn(th[t].urls, u) \in Nat
    BY <2>1, CountTyped
  <2>3. /\ recorded' = [u \in Urls |-> recorded[u] + CountIn(th[t].urls, u)]
        /\ hits' = draft
    BY <1>6 DEF CommitSeen
  <2>4. hits' \in [Urls -> Nat] /\ recorded' \in [Urls -> Nat]
    BY <2>2, <2>3 DEF IInv, TypeOK
  <2>5. TypeOK'
    BY <1>1, <1>3, <1>6, <2>4 DEF CommitSeen, IInv, TypeOK
  <2> QED
    BY <1>2, <1>3, <2>5 DEF IInv
<1>7. CASE Conflict(t)
  <2>1. TypeOK'
    BY <1>1, <1>3, <1>7 DEF Conflict, IInv, TypeOK, tables, history
  <2> QED
    BY <1>2, <1>3, <2>1 DEF IInv
<1> QED
  BY <1>4, <1>5, <1>6, <1>7

\* The statements of bulk_record()'s transaction before its commit.
LEMMA ItemTyped ==
    ASSUME IInv, NEW t \in Threads, th[t].op = "seen", th[t].pc \in {"write", "read", "commit"}
    PROVE  /\ th[t].urls \in Batches /\ th[t].urls \in Seq(Urls)
           /\ th[t].next \in 1..Len(th[t].urls) /\ Item(t) \in Urls
           /\ t \in Runs /\ t \notin Requests
<1>1. th[t].urls \in Batches /\ th[t].next \in 1..Len(th[t].urls)
  BY DEF IInv, SeenFits, SeenFit
<1>2. th[t].urls \in Seq(Urls)
  BY <1>1, RunDataAssumption
<1>3. t \in Runs /\ t \notin Requests
  BY DEF IInv, TypeOK, Threads, RequestOps
<1> QED
  BY <1>1, <1>2, <1>3 DEF Item

LEMMA ItemStepsKeep ==
    ASSUME IInv, NEW t \in Threads, WriteItem(t) \/ ReadItem(t)
    PROVE  /\ IInv'
           /\ th'[t].pc \in {"write", "read", "commit"} /\ th'[t].op = "seen"
           /\ \A q \in Threads \ {t} : th'[q] = th[q]
<1>1. th[t] \in Thread /\ th[t].op = "seen" /\ th[t].pc \in {"write", "read", "commit"}
  BY ThreadTyped DEF WriteItem, ReadItem, IInv, SeenFits, SeenFit
<1>2. /\ th[t].urls \in Batches /\ th[t].urls \in Seq(Urls)
      /\ th[t].next \in 1..Len(th[t].urls) /\ Item(t) \in Urls
      /\ t \in Runs /\ t \notin Requests
  BY <1>1, ItemTyped
<1>3. Thread = [pc : Points, op : Ops, number : Nat, row : Story, found : BOOLEAN,
                urls : Batches \union {<<>>}, next : Nat, steps : 0..MaxSteps]
  BY DEF Thread
<1>4. hits \in [Urls -> Nat] /\ draft \in [Urls -> Nat] /\ th \in [Threads -> Thread]
  BY DEF IInv, TypeOK
<1>5. ASSUME NEW new \in Thread, th' = [th EXCEPT ![t] = new],
             new.pc \in {"write", "read", "commit"}, new.op = "seen", new.steps = th[t].steps,
             new.urls = th[t].urls, new.next \in 1..Len(th[t].urls),
             draft' \in [Urls -> Nat], lock' \in Threads \union {NoThread},
             tables' = tables, history' = history
      PROVE  /\ IInv'
             /\ th'[t].pc \in {"write", "read", "commit"} /\ th'[t].op = "seen"
             /\ \A q \in Threads \ {t} : th'[q] = th[q]
  <2>1. SeenFit(new) /\ new.steps < MaxSteps
    BY <1>1, <1>2, <1>5 DEF SeenFit, IInv, StepsFit
  <2>2. /\ th' \in [Threads -> Thread]
        /\ \A q \in Requests : th'[q].op \in RequestOps /\ th'[q].pc \in {"idle", "write", "ended"}
        /\ StepsFit' /\ SeenFits'
        /\ th'[t] = new /\ \A q \in Threads \ {t} : th'[q] = th[q]
    BY <1>2, <1>5, <2>1, ThreadMoves
  <2>3. editions' = editions /\ prompts' = prompts
    BY <1>5 DEF tables
  <2>4. NumbersFit'
    <3>1. th'[t].op = "seen"
      BY <1>5, <2>2
    <3> QED
      BY <2>2, <2>3, <3>1 DEF IInv, NumbersFit
  <2>5. EditionsAreNumberedInOrder' /\ VersionTwinsAreStrangers'
    BY <2>3 DEF IInv, EditionsAreNumberedInOrder, VersionTwinsAreStrangers
  <2>6. TypeOK'
    BY <1>5, <2>2 DEF IInv, TypeOK, tables, history
  <2> QED
    BY <1>5, <2>2, <2>4, <2>5, <2>6 DEF IInv
<1>6. CASE WriteItem(t)
  <2>1. View(t) \in [Urls -> Nat]
    BY <1>4 DEF View
  <2>2. draft' = [View(t) EXCEPT ![Item(t)] = Hit(View(t)[Item(t)], th[t].number)]
    BY <1>6 DEF WriteItem
  <2>3. Hit(View(t)[Item(t)], th[t].number) \in Nat
    BY <1>2, <2>1 DEF Hit
  <2>4. draft' \in [Urls -> Nat]
    BY <2>1, <2>2, <2>3
  <2>5. tables' = tables /\ history' = history /\ lock' = t
    BY <1>6 DEF WriteItem, tables, history
  <2>6. CASE th[t].next = Len(th[t].urls)
    <3> DEFINE new == [th[t] EXCEPT !.pc = "commit"]
    <3>1. th' = [th EXCEPT ![t] = new]
      <4>1. th' = [th EXCEPT ![t].pc = "commit", ![t].next = th[t].next]
        BY <1>6, <2>6 DEF WriteItem
      <4> QED
        BY <1>1, <1>3, <1>4, <4>1
    <3>2. new \in Thread /\ new.pc = "commit" /\ new.op = th[t].op /\ new.steps = th[t].steps
          /\ new.urls = th[t].urls /\ new.next = th[t].next
      BY <1>1, <1>3 DEF Points
    <3> HIDE DEF new
    <3> QED
      BY <1>1, <1>2, <1>5, <2>4, <2>5, <3>1, <3>2
  <2>7. CASE th[t].next # Len(th[t].urls)
    <3> DEFINE later == th[t].next + 1
               new == [th[t] EXCEPT !.pc = "read", !.next = later]
    <3>1. th' = [th EXCEPT ![t] = new]
      <4>1. th' = [th EXCEPT ![t].pc = "read", ![t].next = later]
        BY <1>6, <2>7 DEF WriteItem
      <4> HIDE DEF later
      <4> QED
        BY <1>1, <1>3, <1>4, <4>1
    <3>2. later \in Nat /\ later \in 1..Len(th[t].urls)
      BY <1>2, <2>7
    <3> HIDE DEF later
    <3>3. new \in Thread /\ new.pc = "read" /\ new.op = th[t].op /\ new.steps = th[t].steps
          /\ new.urls = th[t].urls /\ new.next = later
      BY <1>1, <1>3, <3>2 DEF Points
    <3> HIDE DEF new
    <3> QED
      BY <1>1, <1>5, <2>4, <2>5, <3>1, <3>2, <3>3
  <2> QED
    BY <2>6, <2>7
<1>7. CASE ReadItem(t)
  <2> DEFINE count == draft[Item(t)]
             new == [th[t] EXCEPT !.pc = "write", !.number = count]
  <2>1. count \in Nat
    BY <1>2, <1>4
  <2>2. th' = [th EXCEPT ![t] = new]
    <3>1. th' = [th EXCEPT ![t].pc = "write", ![t].number = count]
      BY <1>7 DEF ReadItem
    <3> HIDE DEF count
    <3> QED
      BY <1>3, <1>4, <3>1
  <2> HIDE DEF count
  <2>3. new \in Thread /\ new.pc = "write" /\ new.op = th[t].op /\ new.steps = th[t].steps
        /\ new.urls = th[t].urls /\ new.next = th[t].next
    BY <1>1, <1>3, <2>1 DEF Points
  <2>4. tables' = tables /\ history' = history /\ lock' = lock /\ draft' = draft
    BY <1>7 DEF ReadItem, tables, history
  <2>5. lock \in Threads \union {NoThread}
    BY DEF IInv, TypeOK
  <2> HIDE DEF new
  <2> QED
    BY <1>1, <1>2, <1>4, <1>5, <2>2, <2>3, <2>4, <2>5
<1> QED
  BY <1>6, <1>7

\* The steps of threads that write nothing.
LEMMA QuietStepsKeep ==
    ASSUME IInv, NEW t \in Threads, Refused(t) \/ CommitLog(t) \/ LogRefused(t)
    PROVE  IInv'
<1>1. /\ UNCHANGED <<tables, draft, history>> /\ lock' \in {lock, NoThread}
  BY DEF Refused, CommitLog, LogRefused
<1>2. th[t] \in Thread
  BY ThreadTyped DEF IInv
<1>3. ASSUME NEW new \in Thread, th' = [th EXCEPT ![t] = new], new.pc \in {"idle", "log", "raised", "ended"},
             t \in Requests => new.op \in RequestOps /\ new.pc \in {"idle", "write", "ended"},
             t \in Runs /\ new.pc \in {"write", "read", "commit", "log"} => new.steps < MaxSteps
      PROVE  IInv'
  <2>1. /\ th' \in [Threads -> Thread]
        /\ \A q \in Requests : th'[q].op \in RequestOps /\ th'[q].pc \in {"idle", "write", "ended"}
        /\ StepsFit' /\ SeenFits'
        /\ th'[t] = new /\ \A q \in Threads \ {t} : th'[q] = th[q]
    BY <1>3, ThreadMoves DEF SeenFit
  <2>2. NumbersFit' /\ EditionsAreNumberedInOrder' /\ VersionTwinsAreStrangers'
    BY <1>1, <1>3, <2>1, OthersKeepNumbers DEF tables
  <2>3. TypeOK'
    BY <1>1, <2>1 DEF IInv, TypeOK, tables, history
  <2> QED
    BY <2>1, <2>2, <2>3 DEF IInv
<1>4. Thread = [pc : Points, op : Ops, number : Nat, row : Story, found : BOOLEAN,
                urls : Batches \union {<<>>}, next : Nat, steps : 0..MaxSteps]
  BY DEF Thread
<1>5. NoStory \in Story
  BY DEF NoStory, Story
<1>6. t \in Requests => t \notin Runs
  BY RunDataAssumption
<1>7. ASSUME th[t].pc \in {"write", "log"}, t \in Runs, th' = [th EXCEPT ![t].pc = "raised"]
      PROVE  IInv'
  <2> DEFINE new == [th[t] EXCEPT !.pc = "raised"]
  <2>1. new \in Thread /\ new.pc = "raised"
    BY <1>2, <1>4 DEF Points
  <2>2. th' = [th EXCEPT ![t] = new]
    BY <1>7
  <2> HIDE DEF new
  <2> QED
    BY <1>3, <1>6, <1>7, <2>1, <2>2
<1>8. CASE Refused(t)
  <2>1. CASE t \in Runs /\ th[t].op = "prompt"
    <3>1. th' = [th EXCEPT ![t].pc = "raised"] /\ th[t].pc = "write"
      BY <1>8, <2>1 DEF Refused, IInv, TypeOK
    <3> QED
      BY <1>7, <2>1, <3>1
  <2>2. CASE ~(t \in Runs /\ th[t].op = "prompt")
    <3>1. th' = [th EXCEPT ![t] = Returned(t)] /\ th[t].pc = "write"
      BY <1>8, <2>2 DEF Refused, IInv, TypeOK
    <3>2. /\ th' \in [Threads -> Thread]
          /\ \A q \in Requests : th'[q].op \in RequestOps /\ th'[q].pc \in {"idle", "write", "ended"}
          /\ StepsFit' /\ SeenFits'
          /\ th'[t].pc # "write" /\ \A q \in Threads \ {t} : th'[q] = th[q]
      BY <3>1, WriteMoves
    <3>3. NumbersFit' /\ EditionsAreNumberedInOrder' /\ VersionTwinsAreStrangers'
      BY <1>1, <3>2, OthersKeepNumbers DEF tables
    <3>4. TypeOK'
      BY <1>1, <3>2 DEF IInv, TypeOK, tables, history
    <3> QED
      BY <3>2, <3>3, <3>4 DEF IInv
  <2> QED
    BY <2>1, <2>2
<1>9. ASSUME th[t].pc = "log" PROVE t \in Runs /\ th[t].steps + 1 \in 0..MaxSteps
  <2>1. t \in Runs
    BY <1>9 DEF IInv, TypeOK, Threads
  <2>2. th[t].steps < MaxSteps /\ th[t].steps \in 0..MaxSteps
    BY <1>9, <2>1, ThreadTyped DEF IInv, StepsFit
  <2> QED
    BY <2>1, <2>2, RunDataAssumption
<1>10. CASE CommitLog(t)
  <2> DEFINE more == th[t].steps + 1
             new == [Idle EXCEPT !.steps = more]
  <2>1. th[t].pc = "log" /\ th' = [th EXCEPT ![t] = new]
    BY <1>10 DEF CommitLog
  <2>2. more \in 0..MaxSteps /\ t \in Runs
    BY <1>9, <2>1
  <2> HIDE DEF more
  <2>3. new \in Thread /\ new.pc = "idle"
    BY <1>4, <1>5, <2>2 DEF Idle, Ops, Points
  <2> HIDE DEF new
  <2> QED
    BY <1>3, <1>6, <2>1, <2>2, <2>3
<1>11. CASE LogRefused(t)
  BY <1>7, <1>9, <1>11 DEF LogRefused
<1> QED
  BY <1>8, <1>10, <1>11

LEMMA Inductive == Spec => []IInv
<1>1. Init => IInv
  <2> SUFFICES ASSUME Init PROVE IInv
    OBVIOUS
  <2>1. Idle \in Thread /\ Idle.pc = "idle" /\ Idle.op = "memory"
    BY RunDataAssumption DEF Idle, Thread, Ops, Points, NoStory, Story
  <2> HIDE DEF Idle
  <2>2. th = [t \in Threads |-> Idle] /\ \A t \in Requests : t \in Threads
    BY DEF Init, Threads
  <2>3. TypeOK
    <3>1. \A t \in Requests : th[t].op \in RequestOps /\ th[t].pc \in {"idle", "write", "ended"}
      BY <2>1, <2>2 DEF RequestOps
    <3>2. th \in [Threads -> Thread]
      BY <2>1, <2>2
    <3>3. hits \in [Urls -> Nat] /\ draft \in [Urls -> Nat] /\ recorded \in [Urls -> Nat]
      BY DEF Init
    <3>4. editions \in Seq(Nat) /\ story \in Story /\ told \in Seq(Entry)
      BY DEF Init, NoStory, Story
    <3>5. prompts \in Seq([version : Nat, by : Threads])
      <4> DEFINE R == [version : Nat, by : Threads]
      <4> HIDE DEF R
      <4>1. prompts \in Seq(R)
        BY DEF Init
      <4> QED
        BY <4>1 DEF R
    <3>6. memory = NoThread /\ lock = NoThread /\ overtaken = FALSE
      BY DEF Init
    <3> QED
      BY <3>1, <3>2, <3>3, <3>4, <3>5, <3>6 DEF TypeOK
  <2>4. NumbersFit /\ EditionsAreNumberedInOrder /\ VersionTwinsAreStrangers
    BY <2>1, <2>2 DEF Init, NumbersFit, EditionsAreNumberedInOrder, VersionTwinsAreStrangers
  <2>5. StepsFit
    BY <2>1, <2>2 DEF StepsFit, Threads
  <2>6. SeenFits
    BY <2>1, <2>2 DEF SeenFits, SeenFit
  <2> QED
    BY <2>3, <2>4, <2>5, <2>6 DEF IInv
<1>2. IInv /\ [Next]_vars => IInv'
  <2> SUFFICES ASSUME IInv, [Next]_vars PROVE IInv'
    OBVIOUS
  <2>1. ASSUME NEW t \in Threads, ThreadStep(t) PROVE IInv'
    BY <2>1, ReadKeeps, InsertEditionKeeps, InsertPromptKeeps, OtherWritesKeep,
       ItemStepsKeep, QuietStepsKeep
       DEF ThreadStep, Reads
  <2>2. ASSUME NEW t \in Requests, ServeAnother(t) PROVE IInv'
    BY <2>2 DEF ServeAnother, tables, history, IInv, TypeOK, EditionsAreNumberedInOrder,
                VersionTwinsAreStrangers, NumbersFit, StepsFit, SeenFits
  <2>3. CASE UNCHANGED vars
    BY <2>3 DEF vars, IInv, TypeOK, EditionsAreNumberedInOrder,
                VersionTwinsAreStrangers, NumbersFit, StepsFit, SeenFits
  <2> QED
    BY <2>1, <2>2, <2>3 DEF Next
<1> QED
  BY <1>1, <1>2, PTL DEF Spec

\* Every reachable state is well typed.
THEOREM TypeCorrect == Spec => []TypeOK
BY Inductive, PTL DEF IInv

\* However many runs and requests create editions at a time, their numbers are 1, 2, 3 ... in
\* the order of creation.
THEOREM EditionsInOrder == Spec => []EditionsAreNumberedInOrder
BY Inductive, PTL DEF IInv

\* However many threads record versions of one prompt, the numbers leave no gap, and two rows
\* with one number are of two threads.
THEOREM TwinsAreStrangers == Spec => []VersionTwinsAreStrangers
BY Inductive, PTL DEF IInv

-----------------------------------------------------------------------------
(* The stories and the lock. *)

\* A story has counted every tracked edition, and its change log has them in order but for a bare
\* first one, as long as no run wrote over a newer row.
THEOREM StoriesRemember == Spec => []StoryForgetsOnlyOverlaps
<1>1. Init => StoryForgetsOnlyOverlaps
  BY DEF Init, StoryForgetsOnlyOverlaps, NoStory, Logged
<1>2. IInv /\ StoryForgetsOnlyOverlaps /\ [Next]_vars => StoryForgetsOnlyOverlaps'
  <2> SUFFICES ASSUME IInv, StoryForgetsOnlyOverlaps, [Next]_vars PROVE StoryForgetsOnlyOverlaps'
    OBVIOUS
  <2>1. ASSUME NEW t \in Threads, NEW bare \in BOOLEAN, WriteStory(t, [by |-> t, bare |-> bare])
        PROVE  StoryForgetsOnlyOverlaps'
    <3> DEFINE entry == [by |-> t, bare |-> bare]
    <3> SUFFICES ASSUME ~overtaken' PROVE (story.count = Len(told) /\ story.log = Logged)'
      BY DEF StoryForgetsOnlyOverlaps
    <3>1. /\ ~overtaken /\ th[t].row = story
          /\ story' = Edition(story, entry) /\ told' = Append(told, entry)
      BY <2>1 DEF WriteStory
    <3>2. story.count = Len(told) /\ story.log = Logged
      BY <3>1 DEF StoryForgetsOnlyOverlaps
    <3>3. t \in Runs
      BY <2>1 DEF WriteStory, Writes, IInv, TypeOK, Threads, RequestOps
    <3>4. told \in Seq(Entry) /\ entry \in Entry /\ entry.bare = bare
      BY <3>3 DEF IInv, TypeOK, Entry
    <3> HIDE DEF entry
    <3>5. Len(told') = Len(told) + 1
      BY <3>1, <3>4
    <3>6. story'.count = Len(told')
      BY <3>1, <3>2, <3>5 DEF Edition
    <3>7. CASE told = <<>>
      <4>1. story.count = 0 /\ story.log = <<>>
        BY <3>2, <3>7 DEF Logged
      <4>2. told' = <<entry>> /\ Head(told') = entry /\ Tail(told') = <<>> /\ told' # <<>>
        BY <3>1, <3>4, <3>7
      <4>3. Append(story.log, entry) = <<entry>>
        BY <4>1
      <4>4. story'.log = IF entry.bare THEN <<>> ELSE <<entry>>
        BY <3>1, <4>1, <4>3 DEF Edition
      <4> QED
        BY <3>6, <4>2, <4>4 DEF Logged
    <3>8. CASE told # <<>>
      <4>1. story.count # 0
        BY <3>2, <3>4, <3>8
      <4>2. story'.log = Append(Logged, entry)
        BY <3>1, <3>2, <4>1 DEF Edition
      <4>3. Head(told') = Head(told) /\ Tail(told') = Append(Tail(told), entry) /\ told' # <<>>
        <5>1. Head(told') = Head(told) /\ Tail(told') = Append(Tail(told), entry)
          BY <3>1, <3>4, <3>8, HeadTailAppend
        <5> QED
          BY <3>1, <3>4, <5>1
      <4> QED
        BY <3>1, <3>6, <3>8, <4>2, <4>3 DEF Logged
    <3> QED
      BY <3>7, <3>8
  <2>2. CASE UNCHANGED <<story, told, overtaken>>
    BY <2>2 DEF StoryForgetsOnlyOverlaps, Logged
  <2>3. ASSUME NEW t \in Threads, ThreadStep(t) PROVE StoryForgetsOnlyOverlaps'
    BY <2>1, <2>2, <2>3 DEF ThreadStep, ReadEdition, ReadPrompt, ReadStory, ReadMemory, ReadSeen,
       InsertEdition, InsertPrompt, ReadItem, WriteItem, CommitSeen, WriteMemory, Conflict, Refused,
       CommitLog, LogRefused, tables, history
  <2>4. ASSUME NEW t \in Requests, ServeAnother(t) PROVE StoryForgetsOnlyOverlaps'
    BY <2>2, <2>4 DEF ServeAnother, tables, history
  <2> QED
    BY <2>2, <2>3, <2>4 DEF Next, vars
<1> QED
  BY <1>1, <1>2, Inductive, PTL DEF Spec

LEMMA LockKept ==
    ASSUME TypeOK, OnlyRequestsLeakTheLock, NEW t \in Threads,
           \A q \in Threads \ {t} : th'[q] = th[q], lock' = lock, lock # t
    PROVE  OnlyRequestsLeakTheLock'
<1>1. lock \in Threads \ {t} => th'[lock] = th[lock]
  OBVIOUS
<1> QED
  BY <1>1 DEF OnlyRequestsLeakTheLock, Threads

\* However many runs and requests collide: only a request whose INSERT broke a constraint keeps
\* SQLite's write lock; a run that holds it is about to commit, or in bulk_record()'s transaction.
THEOREM LockLeaks == Spec => []OnlyRequestsLeakTheLock
<1>1. Init => OnlyRequestsLeakTheLock
  BY RunDataAssumption DEF Init, OnlyRequestsLeakTheLock, Threads
<1>2. IInv /\ OnlyRequestsLeakTheLock /\ [Next]_vars => OnlyRequestsLeakTheLock'
  <2> SUFFICES ASSUME IInv, OnlyRequestsLeakTheLock, [Next]_vars PROVE OnlyRequestsLeakTheLock'
    OBVIOUS
  <2>1. TypeOK
    BY DEF IInv
  <2>2. ASSUME NEW t \in Threads, th[t].pc = "idle" \/ (th[t].pc = "write" /\ th[t].op # "seen")
        PROVE  lock # t
    BY <2>2 DEF OnlyRequestsLeakTheLock, Threads
  <2>3. ASSUME NEW t \in Threads, NEW new, th' = [th EXCEPT ![t] = new]
        PROVE  \A q \in Threads \ {t} : th'[q] = th[q]
    BY <2>1, <2>3 DEF TypeOK
  <2>4. ASSUME NEW t \in Threads, Reads(t) PROVE OnlyRequestsLeakTheLock'
    <3>1. PICK new : th' = [th EXCEPT ![t] = new]
      BY <2>4, Reading
    <3>2. th[t].pc = "idle" /\ lock' = lock
      BY <2>4, Reading
    <3>3. lock # t
      BY <3>2 DEF OnlyRequestsLeakTheLock, Threads
    <3>4. \A q \in Threads \ {t} : th'[q] = th[q]
      BY <2>1, <3>1 DEF TypeOK
    <3> QED
      BY <2>1, <3>2, <3>3, <3>4, LockKept
  <2>5. ASSUME NEW t \in Threads,
               \/ InsertEdition(t) \/ InsertPrompt(t) \/ WriteMemory(t)
               \/ \E bare \in BOOLEAN : WriteStory(t, [by |-> t, bare |-> bare])
        PROVE  OnlyRequestsLeakTheLock'
    <3>1. th[t].pc = "write" /\ th[t].op # "seen" /\ lock' = lock /\ th' = [th EXCEPT ![t] = Returned(t)]
      BY <2>5 DEF InsertEdition, InsertPrompt, WriteStory, WriteMemory, Writes, history
    <3>2. lock # t /\ \A q \in Threads \ {t} : th'[q] = th[q]
      BY <2>2, <2>3, <3>1
    <3> QED
      BY <2>1, <3>1, <3>2, LockKept
  <2>6. ASSUME NEW t \in Threads, Conflict(t) PROVE OnlyRequestsLeakTheLock'
    <3>1. th[t].pc = "write" /\ th' = [th EXCEPT ![t] = Returned(t)] /\ lock' = t /\ th[t].op # "prompt"
      BY <2>6 DEF Conflict, Conflicts, Writes
    <3>2. PICK new \in Thread : /\ th' = [th EXCEPT ![t] = new]
                                /\ new.pc = IF t \in Runs THEN "log" ELSE "ended"
                                /\ new.op = th[t].op
      BY <3>1, Returning
    <3>3. th'[t].pc = (IF t \in Runs THEN "log" ELSE "ended") /\ th'[t].op # "prompt"
      BY <2>1, <3>1, <3>2 DEF TypeOK
    <3> QED
      BY <3>1, <3>3, RunDataAssumption DEF OnlyRequestsLeakTheLock
  <2>7. ASSUME NEW t \in Threads, Refused(t) PROVE OnlyRequestsLeakTheLock'
    <3>1. th[t].pc = "write" /\ lock' = lock /\ \E new : th' = [th EXCEPT ![t] = new]
      BY <2>7 DEF Refused
    <3>2. lock # t
      BY <2>7 DEF Refused, OnlyRequestsLeakTheLock
    <3> QED
      BY <2>1, <2>3, <3>1, <3>2, LockKept
  <2>8. ASSUME NEW t \in Threads, CommitLog(t) \/ CommitSeen(t) PROVE OnlyRequestsLeakTheLock'
    BY <2>8, RunDataAssumption DEF CommitLog, CommitSeen, OnlyRequestsLeakTheLock, Threads
  <2>9. ASSUME NEW t \in Threads, LogRefused(t) PROVE OnlyRequestsLeakTheLock'
    <3>1. lock' = lock /\ \A q \in Threads \ {t} : th'[q] = th[q]
      BY <2>1, <2>9 DEF LogRefused, TypeOK
    <3>2. lock # t
      BY <2>9 DEF LogRefused, OnlyRequestsLeakTheLock
    <3> QED
      BY <2>1, <3>1, <3>2, LockKept
  <2>10. ASSUME NEW t \in Requests, ServeAnother(t) PROVE OnlyRequestsLeakTheLock'
    BY <2>10, RunDataAssumption DEF ServeAnother, OnlyRequestsLeakTheLock, Threads
  <2>11. CASE UNCHANGED vars
    BY <2>11 DEF vars, OnlyRequestsLeakTheLock
  <2>12. ASSUME NEW t \in Threads, WriteItem(t) \/ ReadItem(t) PROVE OnlyRequestsLeakTheLock'
    <3>1. /\ th'[t].pc \in {"write", "read", "commit"} /\ th'[t].op = "seen"
          /\ \A q \in Threads \ {t} : th'[q] = th[q]
      BY <2>12, ItemStepsKeep
    <3>2. t \in Runs /\ t \notin Requests
      <4>1. th[t].op = "seen" /\ th[t].pc \in {"write", "read", "commit"}
        BY <2>12 DEF WriteItem, ReadItem, IInv, SeenFits, SeenFit
      <4> QED
        BY <4>1, ItemTyped
    <3>3. lock' = t \/ lock' = lock
      BY <2>12 DEF WriteItem, ReadItem
    <3>4. CASE lock' = t
      BY <3>1, <3>2, <3>4 DEF OnlyRequestsLeakTheLock
    <3>5. CASE lock' = lock /\ lock # t
      BY <2>1, <3>1, <3>5, LockKept
    <3> QED
      BY <3>3, <3>4, <3>5
  <2> QED
    BY <2>4, <2>5, <2>6, <2>7, <2>8, <2>9, <2>10, <2>11, <2>12 DEF Next, ThreadStep, Reads
<1> QED
  BY <1>1, <1>2, Inductive, PTL DEF Spec

-----------------------------------------------------------------------------
(* The counters of seen URLs. *)

\* How often a URL is among the first n items.
CountUpTo(urls, n, u) == Cardinality({i \in 1..n : urls[i] = u})

LEMMA CountingUp ==
    ASSUME NEW urls \in Seq(Urls), NEW u
    PROVE  /\ CountUpTo(urls, 0, u) = 0
           /\ CountUpTo(urls, Len(urls), u) = CountIn(urls, u)
           /\ \A n \in 1..Len(urls) :
                 /\ CountUpTo(urls, n - 1, u) \in Nat
                 /\ CountUpTo(urls, n, u) =
                       CountUpTo(urls, n - 1, u) + IF urls[n] = u THEN 1 ELSE 0
<1>1. CountUpTo(urls, 0, u) = 0
  <2>1. {i \in 1..0 : urls[i] = u} = {}
    OBVIOUS
  <2> QED
    BY <2>1, FS_EmptySet DEF CountUpTo
<1>2. CountUpTo(urls, Len(urls), u) = CountIn(urls, u)
  <2>1. DOMAIN urls = 1..Len(urls)
    OBVIOUS
  <2> QED
    BY <2>1 DEF CountUpTo, CountIn
<1>3. ASSUME NEW n \in 1..Len(urls)
      PROVE  /\ CountUpTo(urls, n - 1, u) \in Nat
             /\ CountUpTo(urls, n, u) = CountUpTo(urls, n - 1, u) + IF urls[n] = u THEN 1 ELSE 0
  <2> DEFINE Before == {i \in 1..(n - 1) : urls[i] = u}
             Upto == {i \in 1..n : urls[i] = u}
  <2>1. n \in Nat \ {0} /\ n - 1 \in Nat
    OBVIOUS
  <2>2. IsFiniteSet(1..(n - 1)) /\ Before \in SUBSET (1..(n - 1))
    BY <2>1, FS_Interval
  <2>3. n \notin Before /\ Upto = IF urls[n] = u THEN Before \union {n} ELSE Before
    BY <2>1
  <2> HIDE DEF Before, Upto
  <2>4. IsFiniteSet(Before) /\ Cardinality(Before) \in Nat
    BY <2>2, FS_Subset, FS_CardinalityType
  <2>5. Cardinality(Before \union {n}) = Cardinality(Before) + 1
    BY <2>3, <2>4, FS_AddElement
  <2>6. Cardinality(Upto) = Cardinality(Before) + IF urls[n] = u THEN 1 ELSE 0
    BY <2>3, <2>4, <2>5
  <2> QED
    BY <2>4, <2>6 DEF CountUpTo, Before, Upto
<1> QED
  BY <1>1, <1>2, <1>3

\* How many items of its batch a thread has written.
Done(r) == IF r.pc = "commit" THEN Len(r.urls) ELSE r.next - 1

\* The strengthening: the lock is with the thread past its first item, and what its transaction
\* sees is what is committed and the items it has written.
DraftFit(t) ==
    th[t].op = "seen" =>
        /\ th[t].pc = "write" /\ lock # t => th[t].next = 1
        /\ th[t].pc \in {"read", "commit"} => lock = t
        /\ th[t].pc \in {"write", "read", "commit"} /\ lock = t =>
              \A u \in Urls : draft[u] = hits[u] + CountUpTo(th[t].urls, Done(th[t]), u)

DraftsFit == \A t \in Threads : DraftFit(t)

LEMMA DraftOthers ==
    ASSUME DraftsFit, NEW t \in Threads,
           \A q \in Threads \ {t} : th'[q] = th[q],
           \/ lock' = lock /\ draft' = draft /\ hits' = hits
           \/ lock \in {NoThread, t} /\ lock' \in {NoThread, t},
           DraftFit(t)'
    PROVE  DraftsFit'
<1> SUFFICES ASSUME NEW q \in Threads, q # t PROVE DraftFit(q)'
  BY DEF DraftsFit
<1>1. DraftFit(q) /\ th'[q] = th[q] /\ q # NoThread
  BY RunDataAssumption DEF DraftsFit
<1>2. CASE lock' = lock /\ draft' = draft /\ hits' = hits
  BY <1>1, <1>2 DEF DraftFit
<1>3. CASE lock \in {NoThread, t} /\ lock' \in {NoThread, t}
  BY <1>1, <1>3 DEF DraftFit
<1> QED
  BY <1>2, <1>3

\* A write adds one to what the transaction has seen of its item.
LEMMA ItemWritten ==
    ASSUME IInv, DraftsFit, NEW t \in Threads, WriteItem(t)
    PROVE  DraftFit(t)'
<1> DEFINE urls == th[t].urls
           n == th[t].next
           item == Item(t)
<1>1. th[t].op = "seen" /\ th[t].pc = "write" /\ lock' = t /\ lock \in {NoThread, t} /\ t # NoThread
  BY RunDataAssumption DEF WriteItem
<1>2. urls \in Seq(Urls) /\ n \in 1..Len(urls) /\ item \in Urls /\ item = urls[n]
  BY <1>1, ItemTyped DEF Item
<1>3. hits \in [Urls -> Nat] /\ draft \in [Urls -> Nat] /\ th[t].number \in Nat /\ hits' = hits
  BY ThreadTyped DEF WriteItem, IInv, TypeOK, tables
<1>4. View(t) \in [Urls -> Nat]
  BY <1>3 DEF View
<1>5. \A u \in Urls : View(t)[u] = hits[u] + CountUpTo(urls, n - 1, u)
  <2>1. CASE lock = t
    BY <1>1, <2>1 DEF DraftsFit, DraftFit, View, Done
  <2>2. CASE lock # t
    <3>1. n = 1 /\ View(t) = hits
      BY <1>1, <2>2 DEF DraftsFit, DraftFit, View
    <3>2. n - 1 = 0
      BY <3>1
    <3>3. \A u \in Urls : CountUpTo(urls, n - 1, u) = 0
      BY <1>2, <3>2, CountingUp
    <3> QED
      BY <1>3, <3>1, <3>3
  <2> QED
    BY <2>1, <2>2
<1>6. Hit(View(t)[item], th[t].number) = View(t)[item] + 1
  BY <1>2, <1>3, <1>4 DEF WriteItem, Hit
<1>7. draft' = [View(t) EXCEPT ![item] = View(t)[item] + 1]
  BY <1>6 DEF WriteItem
<1>8. \A u \in Urls : draft'[u] = hits[u] + CountUpTo(urls, n, u)
  <2> SUFFICES ASSUME NEW u \in Urls PROVE draft'[u] = hits[u] + CountUpTo(urls, n, u)
    OBVIOUS
  <2>1. /\ CountUpTo(urls, n - 1, u) \in Nat
        /\ CountUpTo(urls, n, u) = CountUpTo(urls, n - 1, u) + IF urls[n] = u THEN 1 ELSE 0
    BY <1>2, CountingUp
  <2>2. draft'[u] = View(t)[u] + IF item = u THEN 1 ELSE 0
    BY <1>2, <1>4, <1>7
  <2> HIDE DEF urls, n, item
  <2> QED
    BY <1>2, <1>3, <1>5, <2>1, <2>2
<1>9. th'[t].op = "seen" /\ th'[t].urls = urls /\ Done(th'[t]) = n /\ th'[t].pc \in {"read", "commit"}
  <2>1. th \in [Threads -> Thread] /\ th[t] \in Thread
    BY ThreadTyped DEF IInv, TypeOK
  <2>2. /\ th'[t].pc = IF n = Len(urls) THEN "commit" ELSE "read"
        /\ th'[t].next = IF n = Len(urls) THEN n ELSE n + 1
        /\ th'[t].op = th[t].op /\ th'[t].urls = th[t].urls
    BY <2>1 DEF WriteItem, Thread
  <2> HIDE DEF n
  <2>3. CASE n = Len(urls)
    BY <1>1, <2>2, <2>3 DEF Done
  <2>4. CASE n # Len(urls)
    <3>1. n \in Nat /\ (n + 1) - 1 = n
      BY <1>2
    <3> QED
      BY <1>1, <2>2, <2>4, <3>1 DEF Done
  <2> QED
    BY <2>3, <2>4
<1> HIDE DEF urls, n, item
<1> QED
  BY <1>1, <1>3, <1>8, <1>9 DEF DraftFit

\* hit_count tells how often a URL was recorded, for any number of runs and any batches: the value
\* read before the lock was taken only tells UPDATE from INSERT.
THEOREM HitsConserved == Spec => []HitsAreConserved
<1> DEFINE HInv == HitsAreConserved /\ DraftsFit
<1>1. Init => HInv
  BY DEF Init, HitsAreConserved, DraftsFit, DraftFit, Idle
<1>2. IInv /\ OnlyRequestsLeakTheLock /\ HInv /\ [Next]_vars => HInv'
  <2> SUFFICES ASSUME IInv, OnlyRequestsLeakTheLock, HInv, [Next]_vars PROVE HInv'
    OBVIOUS
  <2>1. th \in [Threads -> Thread] /\ hits \in [Urls -> Nat]
    BY DEF IInv, TypeOK
  <2>2. ASSUME NEW t \in Threads, Reads(t) PROVE HInv'
    <3>1. PICK new \in Thread :
             /\ th' = [th EXCEPT ![t] = new]
             /\ new.pc = "write"
             /\ new.op = "seen" => new.next = 1
      BY <2>2, Reading
    <3>2. th[t].pc = "idle" /\ UNCHANGED <<tables, draft, lock, history>>
      BY <2>2, Reading
    <3>3. lock # t
      BY <3>2 DEF OnlyRequestsLeakTheLock, Threads
    <3>4. th'[t] = new /\ \A q \in Threads \ {t} : th'[q] = th[q]
      BY <2>1, <3>1
    <3>5. hits' = hits /\ recorded' = recorded /\ lock' = lock /\ draft' = draft
      BY <3>2 DEF tables, history
    <3>6. DraftFit(t)'
      BY <3>1, <3>3, <3>4, <3>5 DEF DraftFit
    <3> QED
      BY <3>4, <3>5, <3>6, DraftOthers DEF HitsAreConserved
  <2>3. ASSUME NEW t \in Threads, WriteItem(t) PROVE HInv'
    <3>1. DraftFit(t)'
      BY <2>3, ItemWritten
    <3>2. \A q \in Threads \ {t} : th'[q] = th[q]
      BY <2>3, ItemStepsKeep
    <3>3. hits' = hits /\ recorded' = recorded /\ lock \in {NoThread, t} /\ lock' \in {NoThread, t}
      BY <2>3 DEF WriteItem, tables, history
    <3> QED
      BY <3>1, <3>2, <3>3, DraftOthers DEF HitsAreConserved
  <2>4. ASSUME NEW t \in Threads, ReadItem(t) PROVE HInv'
    <3>1. hits' = hits /\ recorded' = recorded /\ lock' = lock /\ draft' = draft
      BY <2>4 DEF ReadItem, tables, history
    <3>2. \A q \in Threads \ {t} : th'[q] = th[q]
      BY <2>4, ItemStepsKeep
    <3>3. th[t].pc = "read" /\ th[t].op = "seen"
      BY <2>4 DEF ReadItem, IInv, SeenFits, SeenFit
    <3>4. /\ th'[t].pc = "write" /\ th'[t].op = th[t].op
          /\ th'[t].urls = th[t].urls /\ th'[t].next = th[t].next
      BY <2>1, <2>4 DEF ReadItem, Thread
    <3>5. Done(th'[t]) = Done(th[t])
      BY <3>3, <3>4 DEF Done
    <3>6. DraftFit(t)'
      BY <3>1, <3>3, <3>4, <3>5 DEF DraftsFit, DraftFit
    <3> QED
      BY <3>1, <3>2, <3>6, DraftOthers DEF HitsAreConserved
  <2>5. ASSUME NEW t \in Threads, th' = [th EXCEPT ![t] = Returned(t)] PROVE
               DraftFit(t)' /\ \A q \in Threads \ {t} : th'[q] = th[q]
    <3>1. th'[t].pc \in {"log", "ended"}
      BY <2>1, <2>5 DEF Returned, Idle
    <3>2. \A q \in Threads \ {t} : th'[q] = th[q]
      BY <2>1, <2>5
    <3> QED
      BY <3>1, <3>2 DEF DraftFit
  <2>6. ASSUME NEW t \in Threads, CommitSeen(t) PROVE HInv'
    <3>1. /\ th[t].pc = "commit" /\ hits' = draft /\ lock' = NoThread
          /\ th' = [th EXCEPT ![t] = Returned(t)]
          /\ recorded' = [u \in Urls |-> recorded[u] + CountIn(th[t].urls, u)]
      BY <2>6 DEF CommitSeen
    <3>2. th[t].op = "seen"
      BY <3>1 DEF IInv, SeenFits, SeenFit
    <3>3. th[t].urls \in Seq(Urls)
      BY <3>1, <3>2, ItemTyped
    <3>4. lock = t /\ \A u \in Urls : draft[u] = hits[u] + CountIn(th[t].urls, u)
      <4>1. lock = t /\ Done(th[t]) = Len(th[t].urls)
        BY <3>1, <3>2 DEF DraftsFit, DraftFit, Done
      <4>2. \A u \in Urls : draft[u] = hits[u] + CountUpTo(th[t].urls, Len(th[t].urls), u)
        BY <3>1, <3>2, <4>1 DEF DraftsFit, DraftFit
      <4> QED
        BY <3>3, <4>1, <4>2, CountingUp
    <3>5. hits' = recorded'
      <4>1. draft \in [Urls -> Nat]
        BY DEF IInv, TypeOK
      <4>2. draft = [u \in Urls |-> hits[u] + CountIn(th[t].urls, u)]
        BY <3>4, <4>1
      <4> QED
        BY <3>1, <4>2 DEF HitsAreConserved
    <3>6. DraftsFit'
      BY <2>5, <3>1, <3>4, DraftOthers
    <3> QED
      BY <3>5, <3>6 DEF HitsAreConserved
  <2>7. ASSUME NEW t \in Threads,
               \/ InsertEdition(t) \/ InsertPrompt(t) \/ WriteMemory(t) \/ Conflict(t)
               \/ \E bare \in BOOLEAN : WriteStory(t, [by |-> t, bare |-> bare])
        PROVE  HInv'
    <3>1. /\ th' = [th EXCEPT ![t] = Returned(t)] /\ hits' = hits /\ recorded' = recorded
          /\ draft' = draft /\ lock = NoThread /\ lock' \in {NoThread, t}
      BY <2>7 DEF InsertEdition, InsertPrompt, WriteStory, WriteMemory, Conflict, Writes, tables, history
    <3> QED
      BY <2>5, <3>1, DraftOthers DEF HitsAreConserved
  <2>8. ASSUME NEW t \in Threads, Refused(t) \/ CommitLog(t) \/ LogRefused(t) PROVE HInv'
    <3>1. hits' = hits /\ recorded' = recorded /\ draft' = draft
      BY <2>8 DEF Refused, CommitLog, LogRefused, tables, history
    <3>5. lock' = lock \/ (lock \in {NoThread, t} /\ lock' \in {NoThread, t})
      BY <2>8 DEF Refused, CommitLog, LogRefused
    <3>2. \A q \in Threads \ {t} : th'[q] = th[q]
      BY <2>1, <2>8 DEF Refused, CommitLog, LogRefused
    <3>3. th'[t].pc \in {"log", "ended", "raised", "idle"}
      <4>1. CASE Refused(t)
        BY <2>1, <4>1 DEF Refused, Returned, Idle, Thread
      <4>2. CASE CommitLog(t)
        BY <2>1, <4>2 DEF CommitLog, Idle
      <4>3. CASE LogRefused(t)
        BY <2>1, <4>3 DEF LogRefused, Thread
      <4> QED
        BY <2>8, <4>1, <4>2, <4>3
    <3>4. DraftFit(t)'
      BY <3>3 DEF DraftFit
    <3> QED
      BY <3>1, <3>2, <3>4, <3>5, DraftOthers DEF HitsAreConserved
  <2>9. ASSUME NEW t \in Requests, ServeAnother(t) PROVE HInv'
    <3>1. /\ th' = th /\ hits' = hits /\ recorded' = recorded /\ lock = t /\ lock' = NoThread
          /\ th[t].pc = "ended" /\ t \in Threads
      BY <2>9 DEF ServeAnother, tables, history, Threads
    <3>2. DraftFit(t)'
      BY <3>1 DEF DraftFit
    <3> QED
      BY <3>1, <3>2, DraftOthers DEF HitsAreConserved
  <2>10. CASE UNCHANGED vars
    BY <2>10 DEF vars, HitsAreConserved, DraftsFit, DraftFit
  <2> HIDE DEF HInv
  <2> QED
    BY <2>2, <2>3, <2>4, <2>6, <2>7, <2>8, <2>9, <2>10 DEF Next, ThreadStep, Reads
<1>3. HInv => HitsAreConserved
  OBVIOUS
<1> HIDE DEF HInv
<1> QED
  BY <1>1, <1>2, <1>3, Inductive, LockLeaks, PTL DEF Spec

=============================================================================
