------------------------------ MODULE RunData ------------------------------
(***************************************************************************)
(* The tables that outlive a run: editions, prompt versions, stories, run  *)
(* memory and seen URLs (registry/engine.py, prompt_versioning.py,         *)
(* stories_engine.py, run_memory.py, seen_store.py), written by the        *)
(* threads of workflow_executor.py and by request handlers.                *)
(*                                                                         *)
(* Every operation reads in autocommit mode and then writes and commits.   *)
(* A connection belongs to its thread (database.py): an INSERT that breaks *)
(* a UNIQUE constraint raises with the transaction open and the write lock *)
(* held, until the next commit of the same thread.  bulk_record() has one  *)
(* transaction for all its items: its first write takes the lock.          *)
(***************************************************************************)
EXTENDS Naturals, Sequences, FiniteSetsExt, SequencesExt

CONSTANTS
    Runs,         \* threads that execute a run, step by step
    Requests,     \* threads of the server's pool that serve one request
    NoThread,     \* the write lock is free, a memory key has no row
    Urls,         \* URLs a tool may return
    Batches,      \* the lists of URLs of one tool step
    MaxSteps      \* bound: steps of a run

Threads == Runs \union Requests

ASSUME RunDataAssumption ==
    /\ Runs \intersect Requests = {}
    /\ NoThread \notin Threads
    /\ Batches \subseteq Seq(Urls)
    /\ <<>> \notin Batches
    /\ MaxSteps \in Nat

VARIABLES
    editions,   \* edition_number of the rows of wf_editions, oldest first
    prompts,    \* the rows of prompt_versions of one step, oldest first
    story,      \* edition_count and change log of one row of wf_stories; count 0: no such row
    memory,     \* who wrote one key of wf_memory last
    hits,       \* hit_count of the rows of wf_seen_store; 0: no such row
    draft,      \* hit_count as the transaction of bulk_record() sees it, not committed yet
    lock,       \* the thread whose transaction holds SQLite's write lock
    th,         \* the threads: program counter and locals
    recorded,   \* history: how often a recording of each URL has returned
    told,       \* history: the tracked editions of the story, in order
    overtaken   \* history: has a story been written over a newer row?

tables == <<editions, prompts, story, memory, hits>>
history == <<recorded, told, overtaken>>
vars == <<editions, prompts, story, memory, hits, draft, lock, th, recorded, told, overtaken>>

Ops == {"edition", "prompt", "story", "memory", "seen"}
RequestOps == {"edition", "prompt", "memory"}

NoStory == [count |-> 0, log |-> <<>>]

\* number: MAX + 1, or the hit_count that was read; row: the story that was read; found: was
\* there a row?; urls, next: a batch and the item bulk_record() has come to.
Idle == [pc |-> "idle", op |-> "memory", number |-> 0, row |-> NoStory, found |-> FALSE,
         urls |-> <<>>, next |-> 1, steps |-> 0]

Init ==
    /\ editions = <<>> /\ prompts = <<>> /\ story = NoStory
    /\ memory = NoThread
    /\ hits = [u \in Urls |-> 0] /\ draft = hits
    /\ lock = NoThread
    /\ th = [t \in Threads |-> Idle]
    /\ recorded = [u \in Urls |-> 0]
    /\ told = <<>>
    /\ overtaken = FALSE

(***************************************************************************)
(* Reading                                                                 *)
(***************************************************************************)

NextNumber(numbers) == 1 + IF numbers = <<>> THEN 0 ELSE Max(Range(numbers))

Versions == [i \in DOMAIN prompts |-> prompts[i].version]

Starts(t) ==
    /\ th[t].pc = "idle"
    /\ t \in Runs => th[t].steps < MaxSteps

\* EditionRegistry._get_next_number()
ReadEdition(t) ==
    /\ Starts(t)
    /\ th' = [th EXCEPT ![t].pc = "write", ![t].op = "edition", ![t].number = NextNumber(editions)]
    /\ UNCHANGED <<tables, draft, lock, history>>

\* Mutant: a version is numbered from the first version.
ReadPromptFirst(t) ==
    /\ Starts(t)
    /\ th' = [th EXCEPT ![t].pc = "write", ![t].op = "prompt",
                        ![t].number = IF prompts = <<>> THEN 1 ELSE prompts[1].version + 1]
    /\ UNCHANGED <<tables, draft, lock, history>>

\* PromptVersionManager.record_version(), by a step, a request or a rollback
ReadPrompt(t) ==
    /\ Starts(t)
    /\ th' = [th EXCEPT ![t].pc = "write", ![t].op = "prompt", ![t].number = NextNumber(Versions)]
    /\ UNCHANGED <<tables, draft, lock, history>>

\* StoriesEngine.find_or_create(): called by runs only.
ReadStory(t) ==
    /\ t \in Runs /\ Starts(t)
    /\ th' = [th EXCEPT ![t].pc = "write", ![t].op = "story", ![t].row = story]
    /\ UNCHANGED <<tables, draft, lock, history>>

ReadMemory(t) ==
    /\ Starts(t)
    /\ th' = [th EXCEPT ![t].pc = "write", ![t].op = "memory", ![t].found = (memory # NoThread)]
    /\ UNCHANGED <<tables, draft, lock, history>>

\* SeenStore.bulk_record(): the row of the first item is looked for in autocommit mode.
ReadSeen(t, urls) ==
    /\ t \in Runs /\ Starts(t)
    /\ th' = [th EXCEPT ![t].pc = "write", ![t].op = "seen", ![t].urls = urls,
                        ![t].next = 1, ![t].number = hits[Head(urls)]]
    /\ UNCHANGED <<tables, draft, lock, history>>

Item(t) == th[t].urls[th[t].next]

\* The rows of the others are looked for in the transaction that the first write has begun.
ReadItem(t) ==
    /\ th[t].pc = "read"
    /\ th' = [th EXCEPT ![t].pc = "write", ![t].number = draft[Item(t)]]
    /\ UNCHANGED <<tables, draft, lock, history>>

(***************************************************************************)
(* Writing: a statement that takes the lock, and its commit                *)
(***************************************************************************)

\* The thread of a run goes on to the next commit of its run, a request ends.
Returned(t) == [Idle EXCEPT !.pc = IF t \in Runs THEN "log" ELSE "ended",
                            !.op = th[t].op, !.steps = th[t].steps]

Writes(t, op) ==
    /\ th[t].pc = "write" /\ th[t].op = op
    /\ lock = NoThread
    /\ th' = [th EXCEPT ![t] = Returned(t)]

\* Mutant: the column has no UNIQUE constraint.
NumberEverFree(n) == FALSE
NumberTaken(n) == n \in Range(editions)

\* EditionRegistry.create(): the INSERT and its commit.
InsertEdition(t) ==
    /\ Writes(t, "edition")
    /\ ~NumberTaken(th[t].number)
    /\ editions' = Append(editions, th[t].number)
    /\ UNCHANGED <<prompts, story, memory, hits, draft, lock, history>>

InsertPrompt(t) ==
    /\ Writes(t, "prompt")
    /\ prompts' = Append(prompts, [version |-> th[t].number, by |-> t])
    /\ UNCHANGED <<editions, story, memory, hits, draft, lock, history>>

\* Mutant: a new edition of a story starts its change log afresh.
EditionAfresh(row, entry) == [count |-> row.count + 1, log |-> <<entry>>]

\* A first edition without headline and body (bare) gets an empty change log.
Edition(row, entry) ==
    [count |-> row.count + 1,
     log   |-> IF row.count = 0 /\ entry.bare THEN <<>> ELSE Append(row.log, entry)]

\* An UPDATE by id of the row that was read, or an INSERT of a new story.
WriteStory(t, entry) ==
    /\ Writes(t, "story")
    /\ th[t].row.count > 0 \/ story.count = 0
    /\ story' = Edition(th[t].row, entry)
    /\ told' = Append(told, entry)
    /\ overtaken' = (overtaken \/ th[t].row # story)
    /\ UNCHANGED <<editions, prompts, memory, hits, draft, lock, recorded>>

\* RunMemory.set(): no row is deleted, so an UPDATE always meets one.
WriteMemory(t) ==
    /\ Writes(t, "memory")
    /\ th[t].found \/ memory = NoThread
    /\ memory' = t
    /\ UNCHANGED <<editions, prompts, story, hits, draft, lock, history>>

CountIn(urls, u) == Cardinality({i \in DOMAIN urls : urls[i] = u})

\* What the transaction of t has to begin with: its own rows, or those that are committed.
View(t) == IF lock = t THEN draft ELSE hits

\* Mutant: the UPDATE adds to the hit_count that was read.
HitRead(stored, read) == read + 1

\* UPDATE ... SET hit_count = hit_count + 1, or an INSERT of hit_count 1.
Hit(stored, read) == IF read > 0 THEN stored + 1 ELSE 1

\* The first write takes the lock; only then, the row that was not found may exist.
WriteItem(t) ==
    /\ th[t].pc = "write" /\ th[t].op = "seen"
    /\ lock \in {NoThread, t}
    /\ th[t].number > 0 \/ View(t)[Item(t)] = 0
    /\ lock' = t
    /\ draft' = [View(t) EXCEPT ![Item(t)] = Hit(@, th[t].number)]
    /\ LET last == th[t].next = Len(th[t].urls)
       IN  th' = [th EXCEPT ![t].pc = IF last THEN "commit" ELSE "read",
                            ![t].next = IF last THEN @ ELSE @ + 1]
    /\ UNCHANGED <<tables, history>>

CommitSeen(t) ==
    /\ th[t].pc = "commit"
    /\ hits' = draft
    /\ lock' = NoThread
    /\ th' = [th EXCEPT ![t] = Returned(t)]
    /\ recorded' = [u \in Urls |-> recorded[u] + CountIn(th[t].urls, u)]
    /\ UNCHANGED <<editions, prompts, story, memory, draft, told, overtaken>>

\* Another thread inserted the row since it was looked for.
Conflicts(t) ==
    \/ th[t].op = "edition" /\ NumberTaken(th[t].number)
    \/ th[t].op = "story" /\ th[t].row.count = 0 /\ story.count > 0
    \/ th[t].op = "memory" /\ ~th[t].found /\ memory # NoThread
    \/ th[t].op = "seen" /\ th[t].number = 0 /\ hits[Item(t)] > 0

\* IntegrityError: nothing is written, and nobody rolls back.
Conflict(t) ==
    /\ Writes(t, th[t].op)
    /\ Conflicts(t)
    /\ lock' = t
    /\ UNCHANGED <<tables, draft, history>>

\* A wait for the lock ends in "database is locked" when its holder has nothing more to do;
\* only the version of a prompt is recorded where execute() catches nothing.
Refused(t) ==
    /\ th[t].pc = "write"
    /\ lock \in Requests
    /\ th' = [th EXCEPT ![t] = IF t \in Runs /\ @.op = "prompt" THEN [@ EXCEPT !.pc = "raised"]
                               ELSE Returned(t)]
    /\ UNCHANGED <<tables, draft, lock, history>>

(***************************************************************************)
(* What threads do next                                                    *)
(***************************************************************************)

\* Mutant: the step's log is committed on a connection of its own.
CommitLogElsewhere(t) ==
    /\ th[t].pc = "log"
    /\ th' = [th EXCEPT ![t] = [Idle EXCEPT !.steps = th[t].steps + 1]]
    /\ UNCHANGED <<tables, draft, lock, history>>

\* update_step_log(), or the next create_step_log() when only a warning was logged.
CommitLog(t) ==
    /\ th[t].pc = "log"
    /\ lock \in {NoThread, t}
    /\ lock' = NoThread
    /\ th' = [th EXCEPT ![t] = [Idle EXCEPT !.steps = th[t].steps + 1]]
    /\ UNCHANGED <<tables, draft, history>>

\* The log cannot be written either: execute() raises.
LogRefused(t) ==
    /\ th[t].pc = "log"
    /\ lock \in Requests
    /\ th' = [th EXCEPT ![t].pc = "raised"]
    /\ UNCHANGED <<tables, draft, lock, history>>

\* The pool gives the thread another request that commits.
ServeAnother(t) ==
    /\ th[t].pc = "ended"
    /\ lock = t
    /\ lock' = NoThread
    /\ UNCHANGED <<tables, draft, th, history>>

ThreadStep(t) ==
    \/ ReadEdition(t) \/ ReadPrompt(t) \/ ReadStory(t) \/ ReadMemory(t)
    \/ \E urls \in Batches : ReadSeen(t, urls)
    \/ InsertEdition(t) \/ InsertPrompt(t) \/ WriteMemory(t)
    \/ \E bare \in BOOLEAN : WriteStory(t, [by |-> t, bare |-> bare])
    \/ WriteItem(t) \/ ReadItem(t) \/ CommitSeen(t)
    \/ Conflict(t) \/ Refused(t) \/ CommitLog(t) \/ LogRefused(t)

Next ==
    \/ \E t \in Threads : ThreadStep(t)
    \/ \E t \in Requests : ServeAnother(t)

Spec == Init /\ [][Next]_vars

\* A thread of a run is scheduled; whether a request thread is used again is not known.
FairSpec == Spec /\ \A t \in Runs : WF_vars(ThreadStep(t))

(***************************************************************************)
(* Properties                                                              *)
(***************************************************************************)

Entry == [by : Runs, bare : BOOLEAN]
Story == [count : Nat, log : Seq(Entry)]
Points == {"idle", "write", "read", "commit", "log", "raised", "ended"}
Thread == [pc : Points, op : Ops, number : Nat, row : Story, found : BOOLEAN,
           urls : Batches \union {<<>>}, next : Nat, steps : 0..MaxSteps]

\* The type invariant; a request only does what a handler offers.
TypeOK ==
    /\ editions \in Seq(Nat)
    /\ prompts \in Seq([version : Nat, by : Threads])
    /\ story \in Story
    /\ memory \in Threads \union {NoThread}
    /\ hits \in [Urls -> Nat] /\ draft \in [Urls -> Nat]
    /\ lock \in Threads \union {NoThread}
    /\ th \in [Threads -> Thread]
    /\ \A t \in Requests : th[t].op \in RequestOps /\ th[t].pc \in {"idle", "write", "ended"}
    /\ recorded \in [Urls -> Nat]
    /\ told \in Seq(Entry)
    /\ overtaken \in BOOLEAN

\* Editions are numbered 1, 2, 3 ... in the order in which they are created, however many
\* runs and requests read the same maximum: all but one of those fail (registry/engine.py:80).
EditionsAreNumberedInOrder == \A i \in DOMAIN editions : editions[i] = i

\* Versions of a prompt leave no gap; two rows with one version are of two threads, never of one
\* (prompt_versioning.py:71 reads the maximum outside the transaction of the INSERT).
VersionTwinsAreStrangers ==
    \A k \in DOMAIN prompts :
        /\ prompts[k].version > 1 => \E i \in 1..(k - 1) : prompts[i].version = prompts[k].version - 1
        /\ \A i \in 1..(k - 1) :
              prompts[i].version = prompts[k].version => prompts[i].by # prompts[k].by

\* hit_count tells how often a URL was recorded: the look at the first item is stale when the
\* lock is taken, but a batch is then refused as a whole, or counted on by the UPDATE; a batch
\* with new URLs, known URLs and a URL twice counts each of them (seen_store.py:212).
HitsAreConserved == hits = recorded

\* The editions that a change log should have: all but a first one without headline and body.
Logged == IF told # <<>> /\ Head(told).bare THEN Tail(told) ELSE told

\* A story counts every tracked edition and its change log has them in order, but for a bare
\* first one, unless a run wrote over a row that had changed since it was read
\* (stories_engine.py:139).
StoryForgetsOnlyOverlaps == ~overtaken => story.count = Len(told) /\ story.log = Logged

\* A thread that is not about to commit holds the write lock only if it is a request whose
\* INSERT broke a UNIQUE constraint (database.py:860); runs never leave the lock behind.
OnlyRequestsLeakTheLock ==
    /\ lock \in Runs => \/ th[lock].pc = "log"
                        \/ th[lock].op = "seen" /\ th[lock].pc \in {"write", "read", "commit"}
    /\ lock \in Requests => th[lock].pc = "ended" /\ th[lock].op # "prompt"

\* Every run ends, completed or raised, even while a request holds the lock for ever.
RunEnds == \A t \in Runs : <>(th[t].pc = "raised" \/ th[t].steps = MaxSteps)
=============================================================================
