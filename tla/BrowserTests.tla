----------------------------- MODULE BrowserTests -----------------------------
(***************************************************************************)
(* Browser tests of one VM (browser.rs, browser/environment.rs, the app    *)
(* lock of winboat/test_session.rs) with their runner (scripts/            *)
(* browser-runner.mjs, browser-parallel.mjs).  Each command runs one suite *)
(* under the app lock of the VM, in lanes, watches the environment, and    *)
(* commits what it found to a store that other commands prune and read.    *)
(*                                                                         *)
(* A command that is killed leaves its runner, which goes on until it      *)
(* notices that the observer is gone; nothing here speaks of its tests.    *)
(* Which files a run has, their sizes and what is in them are left out:    *)
(* a check of them passes or fails.                                        *)
(***************************************************************************)
EXTENDS Naturals, Sequences, FiniteSets

CONSTANTS
  TestCommands,      \* each runs one suite
  Suites,        \* the suites they may be given: for each test what it declares to use
  Scopes,        \* the data that a test declares to change and no other
  Lanes,         \* lanes of a runner, as far as the host has room for them
  Earlier,       \* runs that were in the store before
  Retention      \* runs that are kept, the same for all

\* A scope stands for a write that is verified to stay within it.
Resources == {"app-read", "data-write", "studio-ui", "vm-lifecycle"} \union Scopes

StoredRuns == TestCommands \union Earlier

ASSUME BrowserTestsAssumption ==
  /\ TestCommands \intersect Earlier = {} /\ IsFiniteSet(StoredRuns)
  /\ {"listing", "free"} \intersect TestCommands = {}
  /\ Suites \subseteq Seq(Resources)
  /\ Lanes \in Nat \ {0} /\ Retention \in Nat \ {0}

TestStates == {"pending", "running", "passing", "failing", "passed", "failed", "skipped"}

VARIABLES
  testing,     \* per command its step, its suite with the state of each test, whether the
               \* environment is not what it was ("changed") and the runner has "seen" it,
               \* or was it so "unseen" when the last test ended, and never since back
  appShared,   \* the commands that share the app lock
  appAlone,    \* the commands that hold it alone
  runDirs,     \* per run its directory
  changedSince,  \* per run those that were changed since it was, itself included; none of
               \* a run that was not indexed
  storeLock,   \* who holds the lock of the store
  listing      \* the step of a command that lists a run, and the run

testRunVars == <<testing, appShared, appAlone, runDirs, changedSince, storeLock, listing>>
appVars == <<appShared, appAlone>>
runStoreVars == <<runDirs, changedSince, storeLock>>

NoRun == "no run"
NoSuite == [at |-> "idle", suite |-> <<>>, tests |-> <<>>, changed |-> FALSE,
            seen |-> FALSE, unseen |-> FALSE, passed |-> FALSE, victims |-> {}]

BrowserTypeOK ==
  /\ \A c \in TestCommands :
       /\ testing[c].at \in {"idle", "wait", "stage", "run", "check", "commit", "prune",
                             "answered", "failed", "killed"}
       /\ testing[c].suite \in Suites \union {<<>>}
       /\ DOMAIN testing[c].tests = DOMAIN testing[c].suite
       /\ \A i \in DOMAIN testing[c].tests : testing[c].tests[i] \in TestStates
       /\ {testing[c].changed, testing[c].seen, testing[c].unseen, testing[c].passed}
            \subseteq BOOLEAN
       /\ testing[c].victims \subseteq StoredRuns
  /\ appShared \subseteq TestCommands /\ appAlone \subseteq TestCommands
  /\ runDirs \in [StoredRuns -> {"none", "staging", "whole", "half"}]
  /\ changedSince \in [StoredRuns -> SUBSET StoredRuns]
  /\ storeLock \in TestCommands \union {"listing", "free"}
  /\ listing \in [at : {"idle", "index", "verify", "listed"}, run : StoredRuns \union {NoRun}]

BrowserInit ==
  /\ testing = [c \in TestCommands |-> NoSuite]
  /\ appShared = {} /\ appAlone = {}
  /\ runDirs = [r \in StoredRuns |-> IF r \in Earlier THEN "whole" ELSE "none"]
  /\ \E order \in [Earlier -> SUBSET Earlier] :
       /\ \A r, s \in Earlier : (s \in order[r] <=> order[s] \subseteq order[r]) /\ r \in order[r]
       /\ \A r, s \in Earlier : r # s => (s \in order[r] <=> r \notin order[s])
       /\ changedSince = [r \in StoredRuns |-> IF r \in Earlier THEN order[r] ELSE {}]
  /\ storeLock = "free"
  /\ listing = [at |-> "idle", run |-> NoRun]

StepOf(c, step) == testing[c].at = step
CommandGoes(c, step) == testing' = [testing EXCEPT ![c].at = step]
EndsAs(c, step) == testing' = [testing EXCEPT ![c] = [NoSuite EXCEPT !.at = step]]

-----------------------------------------------------------------------------
(* The command, up to its runner *)

\* The observer takes its baseline before anything is waited for.
BeginTests(c) ==
  /\ StepOf(c, "idle")
  /\ \E s \in Suites :
       testing' = [testing EXCEPT ![c].at = "wait", ![c].suite = s,
                                  ![c].tests = [i \in DOMAIN s |-> "pending"]]
  /\ UNCHANGED <<appVars, runStoreVars, listing>>

IsRead(resource) == resource = "app-read"
ReadsOnly(c) == \A i \in DOMAIN testing[c].suite : IsRead(testing[c].suite[i])

\* Mutant: one test that only reads is enough to share the lock.
AcquireAppUseLoosely(c) ==
  /\ StepOf(c, "wait") /\ appAlone = {}
  /\ \/ /\ \E i \in DOMAIN testing[c].suite : IsRead(testing[c].suite[i])
        /\ appShared' = appShared \union {c} /\ UNCHANGED appAlone
     \/ /\ appShared = {} /\ appAlone' = {c} /\ UNCHANGED appShared
  /\ CommandGoes(c, "stage")
  /\ UNCHANGED <<runStoreVars, listing>>

\* acquire_app_use
AcquireAppUse(c) ==
  /\ StepOf(c, "wait") /\ appAlone = {}
  /\ \/ ReadsOnly(c) /\ appShared' = appShared \union {c} /\ UNCHANGED appAlone
     \/ ~ReadsOnly(c) /\ appShared = {} /\ appAlone' = {c} /\ UNCHANGED appShared
  /\ CommandGoes(c, "stage")
  /\ UNCHANGED <<runStoreVars, listing>>

\* The runner samples once before its first test.
StageAndRun(c) ==
  /\ StepOf(c, "stage") /\ runDirs' = [runDirs EXCEPT ![c] = "staging"]
  /\ testing' = [testing EXCEPT ![c].at = "run", ![c].seen = testing[c].changed]
  /\ UNCHANGED <<appVars, changedSince, storeLock, listing>>

-----------------------------------------------------------------------------
(* The runner *)

TestsIn(c, states) == {i \in DOMAIN testing[c].tests : testing[c].tests[i] \in states}

\* Mutant: a test that is told to end makes room at once.
InLaneUntilTold == {"running"}

InLane == {"running", "passing", "failing"}
Uses(c, i) == testing[c].suite[i]

\* ResourceScheduler.admits, with what the tests in the lanes hold
Beside(a, b) ==
  /\ {a, b} \intersect {"vm-lifecycle", "data-write"} = {}
  /\ a = b => IsRead(a)
Admits(c, i) == \A j \in TestsIn(c, InLane) : Beside(Uses(c, i), Uses(c, j))

\* Mutant: a test that has to be alone lets the tests behind it pass.
AdmissibleAhead(c) ==
  {i \in TestsIn(c, {"pending"}) : Cardinality(TestsIn(c, InLane)) < Lanes /\ Admits(c, i)}

Admissible(c) ==
  {i \in TestsIn(c, {"pending"}) :
     /\ Cardinality(TestsIn(c, InLane)) < Lanes /\ Admits(c, i)
     /\ \A j \in TestsIn(c, {"pending"}) : j < i => Uses(c, j) # "vm-lifecycle"}

TestBecomes(c, i, state) == testing' = [testing EXCEPT ![c].tests[i] = state]
RunnerLeaves == UNCHANGED <<appVars, runStoreVars, listing>>

\* admit: the first that may run, until none may.
AdmitTest(c) ==
  /\ StepOf(c, "run") /\ ~testing[c].seen /\ Admissible(c) # {}
  /\ \E i \in Admissible(c) : (\A j \in Admissible(c) : i <= j) /\ TestBecomes(c, i, "running")
  /\ RunnerLeaves

\* Its last step, or an error, its deadline or a change ended its steps.  A step that was not
\* waited for goes on in the page.
DecideTest(c) ==
  /\ StepOf(c, "run") /\ (testing[c].seen \/ Admissible(c) = {})
  /\ \E i \in TestsIn(c, {"running"}), state \in {"passing", "failing"} : TestBecomes(c, i, state)
  /\ RunnerLeaves

\* Only with its context its lane is free.
CloseContext(c) ==
  /\ StepOf(c, "run") /\ (testing[c].seen \/ Admissible(c) = {})
  /\ \E i \in TestsIn(c, {"passing", "failing"}) :
       testing' = [testing EXCEPT
         ![c].tests[i] = IF testing[c].tests[i] = "passing" THEN "passed" ELSE "failed",
         ![c].unseen = testing[c].changed]
  /\ RunnerLeaves

\* EnvironmentMonitor.sample, each second.  What cannot be observed is an event as well, and
\* an event stays.
SampleEnvironment(c) ==
  /\ StepOf(c, "run") /\ ~testing[c].seen
  /\ \E lost \in BOOLEAN :
       (lost \/ testing[c].changed) /\ testing' = [testing EXCEPT ![c].seen = TRUE]
  /\ RunnerLeaves

\* The tests that have not begun do not.  Those in the lanes are told to end.
InterruptTests(c) ==
  /\ StepOf(c, "run") /\ testing[c].seen /\ TestsIn(c, {"pending"}) # {}
  /\ testing' = [testing EXCEPT ![c].tests =
                    [i \in DOMAIN testing[c].tests |->
                       IF testing[c].tests[i] = "pending" THEN "skipped"
                       ELSE testing[c].tests[i]]]
  /\ RunnerLeaves

TestsOver(c) == StepOf(c, "run") /\ TestsIn(c, InLane \union {"pending"}) = {}
Verdict(c) == TestsIn(c, {"failed"}) = {}
Summary(c, seen) ==
  testing' = [testing EXCEPT ![c] = [NoSuite EXCEPT !.at = "check", !.unseen = testing[c].unseen,
                                                    !.passed = Verdict(c) /\ ~seen]]

\* Mutant: the last sample is the one of the last second.
FinishUnsampled(c) ==
  /\ TestsOver(c) /\ Summary(c, testing[c].seen)
  /\ RunnerLeaves

\* EnvironmentMonitor.finish, after the lanes are closed
FinishTests(c) ==
  /\ TestsOver(c)
  /\ \E lost \in BOOLEAN : Summary(c, testing[c].seen \/ lost \/ testing[c].changed)
  /\ RunnerLeaves

-----------------------------------------------------------------------------
(* What the command makes of it *)

ChangedLast(r) ==
  changedSince' = [s \in StoredRuns |->
    IF s = r THEN {r} ELSE IF changedSince[s] = {} THEN {} ELSE changedSince[s] \union {r}]
Forgotten(r) ==
  changedSince' = [s \in StoredRuns |-> IF s = r THEN {} ELSE changedSince[s] \ {r}]
LeavesApp(c) == appShared' = appShared \ {c} /\ appAlone' = appAlone \ {c}

\* The app is busy, the runner fails, or what it left is not what it says.  The guard takes the
\* staging along.
TestsFail(c) ==
  /\ testing[c].at \in {"wait", "stage", "run", "check", "commit"}
  /\ EndsAs(c, "failed")
  /\ runDirs' = [runDirs EXCEPT ![c] = "none"] /\ Forgotten(c)
  /\ LeavesApp(c)
  /\ UNCHANGED <<storeLock, listing>>

\* Everything was checked.
WriteIndex(c) ==
  /\ StepOf(c, "check") /\ CommandGoes(c, "commit") /\ ChangedLast(c)
  /\ UNCHANGED <<appVars, runDirs, storeLock, listing>>

\* Of the runs in the store all but the current one and the newest others
InStore(c) == {r \in StoredRuns : runDirs[r] \in {"whole", "half"} \/ r = c}
Newer(s, r) == s \in changedSince[r] /\ s # r
Surplus(c) ==
  {r \in InStore(c) \ {c} :
     Cardinality({s \in InStore(c) \ {c} : Newer(s, r)}) + 1 >= Retention}

\* Mutant: the lock is held for the rename only.
CommitBriefly(c) ==
  /\ StepOf(c, "commit") /\ storeLock = "free"
  /\ testing' = [testing EXCEPT ![c] = [NoSuite EXCEPT !.at = "prune", !.victims = Surplus(c)]]
  /\ runDirs' = [runDirs EXCEPT ![c] = "whole"]
  /\ UNCHANGED <<appVars, changedSince, storeLock, listing>>

\* commit_and_prune; the lock lasts as long as the command.
CommitRun(c) ==
  /\ StepOf(c, "commit") /\ storeLock = "free" /\ storeLock' = c
  /\ testing' = [testing EXCEPT ![c] = [NoSuite EXCEPT !.at = "prune", !.victims = Surplus(c)]]
  /\ runDirs' = [runDirs EXCEPT ![c] = "whole"]
  /\ UNCHANGED <<appVars, changedSince, listing>>

\* Its files go one by one, which makes it the run that was changed last.
PruneRun(c) ==
  /\ StepOf(c, "prune")
  /\ \E r \in testing[c].victims :
       /\ \A other \in testing[c].victims : ~Newer(other, r)
       /\ IF runDirs[r] = "whole"
          THEN /\ runDirs' = [runDirs EXCEPT ![r] = "half"]
               /\ ChangedLast(r) /\ UNCHANGED testing
          ELSE /\ runDirs' = [runDirs EXCEPT ![r] = "none"]
               /\ Forgotten(r)
               /\ testing' = [testing EXCEPT ![c].victims = testing[c].victims \ {r}]
  /\ UNCHANGED <<appVars, storeLock, listing>>

\* Also when a removal failed
AnswerTests(c) ==
  /\ StepOf(c, "prune") /\ CommandGoes(c, "answered")
  /\ storeLock' = IF storeLock = c THEN "free" ELSE storeLock
  /\ LeavesApp(c)
  /\ UNCHANGED <<runDirs, changedSince, listing>>

KillTests(c) ==
  /\ testing[c].at \in {"run", "check", "commit", "prune"}
  /\ EndsAs(c, "killed")
  /\ storeLock' = IF storeLock = c THEN "free" ELSE storeLock
  /\ LeavesApp(c)
  /\ UNCHANGED <<runDirs, changedSince, listing>>

\* A change, or the end of one.
ChangeEnvironment ==
  /\ testing' = [c \in TestCommands |->
       IF testing[c].at \notin {"wait", "stage", "run"} THEN testing[c]
       ELSE [testing[c] EXCEPT !.changed = ~@, !.unseen = FALSE]]
  /\ UNCHANGED <<appVars, runStoreVars, listing>>

-----------------------------------------------------------------------------
(* artifacts *)

ListingGoes(step) == listing' = [listing EXCEPT !.at = step]
ListingEnds == listing' = [at |-> "idle", run |-> NoRun] /\ storeLock' = "free"

\* Of a run that is half removed the index may still be there, but not all of its files.
ListRun ==
  /\ \/ /\ listing.at = "idle" /\ storeLock = "free" /\ storeLock' = "listing"
        /\ \E r \in StoredRuns : listing' = [at |-> "index", run |-> r]
     \/ /\ listing.at = "index" /\ runDirs[listing.run] \in {"whole", "half"}
        /\ ListingGoes("verify") /\ UNCHANGED storeLock
     \/ /\ listing.at = "verify" /\ runDirs[listing.run] = "whole"
        /\ ListingGoes("listed") /\ UNCHANGED storeLock
     \/ listing.at # "idle" /\ ListingEnds
  /\ UNCHANGED <<testing, appVars, runDirs, changedSince>>

BrowserNext ==
  \/ \E c \in TestCommands :
       \/ BeginTests(c) \/ AcquireAppUse(c) \/ StageAndRun(c)
       \/ AdmitTest(c) \/ DecideTest(c) \/ CloseContext(c) \/ SampleEnvironment(c)
       \/ InterruptTests(c) \/ FinishTests(c)
       \/ TestsFail(c) \/ WriteIndex(c) \/ CommitRun(c) \/ PruneRun(c) \/ AnswerTests(c)
       \/ KillTests(c)
  \/ ChangeEnvironment \/ ListRun

BrowserSpec == BrowserInit /\ [][BrowserNext]_testRunVars

-----------------------------------------------------------------------------
(* Properties *)

\* The tests in the lanes of all commands, a step that nobody waits for included
TestsRunning == UNION {{c} \X TestsIn(c, {"running", "passing", "failing"}) : c \in TestCommands}

\* A write whose data nobody separated, and a test of the VM itself, run beside no other test
\* of any command; within one suite two tests may meet on different data, of two only if
\* neither changes anything; and the one Studio is operated by one test.
NothingBesideAWrite ==
  \A s, t \in TestsRunning : s # t =>
    IF s[1] = t[1] THEN Beside(Uses(s[1], s[2]), Uses(t[1], t[2]))
    ELSE IsRead(Uses(s[1], s[2])) /\ IsRead(Uses(t[1], t[2]))

\* A test of the VM itself is not overtaken by those behind it.
NoneOvertakes ==
  \A c \in TestCommands : \A i \in TestsIn(c, {"pending"}) :
    Uses(c, i) = "vm-lifecycle" => TestsIn(c, InLane \union {"passed", "failed"}) \subseteq 1..i

\* A suite passed only if the environment was the one it was prepared for when the last test
\* ended, or was again before the runner ended.
PassedUnchanged ==
  \A c \in TestCommands : testing[c].passed => ~testing[c].unseen

\* A run is in the store when its command accepted it, and for as long as that command prunes;
\* what is listed is whole; a failed command leaves nothing; and whoever finished pruning left
\* no more than the runs to keep.
StoreIsTrue ==
  /\ listing.at = "listed" => runDirs[listing.run] = "whole"
  /\ \A c \in TestCommands :
       /\ StepOf(c, "prune") => runDirs[c] = "whole"
       /\ StepOf(c, "prune") /\ testing[c].victims = {} =>
            Cardinality({r \in StoredRuns : runDirs[r] \in {"whole", "half"}}) <= Retention
       /\ StepOf(c, "failed") => runDirs[c] = "none"
       /\ runDirs[c] \in {"whole", "half"} =>
            testing[c].at \in {"prune", "answered", "killed"}

\* The evidence of a browser test can be relied on.
EvidenceIsSound == NothingBesideAWrite /\ NoneOvertakes /\ PassedUnchanged /\ StoreIsTrue
=============================================================================
