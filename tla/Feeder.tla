------------------------------- MODULE Feeder -------------------------------
(***************************************************************************)
(* packages/feeder: the daemon that copies credential counts and payment   *)
(* statistics of the configured subjects into the credit oracle.  A        *)
(* polling loop feeds one subject after the other; an event loop starts a  *)
(* feed for each event it sees and does not wait for it.                   *)
(*                                                                         *)
(* A source value is known by its version, which counts its changes;       *)
(* VcValue and TxValue give the values, which may come back.  The number   *)
(* of failures, shutdowns and restarts is bounded by MaxFaults.            *)
(***************************************************************************)
EXTENDS Integers, Sequences, FiniteSets

CONSTANTS
  Subjects,            \* the configured subjects, a sequence
  Poll,                \* the feed of the polling loop
  EventFeed,           \* bound: feeds the event loop has in flight at once
  None,
  VcValue, TxValue,    \* the values of the versions, functions from 0..n
  AllowPartialStats,   \* FEEDER_ALLOW_PARTIAL_STATS
  MaxConsecutiveFailures,
  PAGE,                \* 100, the events of one request, scaled down
  MaxFaults            \* bound: failures of requests, shutdowns and restarts

Subject == {Subjects[i] : i \in DOMAIN Subjects}
Feed == {Poll} \cup EventFeed

ASSUME FeederAssumption ==
  /\ Subjects \in Seq(Subject) /\ Subjects # <<>>
  /\ None \notin Subject /\ None # "pending"
  /\ Poll \notin EventFeed
  /\ DOMAIN VcValue \subseteq Nat /\ DOMAIN TxValue \subseteq Nat
  /\ AllowPartialStats \in BOOLEAN
  /\ MaxConsecutiveFailures \in Nat \ {0}
  /\ PAGE \in Nat \ {0}

\* What a fetch that fails brings: the statistics of the pages it has read,
\* lower than any complete ones; or zeros that pass for complete ones.
Partial == -1
Empty == -2
Failed == {Partial, Empty}

VARIABLES
  truth,          \* versions of the identity oracle's count and Horizon's statistics
  chain,          \* versions held by the credit oracle
  crossContract,  \* get_identity_oracle is set: the oracle reads counts itself
  events,         \* events at or after the cursors of the event loop, with
                  \* None for a subject that is not configured
  ghosts,         \* transactions of the feeder in flight that no feed waits for
  feed,           \* the feeds in flight
  turn,           \* index of the polling loop in config.subjects
  syncState, failureCounts, deadLetterSubjects,
  known,          \* subjects with their credential in hashToSubject
  aborted,        \* the signal of the abort controller
  faults,         \* failures so far
  overlapped,     \* history: subjects that two feeds were working on at once
  halted          \* history: subjects with a feed that stopped half-way

network == <<truth, chain, crossContract>>
daemon == <<syncState, failureCounts, deadLetterSubjects, known, turn>>
vars == <<network, daemon, events, ghosts, feed, aborted, faults, overlapped, halted>>

Idle == [pc |-> "idle", subject |-> None, vc |-> 0, tx |-> 0, sent |-> FALSE, net |-> None]

\* The transaction of a feed sets one of the two inputs of its subject.
Tx(f) ==
  LET key == IF feed[f].pc \in {"setCount", "waitCount"} THEN "vc" ELSE "tx"
  IN [subject |-> feed[f].subject, key |-> key, version |-> feed[f][key]]

TxValueOf(version) ==
  CASE version = Partial -> Partial
    [] version = Empty -> 0
    [] OTHER -> TxValue[version]

\* The values of two pairs of versions are the same.
SameValues(a, b) ==
  VcValue[a.vc] = VcValue[b.vc] /\ TxValueOf(a.tx) = TxValueOf(b.tx)

InFlight(s) == {f \in Feed : feed[f].subject = s}

\* Feeds are started, as given by fd: some now work on the same subject.
Started(fd) ==
  /\ feed' = fd
  /\ overlapped' = overlapped \cup
       {s \in Subject : \E f, g \in Feed : f # g /\ fd[f].subject = s /\ fd[g].subject = s}

-----------------------------------------------------------------------------
(* The world outside the feeder.                                           *)

\* An anchored or revoked credential changes the count and emits an event.
CountChanges(s) ==
  LET v == truth[s].vc + 1
  IN /\ v \in DOMAIN VcValue
     /\ truth' = [truth EXCEPT ![s].vc = v]
     /\ events' = Append(events, [subject |-> s, name |->
                    IF VcValue[v] > VcValue[v - 1] THEN "VCAnch" ELSE "Revoked"])
     /\ UNCHANGED <<chain, crossContract, daemon, ghosts, feed, aborted, faults,
                    overlapped, halted>>

StatsChange(s) ==
  /\ truth[s].tx + 1 \in DOMAIN TxValue
  /\ truth' = [truth EXCEPT ![s].tx = @ + 1]
  /\ UNCHANGED <<chain, crossContract, daemon, events, ghosts, feed, aborted, faults,
                 overlapped, halted>>

\* A transaction is applied.  All of the feeder's transactions use the next
\* sequence number of one account: the others in flight are then invalid.
Apply(tx) == chain' = [chain EXCEPT ![tx.subject][tx.key] = tx.version]

\* Mutant: every transaction has an account of its own.
Land_OwnAccount(f) ==
  /\ feed[f].net = "pending"
  /\ Apply(Tx(f))
  /\ feed' = [feed EXCEPT ![f].net = "landed"]
  /\ UNCHANGED <<truth, crossContract, daemon, events, ghosts, aborted, faults,
                 overlapped, halted>>

Land(f) ==
  /\ feed[f].net = "pending"
  /\ Apply(Tx(f))
  /\ feed' = [g \in Feed |-> IF feed[g].net = "pending"
                THEN [feed[g] EXCEPT !.net = IF g = f THEN "landed" ELSE "dead"]
                ELSE feed[g]]
  /\ ghosts' = {}
  /\ UNCHANGED <<truth, crossContract, daemon, events, aborted, faults, overlapped, halted>>

LandGhost ==
  /\ \E tx \in ghosts : Apply(tx)
  /\ feed' = [g \in Feed |-> IF feed[g].net = "pending"
                THEN [feed[g] EXCEPT !.net = "dead"] ELSE feed[g]]
  /\ ghosts' = {}
  /\ UNCHANGED <<truth, crossContract, daemon, events, aborted, faults, overlapped, halted>>

\* One more failure.
Fault == faults < MaxFaults /\ faults' = faults + 1

\* A transaction fails in the ledger, or its 30 seconds of validity pass.
Drop(f) ==
  /\ feed[f].net = "pending"
  /\ Fault
  /\ feed' = [feed EXCEPT ![f].net = "dead"]
  /\ UNCHANGED <<network, daemon, events, ghosts, aborted, overlapped, halted>>

-----------------------------------------------------------------------------
(* The end of a feed.                                                      *)

\* runCycle goes on to the next subject, in this cycle or the next.
NextTurn == (turn % Len(Subjects)) + 1

\* feedSubject returns.  A feed that sent something and did not record it in
\* syncState stopped half-way.
Return(f, recorded) ==
  LET s == feed[f].subject
  IN /\ feed' = [feed EXCEPT ![f] = Idle]
     /\ halted' = IF feed[f].sent /\ ~recorded THEN halted \cup {s} ELSE halted
     /\ IF f = Poll
        THEN /\ failureCounts' = [failureCounts EXCEPT ![s] = 0]
             /\ deadLetterSubjects' = deadLetterSubjects \ {s}
             /\ turn' = NextTurn
        ELSE UNCHANGED <<failureCounts, deadLetterSubjects, turn>>

\* feedSubject throws, after the retries of withExponentialBackoff.
Throw(f, sent) ==
  LET s == feed[f].subject
  IN /\ feed' = [feed EXCEPT ![f] = Idle]
     /\ halted' = IF feed[f].sent \/ sent THEN halted \cup {s} ELSE halted
     /\ IF f = Poll
        THEN /\ failureCounts' = [failureCounts EXCEPT ![s] = @ + 1]
             /\ deadLetterSubjects' =
                  IF failureCounts[s] + 1 >= MaxConsecutiveFailures
                  THEN deadLetterSubjects \cup {s} ELSE deadLetterSubjects
             /\ turn' = NextTurn
        ELSE UNCHANGED <<failureCounts, deadLetterSubjects, turn>>

Goto(f, pc) == /\ feed' = [feed EXCEPT ![f].pc = pc, ![f].net = None]
               /\ UNCHANGED <<turn, failureCounts, deadLetterSubjects, halted>>

\* Mutant: a subject in the dead-letter set is passed over.
StartPoll_SkipsDeadLetters ==
  LET s == Subjects[turn]
  IN /\ ~aborted /\ feed[Poll].pc = "idle"
     /\ s \notin deadLetterSubjects
     /\ Started([feed EXCEPT ![Poll] = [Idle EXCEPT !.pc = "count", !.subject = s]])
     /\ UNCHANGED <<network, daemon, events, ghosts, aborted, faults, halted>>

\* tick and the loop of runCycle: one subject at a time, dead letters included.
StartPoll ==
  LET s == Subjects[turn]
  IN /\ ~aborted /\ feed[Poll].pc = "idle"
     /\ Started([feed EXCEPT ![Poll] = [Idle EXCEPT !.pc = "count", !.subject = s]])
     /\ UNCHANGED <<network, daemon, events, ghosts, aborted, faults, halted>>

-----------------------------------------------------------------------------
(* feedSubject, one action from each await to the next.                    *)

\* Step 1: the active count of the identity oracle.
ReadCount(f) ==
  LET s == feed[f].subject
  IN /\ feed[f].pc = "count"
     /\ IF aborted THEN Return(f, FALSE)
        ELSE /\ feed' = [feed EXCEPT ![f].pc = "stats", ![f].vc = truth[s].vc]
             /\ UNCHANGED <<turn, failureCounts, deadLetterSubjects, halted>>
     /\ UNCHANGED <<network, syncState, known, events, ghosts, aborted, faults, overlapped>>

\* Step 2 brings these statistics; whether they and the count are those of
\* the last sync is decided before anything else can run.
Unchanged(f, tx) ==
  LET s == feed[f].subject
  IN syncState[s] # None /\ SameValues(syncState[s], [vc |-> feed[f].vc, tx |-> tx])

\* A fetch that gives up on later pages returns what it has.  An error of the
\* first page that is neither transient nor a rate limit returns
\* EMPTY_TX_STATS, which is not marked as partial.
Fetched(f, tx) ==
  \/ tx = truth[feed[f].subject].tx /\ UNCHANGED faults
  \/ tx \in Failed /\ Fault

SkipUnchanged(f, tx) ==
  /\ feed[f].pc = "stats"
  /\ Fetched(f, tx)
  /\ aborted \/ Unchanged(f, tx)
  /\ Return(f, FALSE)
  /\ UNCHANGED <<network, syncState, known, events, ghosts, aborted, overlapped>>

FetchStats(f, tx) ==
  /\ feed[f].pc = "stats"
  /\ Fetched(f, tx)
  /\ ~aborted /\ ~Unchanged(f, tx)
  /\ feed' = [feed EXCEPT ![f].pc = "check", ![f].tx = tx]
  /\ UNCHANGED <<network, daemon, events, ghosts, aborted, overlapped, halted>>

\* HorizonRateLimitError: the subject counts as fed.
RateLimited(f) ==
  /\ feed[f].pc = "stats"
  /\ Fault
  /\ Return(f, FALSE)
  /\ UNCHANGED <<network, syncState, known, events, ghosts, aborted, overlapped>>

\* After set_vc_count or in its place: an abort, or partial statistics that
\* must not be submitted, end the feed.
AfterCount(f) ==
  IF aborted \/ (feed[f].tx = Partial /\ ~AllowPartialStats)
  THEN Return(f, FALSE) ELSE Goto(f, "update")

\* get_identity_oracle decides whether the count is submitted.
CheckOracle(f) ==
  /\ feed[f].pc = "check"
  /\ IF crossContract THEN AfterCount(f) ELSE Goto(f, "setCount")
  /\ UNCHANGED <<network, syncState, known, events, ghosts, aborted, faults, overlapped>>

Waiting == [setCount |-> "waitCount", update |-> "waitUpdate"]

\* submitOperation: set_vc_count or update_tx_stats is accepted by the network.
SubmitOperation(f) ==
  /\ feed[f].pc \in DOMAIN Waiting
  /\ feed' = [feed EXCEPT ![f].pc = Waiting[@], ![f].sent = TRUE, ![f].net = "pending"]
  /\ UNCHANGED <<network, daemon, events, ghosts, aborted, faults, overlapped, halted>>

\* The network accepted the transaction and the answer was lost: submitted
\* again by withExponentialBackoff, or given up.
SubmitUnanswered(f) ==
  /\ feed[f].pc \in DOMAIN Waiting
  /\ Fault
  /\ ghosts' = ghosts \cup {Tx(f)}
  /\ \/ /\ feed' = [feed EXCEPT ![f].sent = TRUE]
        /\ UNCHANGED <<turn, failureCounts, deadLetterSubjects, halted>>
     \/ Throw(f, TRUE)
  /\ UNCHANGED <<network, syncState, known, events, aborted, overlapped>>

\* waitForConfirmation after set_vc_count
ConfirmCount(f) ==
  /\ feed[f].pc = "waitCount" /\ feed[f].net = "landed"
  /\ AfterCount(f)
  /\ UNCHANGED <<network, syncState, known, events, ghosts, aborted, faults, overlapped>>

\* waitForConfirmation after update_tx_stats, and the new sync state.
ConfirmUpdate(f) ==
  /\ feed[f].pc = "waitUpdate" /\ feed[f].net = "landed"
  /\ syncState' = [syncState EXCEPT ![feed[f].subject] = [vc |-> feed[f].vc, tx |-> feed[f].tx]]
  /\ Return(f, TRUE)
  /\ UNCHANGED <<network, known, events, ghosts, aborted, faults, overlapped>>

\* waitForConfirmation throws.  It waits longer than a transaction is valid,
\* so what it has not seen was dropped, or applied without the RPC's notice.
GiveUp(f) ==
  /\ feed[f].pc \in {"waitCount", "waitUpdate"}
  /\ \/ feed[f].net = "dead" /\ UNCHANGED faults
     \/ feed[f].net = "landed" /\ Fault
  /\ Throw(f, TRUE)
  /\ UNCHANGED <<network, syncState, known, events, ghosts, aborted, overlapped>>

\* Any other request fails more often than it is retried.
RequestFails(f) ==
  /\ feed[f].pc \in {"count", "stats", "check", "setCount", "update"}
  /\ Fault
  /\ Throw(f, FALSE)
  /\ UNCHANGED <<network, syncState, known, events, ghosts, aborted, overlapped>>

-----------------------------------------------------------------------------
(* The event loop, and the life of the process.                            *)

\* The events of one request for this name: the first PAGE of them.
Page(name) ==
  LET named == SelectSeq(events, LAMBDA e : e.name = name)
  IN SubSeq(named, 1, IF Len(named) < PAGE THEN Len(named) ELSE PAGE)

\* pollEvents: the cursor passes every event in the ledger, read or not.  An
\* anchored credential makes its subject known, a revoked one is of use only
\* when its subject is; each such event starts a feed.
PollEvents(name) ==
  LET page == Page(name)
      mine == {i \in DOMAIN page : page[i].subject \in Subject}
      fed == {i \in mine : name = "VCAnch" \/ page[i].subject \in known}
      free == {f \in EventFeed : feed[f].pc = "idle"}
  IN /\ ~aborted
     /\ page # <<>>
     /\ events' = SelectSeq(events, LAMBDA e : e.name # name)
     /\ known' = IF name = "VCAnch" THEN known \cup {page[i].subject : i \in mine} ELSE known
     /\ \E slot \in [fed -> free] :
          /\ \A i, j \in fed : slot[i] = slot[j] => i = j
          /\ Started([f \in Feed |->
               IF \E i \in fed : slot[i] = f
               THEN [Idle EXCEPT !.pc = "count",
                       !.subject = page[CHOOSE i \in fed : slot[i] = f].subject]
               ELSE feed[f]])
     /\ UNCHANGED <<network, syncState, failureCounts, deadLetterSubjects, turn,
                    ghosts, aborted, faults, halted>>

\* The function returned by start: no further step is begun.
Stop ==
  /\ Fault
  /\ ~aborted /\ aborted' = TRUE
  /\ UNCHANGED <<network, daemon, events, ghosts, feed, overlapped, halted>>

\* The process ends, at any point, and is started again: what it kept in
\* memory is gone, what it had sent is not.  The cursors start at the latest
\* ledger.
Restart ==
  /\ Fault
  /\ syncState' = [s \in Subject |-> None]
  /\ failureCounts' = [s \in Subject |-> 0]
  /\ deadLetterSubjects' = {} /\ known' = {} /\ turn' = 1
  /\ events' = <<>>
  /\ ghosts' = ghosts \cup {Tx(f) : f \in {g \in Feed : feed[g].net = "pending"}}
  /\ feed' = [f \in Feed |-> Idle]
  /\ aborted' = FALSE
  /\ halted' = {}
  /\ UNCHANGED <<network, overlapped>>

-----------------------------------------------------------------------------
\* The feeder starts, perhaps with an event of somebody else ahead in the page.
Init ==
  /\ truth = [s \in Subject |-> [vc |-> 0, tx |-> 0]]
  /\ chain = [s \in Subject |-> [vc |-> 0, tx |-> 0]]
  /\ crossContract \in BOOLEAN
  /\ events \in {<<>>, <<[subject |-> None, name |-> "VCAnch"]>>}
  /\ ghosts = {}
  /\ feed = [f \in Feed |-> Idle] /\ turn = 1
  /\ syncState = [s \in Subject |-> None]
  /\ failureCounts = [s \in Subject |-> 0] /\ deadLetterSubjects = {}
  /\ known = {} /\ aborted = FALSE
  /\ faults = 0 /\ overlapped = {} /\ halted = {}

\* What a feed does when its requests are answered.
Progress(f) ==
  \/ ReadCount(f)
  \/ \E tx \in DOMAIN TxValue \cup Failed :
       \/ SkipUnchanged(f, tx)
       \/ FetchStats(f, tx)
  \/ CheckOracle(f)
  \/ SubmitOperation(f)
  \/ ConfirmCount(f)
  \/ ConfirmUpdate(f)
  \/ GiveUp(f)

Mishap(f) == RateLimited(f) \/ SubmitUnanswered(f) \/ RequestFails(f) \/ Drop(f)

World ==
  \/ \E s \in Subject : CountChanges(s) \/ StatsChange(s)
  \/ LandGhost

Next ==
  \/ World
  \/ \E f \in Feed : Progress(f) \/ Mishap(f) \/ Land(f)
  \/ StartPoll
  \/ \E name \in {"VCAnch", "Revoked"} : PollEvents(name)
  \/ Stop
  \/ Restart

Spec == Init /\ [][Next]_vars

\* Timers fire, requests are answered or fail, and the network includes or
\* drops what it accepted.  Events need not be polled in time.
FairSpec ==
  /\ Spec
  /\ WF_vars(StartPoll)
  /\ \A f \in Feed : WF_vars(Progress(f)) /\ WF_vars(Land(f))

-----------------------------------------------------------------------------
(* Properties.                                                             *)

\* The oracle has the values of the source that it uses.
Current(s) ==
  /\ crossContract \/ VcValue[chain[s].vc] = VcValue[truth[s].vc]
  /\ TxValueOf(chain[s].tx) = TxValue[truth[s].tx]

\* feedSubject takes the oracle to have them.
TakenForCurrent(s) == syncState[s] # None /\ SameValues(syncState[s], truth[s])

\* start, runCycle and feedSubject: whatever events, requests and transactions
\* are lost, once the sources are quiet the oracle comes to hold their values
\* as long as the feeder runs.  Where it does not, the feeder takes it for
\* current, after two feeds of the subject overlapped or one stopped half-way.
Converges ==
  \A s \in Subject :
    []<>(\/ aborted
         \/ Current(s)
         \/ s \in overlapped \cup halted /\ TakenForCurrent(s))

\* submitOperation: transactions share the sequence numbers of one account,
\* so none, however late or unanswered, overwrites what was read after it,
\* unless two feeds of the subject overlapped.  What a failed fetch brought is
\* of no version and may be written over any.
OlderNeverOverwrites ==
  [][\A s \in Subject :
       \/ s \in overlapped
       \/ /\ chain'[s].vc >= chain[s].vc
          /\ chain'[s].tx \in Failed \/ chain'[s].tx >= chain[s].tx]_vars

\* "Tracks the last-synced state per subject to avoid redundant syncs": a
\* feed that skips a subject, with no other feed or transaction under way,
\* leaves the oracle current.
SkipsOnlyRedundant ==
  [][\A f \in Feed :
       /\ \E tx \in DOMAIN TxValue : SkipUnchanged(f, tx)
       /\ ~aborted /\ InFlight(feed[f].subject) = {f} /\ ghosts = {}
       /\ feed[f].vc = truth[feed[f].subject].vc
       => Current(feed[f].subject)]_vars
=============================================================================
