---------------------------- MODULE FeederProofs ----------------------------
(***************************************************************************)
(* Theorem about Feeder: no transaction overwrites a later observation,    *)
(* for any subjects, feeds and values and any number of failures.          *)
(***************************************************************************)
EXTENDS Feeder, TLAPS

PC == {"idle", "count", "stats", "check", "setCount", "waitCount", "update", "waitUpdate"}

FeedState == [pc : PC, subject : Subject \cup {None}, vc : Int, tx : Int,
              sent : BOOLEAN, net : {None, "pending", "landed", "dead"}]

Transaction == [subject : Subject, key : {"vc", "tx"}, version : Int]

\* The feed r has read the count, or the statistics.
VcRead(r) == r.pc \in PC \ {"idle", "count"}
TxRead(r) == r.pc \in PC \ {"idle", "count", "stats"}

\* A feed at work has a subject, and waits for what it has submitted.
Wellformed(r) ==
  /\ r \in FeedState
  /\ r.pc # "idle" => r.subject \in Subject
  /\ r.net = "pending" => r.pc \in {"waitCount", "waitUpdate"}

\* What a feed has read is no later than the sources.
Observed(r) ==
  r.subject \in Subject =>
    /\ VcRead(r) => r.vc <= truth[r.subject].vc
    /\ TxRead(r) => r.tx <= truth[r.subject].tx

\* What a feed has read is no earlier than what the oracle holds or what may
\* still be applied.
Latest(r) ==
  r.subject \in Subject \ overlapped =>
    /\ VcRead(r) =>
         /\ r.vc >= chain[r.subject].vc
         /\ \A g \in ghosts : g.subject = r.subject /\ g.key = "vc" => r.vc >= g.version
    /\ TxRead(r) =>
         \/ r.tx \in Failed
         \/ /\ r.tx >= chain[r.subject].tx
            /\ \A g \in ghosts : g.subject = r.subject /\ g.key = "tx" => r.tx >= g.version

\* A transaction nobody waits for is no later than the sources and no earlier
\* than what the oracle holds.
Pending(g) ==
  /\ g.key = "vc" =>
       /\ g.version <= truth[g.subject].vc
       /\ g.subject \notin overlapped => g.version >= chain[g.subject].vc
  /\ g.key = "tx" =>
       /\ g.version <= truth[g.subject].tx
       /\ g.subject \notin overlapped => g.version \in Failed \/ g.version >= chain[g.subject].tx

\* Two feeds of one subject are on record as overlapping.
Alone ==
  \A f, g \in Feed : feed[f].subject = feed[g].subject /\ feed[f].subject \in Subject \ overlapped
                     => f = g

Typed ==
  /\ truth \in [Subject -> [vc : Nat, tx : Nat]]
  /\ chain \in [Subject -> [vc : Int, tx : Int]]
  /\ feed \in [Feed -> FeedState]
  /\ ghosts \subseteq Transaction
  /\ turn \in 1 .. Len(Subjects)

Held == \A s \in Subject : chain[s].vc <= truth[s].vc /\ chain[s].tx <= truth[s].tx

Inv ==
  /\ Typed
  /\ Held
  /\ Alone
  /\ \A g \in ghosts : Pending(g)
  /\ \A f \in Feed : Wellformed(feed[f]) /\ Observed(feed[f]) /\ Latest(feed[f])

-----------------------------------------------------------------------------
(* A step of one feed.                                                     *)

\* What the step of a feed may turn its record into.
Successor(f, r) ==
  /\ Wellformed(r)
  /\ r.subject \in {feed[f].subject, None}
  /\ VcRead(r) => \/ VcRead(feed[f]) /\ r.vc = feed[f].vc
                  \/ r.vc = truth[r.subject].vc
  /\ TxRead(r) => \/ TxRead(feed[f]) /\ r.tx = feed[f].tx
                  \/ r.tx \in {truth[r.subject].tx} \cup Failed

\* What a feed's step may lead to is a record that is neither too late nor
\* too early.
LEMMA SuccessorFine ==
  ASSUME Inv, NEW f \in Feed, NEW r, Successor(f, r)
  PROVE  Observed(r) /\ Latest(r)
<1>1. CASE r.subject \notin Subject
  BY <1>1 DEF Observed, Latest
<1>2. CASE r.subject \in Subject
  <2>0. r.subject = feed[f].subject /\ r.subject # None
    BY <1>2, FeederAssumption DEF Successor
  <2>1. /\ truth[r.subject].vc \in Nat /\ truth[r.subject].tx \in Nat
        /\ chain[r.subject].vc \in Int /\ chain[r.subject].tx \in Int
        /\ chain[r.subject].vc <= truth[r.subject].vc
        /\ chain[r.subject].tx <= truth[r.subject].tx
        /\ r.vc \in Int /\ r.tx \in Int
    BY <1>2 DEF Inv, Typed, Held, Successor, Wellformed, FeedState
  <2>2. /\ Observed(feed[f]) /\ Latest(feed[f])
        /\ feed[f].vc \in Int /\ feed[f].tx \in Int
    BY DEF Inv, Wellformed, FeedState
  <2>3. \A g \in ghosts : /\ g.version \in Int
                          /\ g.subject = r.subject /\ g.key = "vc" => g.version <= truth[r.subject].vc
                          /\ g.subject = r.subject /\ g.key = "tx" => g.version <= truth[r.subject].tx
    BY DEF Inv, Typed, Transaction, Pending
  <2>4. Observed(r)
    BY <1>2, <2>0, <2>1, <2>2 DEF Successor, Observed, Failed, Partial, Empty
  <2>5. VcRead(r) /\ r.subject \notin overlapped =>
          /\ r.vc >= chain[r.subject].vc
          /\ \A g \in ghosts : g.subject = r.subject /\ g.key = "vc" => r.vc >= g.version
    BY <1>2, <2>0, <2>1, <2>2, <2>3 DEF Successor, Latest
  <2>6. TxRead(r) /\ r.subject \notin overlapped =>
          \/ r.tx \in Failed
          \/ /\ r.tx >= chain[r.subject].tx
             /\ \A g \in ghosts : g.subject = r.subject /\ g.key = "tx" => r.tx >= g.version
    BY <1>2, <2>0, <2>1, <2>2, <2>3 DEF Successor, Latest
  <2> QED BY <1>2, <2>4, <2>5, <2>6 DEF Latest
<1> QED BY <1>1, <1>2

\* A step of one feed that leaves the network alone.
LEMMA FeedStep ==
  ASSUME Inv, NEW f \in Feed, NEW r, Successor(f, r),
         feed' = [feed EXCEPT ![f] = r],
         UNCHANGED <<truth, chain, ghosts, overlapped>>, turn' \in 1 .. Len(Subjects)
  PROVE  Inv'
<1>1. r \in FeedState /\ Wellformed(r) /\ r.subject \in {feed[f].subject, None}
  BY DEF Successor, Wellformed
<1>2. feed \in [Feed -> FeedState] /\ feed' \in [Feed -> FeedState]
  BY <1>1 DEF Inv, Typed
<1>3. feed'[f] = r /\ \A g \in Feed : g # f => feed'[g] = feed[g]
  BY <1>2
<1>4. Typed' /\ Held'
  BY <1>2 DEF Inv, Typed, Held
<1>5. Alone'
  BY <1>1, <1>3, FeederAssumption DEF Inv, Alone
<1>6. \A g \in ghosts' : Pending(g)'
  BY DEF Inv, Pending
<1>7. \A g \in Feed : Wellformed(feed'[g]) /\ Observed(feed'[g]) /\ Latest(feed'[g])
  BY <1>1, <1>3, SuccessorFine DEF Inv
<1>8. \A g \in Feed : (Wellformed(feed[g]) /\ Observed(feed[g]) /\ Latest(feed[g]))'
  BY <1>7 DEF Wellformed, Observed, Latest, VcRead, TxRead
<1> QED BY <1>4, <1>5, <1>6, <1>8 DEF Inv

\* runCycle stays within config.subjects.
LEMMA NextTurnTyped == Inv => NextTurn \in 1 .. Len(Subjects)
<1>1. Len(Subjects) \in Nat \ {0}
  BY FeederAssumption
<1> SUFFICES ASSUME turn \in 1 .. Len(Subjects) PROVE NextTurn \in 1 .. Len(Subjects)
  BY DEF Inv, Typed
<1> DEFINE n == Len(Subjects)
<1>2. turn \in Nat /\ n \in Nat /\ n > 0
  BY <1>1
<1> HIDE DEF n
<1>3. turn % n \in 0 .. n - 1
  BY <1>2
<1> QED BY <1>2, <1>3 DEF NextTurn, n

\* A feed that is not under way has read nothing.
LEMMA FeedEnds ==
  ASSUME Inv, NEW f \in Feed, feed' = [feed EXCEPT ![f] = Idle],
         UNCHANGED <<truth, chain, ghosts, overlapped>>, turn' \in 1 .. Len(Subjects)
  PROVE  Inv'
<1>1. Successor(f, Idle)
  BY FeederAssumption DEF Successor, Wellformed, FeedState, Idle, PC, VcRead, TxRead
<1> QED BY <1>1, FeedStep

\* feedSubject returns.
LEMMA ReturnPreserves ==
  ASSUME Inv, NEW f \in Feed, NEW recorded, Return(f, recorded),
         UNCHANGED <<truth, chain, ghosts, overlapped>>
  PROVE  Inv'
<1>1. turn' \in 1 .. Len(Subjects) /\ feed' = [feed EXCEPT ![f] = Idle]
  BY NextTurnTyped DEF Return, Inv, Typed
<1> QED BY <1>1, FeedEnds

\* feedSubject throws.
LEMMA ThrowPreserves ==
  ASSUME Inv, NEW f \in Feed, NEW sent, Throw(f, sent),
         UNCHANGED <<truth, chain, ghosts, overlapped>>
  PROVE  Inv'
<1>1. turn' \in 1 .. Len(Subjects) /\ feed' = [feed EXCEPT ![f] = Idle]
  BY NextTurnTyped DEF Throw, Inv, Typed
<1> QED BY <1>1, FeedEnds

\* A feed goes on to submit, with both inputs read.
LEMMA GotoPreserves ==
  ASSUME Inv, NEW f \in Feed, NEW pc \in {"setCount", "update"}, Goto(f, pc),
         feed[f].pc \in {"check", "waitCount"},
         UNCHANGED <<truth, chain, ghosts, overlapped>>
  PROVE  Inv'
<1> DEFINE r == [feed[f] EXCEPT !.pc = pc, !.net = None]
<1>1. feed[f] \in FeedState /\ feed[f].subject \in Subject
  BY DEF Inv, Wellformed
<1>2. Successor(f, r)
  BY <1>1, FeederAssumption DEF Successor, Wellformed, FeedState, PC, VcRead, TxRead
<1>3. feed' = [feed EXCEPT ![f] = r] /\ turn' \in 1 .. Len(Subjects)
  BY DEF Goto, Inv, Typed
<1> QED BY <1>2, <1>3, FeedStep

\* The decision after set_vc_count.
LEMMA AfterCountPreserves ==
  ASSUME Inv, NEW f \in Feed, AfterCount(f), feed[f].pc \in {"check", "waitCount"},
         UNCHANGED <<truth, chain, ghosts, overlapped>>
  PROVE  Inv'
BY ReturnPreserves, GotoPreserves DEF AfterCount

\* The count is read: the latest there is.
LEMMA ReadCountPreserves ==
  ASSUME Inv, NEW f \in Feed, ReadCount(f)
  PROVE  Inv'
<1> DEFINE r == [feed[f] EXCEPT !.pc = "stats", !.vc = truth[feed[f].subject].vc]
<1>1. UNCHANGED <<truth, chain, ghosts, overlapped>>
  BY DEF ReadCount, network
<1>2. CASE aborted
  BY <1>1, <1>2, ReturnPreserves DEF ReadCount
<1>3. CASE ~aborted
  <2>1. feed[f] \in FeedState /\ feed[f].subject \in Subject /\ feed[f].net # "pending"
    BY DEF ReadCount, Inv, Wellformed
  <2>2. truth[feed[f].subject].vc \in Int
    BY <2>1 DEF Inv, Typed
  <2>3. Successor(f, r)
    BY <2>1, <2>2 DEF Successor, Wellformed, FeedState, PC, VcRead, TxRead
  <2>4. feed' = [feed EXCEPT ![f] = r] /\ turn' \in 1 .. Len(Subjects)
    BY <1>3 DEF ReadCount, Inv, Typed
  <2> QED BY <1>1, <2>3, <2>4, FeedStep
<1> QED BY <1>2, <1>3

\* The statistics are read: the latest there are, or partial ones.
LEMMA FetchStatsPreserves ==
  ASSUME Inv, NEW f \in Feed, NEW tx, FetchStats(f, tx)
  PROVE  Inv'
<1> DEFINE r == [feed[f] EXCEPT !.pc = "check", !.tx = tx]
<1>1. UNCHANGED <<truth, chain, ghosts, overlapped, turn>>
  BY DEF FetchStats, network, daemon
<1>2. feed[f] \in FeedState /\ feed[f].subject \in Subject /\ feed[f].net # "pending"
  BY DEF FetchStats, Inv, Wellformed
<1>3. tx \in {truth[feed[f].subject].tx} \cup Failed /\ tx \in Int
  BY <1>2 DEF FetchStats, Fetched, Failed, Partial, Empty, Inv, Typed
<1>4. Successor(f, r)
  BY <1>2, <1>3 DEF FetchStats, Successor, Wellformed, FeedState, PC, VcRead, TxRead
<1>5. feed' = [feed EXCEPT ![f] = r] /\ turn' \in 1 .. Len(Subjects)
  BY <1>1 DEF FetchStats, Inv, Typed
<1> QED BY <1>1, <1>4, <1>5, FeedStep

\* A transaction carries what was read.
LEMMA SubmitPreserves ==
  ASSUME Inv, NEW f \in Feed, SubmitOperation(f)
  PROVE  Inv'
<1> DEFINE r == [feed[f] EXCEPT !.pc = Waiting[feed[f].pc], !.sent = TRUE, !.net = "pending"]
<1>1. UNCHANGED <<truth, chain, ghosts, overlapped, turn>>
  BY DEF SubmitOperation, network, daemon
<1>2. feed[f].pc \in {"setCount", "update"} /\ Waiting[feed[f].pc] \in {"waitCount", "waitUpdate"}
  BY DEF SubmitOperation, Waiting
<1>3. feed[f] \in FeedState /\ feed[f].subject \in Subject
  BY <1>2 DEF Inv, Wellformed
<1>4. Successor(f, r)
  BY <1>2, <1>3 DEF Successor, Wellformed, FeedState, PC, VcRead, TxRead
<1>5. feed' = [feed EXCEPT ![f] = r] /\ turn' \in 1 .. Len(Subjects)
  BY <1>1 DEF SubmitOperation, Inv, Typed
<1> QED BY <1>1, <1>4, <1>5, FeedStep

\* A transaction is lost.
LEMMA DropPreserves ==
  ASSUME Inv, NEW f \in Feed, Drop(f)
  PROVE  Inv'
<1> DEFINE r == [feed[f] EXCEPT !.net = "dead"]
<1>1. UNCHANGED <<truth, chain, ghosts, overlapped, turn>>
  BY DEF Drop, network, daemon
<1>2. feed[f] \in FeedState /\ feed[f].subject \in Subject
      /\ feed[f].pc \in {"waitCount", "waitUpdate"}
  BY DEF Drop, Inv, Wellformed
<1>3. Successor(f, r)
  BY <1>2, FeederAssumption DEF Drop, Successor, Wellformed, FeedState, PC, VcRead, TxRead
<1>4. feed' = [feed EXCEPT ![f] = r] /\ turn' \in 1 .. Len(Subjects)
  BY <1>1 DEF Drop, Inv, Typed
<1> QED BY <1>1, <1>3, <1>4, FeedStep

\* Progress, and the mishaps that leave the network alone.
LEMMA ProgressPreserves ==
  ASSUME Inv, NEW f \in Feed, Progress(f)
  PROVE  Inv'
<1>1. ASSUME NEW tx, SkipUnchanged(f, tx) PROVE Inv'
  BY <1>1, ReturnPreserves DEF SkipUnchanged, network
<1>2. CASE CheckOracle(f)
  BY <1>2, AfterCountPreserves, GotoPreserves DEF CheckOracle, network
<1>3. CASE ConfirmCount(f)
  BY <1>3, AfterCountPreserves DEF ConfirmCount, network
<1>4. CASE ConfirmUpdate(f)
  BY <1>4, ReturnPreserves DEF ConfirmUpdate, network
<1>5. CASE GiveUp(f)
  BY <1>5, ThrowPreserves DEF GiveUp, network
<1> QED
  BY <1>1, <1>2, <1>3, <1>4, <1>5, ReadCountPreserves, FetchStatsPreserves, SubmitPreserves
  DEF Progress

-----------------------------------------------------------------------------
(* Transactions: submitted, left behind and applied.                       *)

\* The transaction of a feed, and that it would not overwrite anything later.
LEMMA TxFacts ==
  ASSUME Inv, NEW f \in Feed, feed[f].pc \in {"setCount", "waitCount", "update", "waitUpdate"}
  PROVE  /\ Tx(f) \in Transaction
         /\ Tx(f).subject = feed[f].subject
         /\ Tx(f).key = "vc" => Tx(f).version = feed[f].vc
         /\ Tx(f).key = "tx" => Tx(f).version = feed[f].tx
         /\ Pending(Tx(f))
<1>1. /\ feed[f] \in FeedState /\ feed[f].subject \in Subject
      /\ Observed(feed[f]) /\ Latest(feed[f]) /\ VcRead(feed[f]) /\ TxRead(feed[f])
  BY DEF Inv, Wellformed, VcRead, TxRead, PC
<1>2. feed[f].vc \in Int /\ feed[f].tx \in Int
  BY <1>1 DEF FeedState
<1>3. CASE feed[f].pc \in {"setCount", "waitCount"}
  <2>1. Tx(f) = [subject |-> feed[f].subject, key |-> "vc", version |-> feed[f].vc]
    BY <1>3 DEF Tx
  <2> QED BY <1>1, <1>2, <2>1 DEF Transaction, Pending, Observed, Latest
<1>4. CASE feed[f].pc \notin {"setCount", "waitCount"}
  <2>1. Tx(f) = [subject |-> feed[f].subject, key |-> "tx", version |-> feed[f].tx]
    BY <1>4 DEF Tx
  <2> QED BY <1>1, <1>2, <2>1 DEF Transaction, Pending, Observed, Latest
<1> QED BY <1>3, <1>4

\* A transaction without an answer is added, before the feed goes on.
LEMMA GhostAdded ==
  ASSUME Inv, NEW f \in Feed, feed[f].pc \in {"setCount", "update"},
         ghosts' = ghosts \cup {Tx(f)}, NEW r \in {Idle, [feed[f] EXCEPT !.sent = TRUE]},
         feed' = [feed EXCEPT ![f] = r],
         UNCHANGED <<truth, chain, overlapped>>, turn' \in 1 .. Len(Subjects)
  PROVE  Inv'
<1>0. /\ feed[f] \in FeedState /\ feed[f].subject \in Subject /\ Wellformed(feed[f])
      /\ Observed(feed[f]) /\ Latest(feed[f])
      /\ feed[f].vc \in Int /\ feed[f].tx \in Int
  BY DEF Inv, Wellformed, FeedState
<1>1. /\ r \in FeedState /\ Wellformed(r) /\ r.subject \in {feed[f].subject, None}
      /\ r.pc # "idle" => /\ r.pc = feed[f].pc /\ r.subject = feed[f].subject
                          /\ r.vc = feed[f].vc /\ r.tx = feed[f].tx
      /\ r.subject = None => r.pc = "idle"
  <2>1. CASE r = Idle
    BY <2>1, FeederAssumption DEF Wellformed, FeedState, Idle, PC
  <2>2. CASE r = [feed[f] EXCEPT !.sent = TRUE]
    BY <1>0, <2>2, FeederAssumption DEF Wellformed, FeedState, PC
  <2> QED BY <2>1, <2>2
<1>2. feed \in [Feed -> FeedState] /\ feed' \in [Feed -> FeedState]
  BY <1>1 DEF Inv, Typed
<1>3. feed'[f] = r /\ \A g \in Feed : g # f => feed'[g] = feed[g]
  BY <1>2
<1>4. Typed' /\ Held'
  BY <1>2, TxFacts DEF Inv, Typed, Held
<1>5. Alone'
  BY <1>1, <1>3, FeederAssumption DEF Inv, Alone
<1>6. \A g \in ghosts' : Pending(g)'
  BY TxFacts DEF Inv, Pending
<1>7. \A g \in Feed : Wellformed(feed'[g]) /\ Observed(feed'[g])
  BY <1>0, <1>1, <1>3 DEF Inv, Observed, VcRead, TxRead
<1>8. ASSUME NEW h \in Feed PROVE Latest(feed[h])'
  <2>1. CASE h # f
    <3>1. feed'[h] = feed[h] /\ Latest(feed[h])
      BY <1>3, <2>1 DEF Inv
    <3>2. feed[h].subject \in Subject \ overlapped => feed[h].subject # Tx(f).subject
      BY <2>1, <1>0, TxFacts DEF Inv, Alone
    <3> QED BY <3>1, <3>2 DEF Latest
  <2>2. CASE h = f
    <3>1. CASE r.pc = "idle"
      BY <1>3, <2>2, <3>1 DEF Latest, VcRead, TxRead
    <3>2. CASE r.pc # "idle"
      BY <1>0, <1>1, <1>3, <2>2, <3>2, TxFacts DEF Latest, VcRead, TxRead
    <3> QED BY <3>1, <3>2
  <2> QED BY <2>1, <2>2
<1>9. \A g \in Feed : (Wellformed(feed[g]) /\ Observed(feed[g]))'
  BY <1>7 DEF Wellformed, Observed, VcRead, TxRead
<1> QED BY <1>4, <1>5, <1>6, <1>8, <1>9 DEF Inv

\* A transaction is left behind, and perhaps the feed is given up.
LEMMA UnansweredPreserves ==
  ASSUME Inv, NEW f \in Feed, SubmitUnanswered(f)
  PROVE  Inv'
<1>1. /\ feed[f].pc \in {"setCount", "update"}
      /\ UNCHANGED <<truth, chain, overlapped>>
      /\ ghosts' = ghosts \cup {Tx(f)}
  BY DEF SubmitUnanswered, Waiting, network
<1>2. CASE Throw(f, TRUE)
  <2>1. turn' \in 1 .. Len(Subjects) /\ feed' = [feed EXCEPT ![f] = Idle]
    BY <1>2, NextTurnTyped DEF Throw, Inv, Typed
  <2> QED BY <1>1, <2>1, GhostAdded
<1>3. CASE ~Throw(f, TRUE)
  <2> DEFINE r == [feed[f] EXCEPT !.sent = TRUE]
  <2>1. turn' \in 1 .. Len(Subjects) /\ feed' = [feed EXCEPT ![f] = r]
    BY <1>3 DEF SubmitUnanswered, Inv, Typed
  <2> QED BY <1>1, <2>1, GhostAdded
<1> QED BY <1>2, <1>3

\* Everything that goes wrong in a feed.
LEMMA MishapPreserves ==
  ASSUME Inv, NEW f \in Feed, Mishap(f)
  PROVE  Inv'
<1>1. CASE RateLimited(f)
  BY <1>1, ReturnPreserves DEF RateLimited, network
<1>2. CASE RequestFails(f)
  BY <1>2, ThrowPreserves DEF RequestFails, network
<1> QED BY <1>1, <1>2, UnansweredPreserves, DropPreserves DEF Mishap

\* One of the two versions of a subject is replaced.
LEMMA PairUpdate ==
  ASSUME NEW old \in [vc : Int, tx : Int], NEW v \in Int, NEW key \in {"vc", "tx"},
         NEW new, new = [old EXCEPT ![key] = v]
  PROVE  /\ new \in [vc : Int, tx : Int]
         /\ new.vc = IF key = "vc" THEN v ELSE old.vc
         /\ new.tx = IF key = "tx" THEN v ELSE old.tx
<1>1. /\ [old EXCEPT !["vc"] = v] \in [vc : Int, tx : Int]
      /\ [old EXCEPT !["vc"] = v].vc = v /\ [old EXCEPT !["vc"] = v].tx = old.tx
  OBVIOUS
<1>2. /\ [old EXCEPT !["tx"] = v] \in [vc : Int, tx : Int]
      /\ [old EXCEPT !["tx"] = v].tx = v /\ [old EXCEPT !["tx"] = v].vc = old.vc
  OBVIOUS
<1>3. CASE key = "vc"
  BY <1>1, <1>3
<1>4. CASE key = "tx"
  BY <1>2, <1>4
<1> QED BY <1>3, <1>4

\* A transaction that no feed of its subject has overtaken is applied, and the
\* others in flight become invalid.
LEMMA ApplyPreserves ==
  ASSUME Inv, NEW tx \in Transaction, Pending(tx), Apply(tx),
         \A f \in Feed : feed[f].subject = tx.subject /\ tx.subject \notin overlapped =>
           /\ tx.key = "vc" /\ VcRead(feed[f]) => feed[f].vc >= tx.version
           /\ tx.key = "tx" /\ TxRead(feed[f]) =>
                feed[f].tx \in Failed \/ feed[f].tx >= tx.version,
         feed' \in [Feed -> FeedState],
         \A f \in Feed : /\ feed'[f].pc = feed[f].pc /\ feed'[f].subject = feed[f].subject
                          /\ feed'[f].vc = feed[f].vc /\ feed'[f].tx = feed[f].tx
                          /\ feed'[f].net # "pending",
         ghosts' = {}, UNCHANGED <<truth, overlapped, turn>>
  PROVE  Inv'
<1>1. /\ tx.subject \in Subject /\ tx.version \in Int /\ tx.key \in {"vc", "tx"}
      /\ truth \in [Subject -> [vc : Nat, tx : Nat]]
      /\ chain \in [Subject -> [vc : Int, tx : Int]]
  BY DEF Transaction, Inv, Typed
<1>2. chain' = [chain EXCEPT ![tx.subject] = [chain[tx.subject] EXCEPT ![tx.key] = tx.version]]
  BY DEF Apply
<1> DEFINE new == [chain[tx.subject] EXCEPT ![tx.key] = tx.version]
<1>a. /\ new \in [vc : Int, tx : Int]
      /\ new.vc = IF tx.key = "vc" THEN tx.version ELSE chain[tx.subject].vc
      /\ new.tx = IF tx.key = "tx" THEN tx.version ELSE chain[tx.subject].tx
  BY <1>1, PairUpdate
<1> HIDE DEF new
<1>3. /\ chain' \in [Subject -> [vc : Int, tx : Int]]
      /\ \A s \in Subject :
           /\ chain'[s].vc = IF s = tx.subject /\ tx.key = "vc" THEN tx.version ELSE chain[s].vc
           /\ chain'[s].tx = IF s = tx.subject /\ tx.key = "tx" THEN tx.version ELSE chain[s].tx
  <2>1. chain' = [chain EXCEPT ![tx.subject] = new]
    BY <1>2 DEF new
  <2> QED BY <1>1, <1>a, <2>1
<1>4. Typed' /\ Held'
  BY <1>1, <1>3 DEF Inv, Typed, Held, Pending
<1>5. Alone'
  BY DEF Inv, Alone
<1>6. \A f \in Feed : (Wellformed(feed[f]) /\ Observed(feed[f]))'
  BY DEF Inv, Wellformed, Observed, VcRead, TxRead
<1>7. ASSUME NEW f \in Feed PROVE Latest(feed[f])'
  <2>1. Latest(feed[f]) /\ feed[f].vc \in Int /\ feed[f].tx \in Int
    BY DEF Inv, Wellformed, FeedState
  <2>2. VcRead(feed'[f]) = VcRead(feed[f]) /\ TxRead(feed'[f]) = TxRead(feed[f])
    BY DEF VcRead, TxRead
  <2> QED BY <1>1, <1>3, <2>1, <2>2 DEF Latest, VcRead, TxRead
<1> QED BY <1>4, <1>5, <1>6, <1>7 DEF Inv

\* The transaction a feed waits for is applied.
LEMMA LandPreserves ==
  ASSUME Inv, NEW f \in Feed, Land(f)
  PROVE  Inv'
<1>1. feed[f].pc \in {"waitCount", "waitUpdate"} /\ feed[f].subject \in Subject
  BY DEF Land, Inv, Wellformed
<1>2. \A g \in Feed : feed[g].subject = Tx(f).subject /\ Tx(f).subject \notin overlapped => g = f
  BY <1>1, TxFacts DEF Inv, Alone
<1>3. /\ feed' \in [Feed -> FeedState]
      /\ \A g \in Feed : /\ feed'[g].pc = feed[g].pc /\ feed'[g].subject = feed[g].subject
                          /\ feed'[g].vc = feed[g].vc /\ feed'[g].tx = feed[g].tx
                          /\ feed'[g].net # "pending"
  BY DEF Land, Inv, Typed, FeedState
<1>4. ghosts' = {} /\ UNCHANGED <<truth, overlapped, turn>> /\ Apply(Tx(f))
  BY DEF Land, daemon
<1>5. feed[f].vc \in Int /\ feed[f].tx \in Int
  BY DEF Inv, Wellformed, FeedState
<1>6. \A g \in Feed : feed[g].subject = Tx(f).subject /\ Tx(f).subject \notin overlapped =>
        /\ Tx(f).key = "vc" /\ VcRead(feed[g]) => feed[g].vc >= Tx(f).version
        /\ Tx(f).key = "tx" /\ TxRead(feed[g]) =>
             feed[g].tx \in Failed \/ feed[g].tx >= Tx(f).version
  BY <1>1, <1>2, <1>5, TxFacts
<1> QED BY <1>1, <1>3, <1>4, <1>6, TxFacts, ApplyPreserves

\* A transaction that nobody waits for is applied.
LEMMA LandGhostPreserves ==
  ASSUME Inv, LandGhost
  PROVE  Inv'
<1>1. PICK tx \in ghosts : Apply(tx)
  BY DEF LandGhost
<1>2. tx \in Transaction /\ Pending(tx)
  BY DEF Inv, Typed
<1>3. /\ feed' \in [Feed -> FeedState]
      /\ \A g \in Feed : /\ feed'[g].pc = feed[g].pc /\ feed'[g].subject = feed[g].subject
                          /\ feed'[g].vc = feed[g].vc /\ feed'[g].tx = feed[g].tx
                          /\ feed'[g].net # "pending"
  BY DEF LandGhost, Inv, Typed, FeedState
<1>4. ghosts' = {} /\ UNCHANGED <<truth, overlapped, turn>>
  BY DEF LandGhost, daemon
<1>5. \A g \in Feed : feed[g].subject = tx.subject /\ tx.subject \notin overlapped =>
        /\ tx.key = "vc" /\ VcRead(feed[g]) => feed[g].vc >= tx.version
        /\ tx.key = "tx" /\ TxRead(feed[g]) => feed[g].tx \in Failed \/ feed[g].tx >= tx.version
  BY <1>2 DEF Inv, Latest, Transaction
<1> QED BY <1>1, <1>2, <1>3, <1>4, <1>5, ApplyPreserves

-----------------------------------------------------------------------------
(* Feeds are started, the sources change, the process ends.                *)

\* Some feeds begin, with nothing read yet; the others go on.
LEMMA StartedPreserves ==
  ASSUME Inv, NEW fd \in [Feed -> FeedState], Started(fd),
         \A f \in Feed : \/ fd[f] = feed[f]
                         \/ /\ fd[f].pc = "count" /\ fd[f].subject \in Subject
                            /\ fd[f].net # "pending",
         UNCHANGED <<truth, chain, ghosts, turn>>
  PROVE  Inv'
<1>1. feed' = fd /\ overlapped \subseteq overlapped'
  BY DEF Started
<1>2. Typed' /\ Held'
  BY <1>1 DEF Inv, Typed, Held
<1>3. Alone'
  BY DEF Alone, Started
<1>4. \A g \in ghosts' : Pending(g)'
  BY <1>1 DEF Inv, Pending
<1>5. ASSUME NEW f \in Feed PROVE (Wellformed(feed[f]) /\ Observed(feed[f]) /\ Latest(feed[f]))'
  <2>1. CASE fd[f] = feed[f]
    <3>1. Wellformed(feed[f]) /\ Observed(feed[f]) /\ Latest(feed[f])
      BY DEF Inv
    <3> QED BY <1>1, <2>1, <3>1 DEF Wellformed, Observed, Latest, VcRead, TxRead
  <2>2. CASE fd[f] # feed[f]
    <3>1. ~VcRead(feed'[f]) /\ ~TxRead(feed'[f])
      BY <1>1, <2>2 DEF VcRead, TxRead, PC
    <3>2. Wellformed(feed'[f])
      BY <1>1, <2>2 DEF Wellformed
    <3> QED BY <3>1, <3>2 DEF Wellformed, Observed, Latest, VcRead, TxRead
  <2> QED BY <2>1, <2>2
<1> QED BY <1>2, <1>3, <1>4, <1>5 DEF Inv

\* The record of a feed that begins.
Begun(s) == [Idle EXCEPT !.pc = "count", !.subject = s]

\* It has read nothing and submitted nothing.
LEMMA Beginning ==
  ASSUME NEW s \in Subject
  PROVE  /\ Begun(s) \in FeedState
         /\ Begun(s).pc = "count" /\ Begun(s).subject = s /\ Begun(s).net # "pending"
<1>1. Idle \in FeedState /\ Idle.net # "pending"
  BY FeederAssumption DEF Idle, FeedState, PC
<1> QED BY <1>1 DEF Begun, FeedState, PC

\* The polling loop starts a feed.
LEMMA StartPollPreserves ==
  ASSUME Inv, StartPoll
  PROVE  Inv'
<1> DEFINE s == Subjects[turn]
           r == Begun(s)
           fd == [feed EXCEPT ![Poll] = r]
<1>1. turn \in DOMAIN Subjects
  BY FeederAssumption DEF Inv, Typed
<1>2. s \in Subject
  BY <1>1 DEF Subject
<1>3. r \in FeedState /\ r.pc = "count" /\ r.subject = s /\ r.net # "pending"
  BY <1>2, Beginning
<1>4. Started(fd) /\ UNCHANGED <<truth, chain, ghosts, turn>>
  BY DEF StartPoll, network, daemon, Begun
<1> HIDE DEF r, s
<1>5. feed \in [Feed -> FeedState] /\ Poll \in Feed
  BY DEF Inv, Typed, Feed
<1>6. /\ fd \in [Feed -> FeedState]
      /\ \A f \in Feed : fd[f] = feed[f] \/ fd[f] = r
  BY <1>3, <1>5
<1> HIDE DEF fd
<1> QED BY <1>2, <1>3, <1>4, <1>6, StartedPreserves

\* The event loop starts feeds.
LEMMA PollEventsPreserves ==
  ASSUME Inv, NEW name, PollEvents(name)
  PROVE  Inv'
<1> DEFINE page == Page(name)
           mine == {i \in DOMAIN page : page[i].subject \in Subject}
           fed == {i \in mine : name = "VCAnch" \/ page[i].subject \in known}
           free == {f \in EventFeed : feed[f].pc = "idle"}
           fd(slot) == [f \in Feed |->
                          IF \E i \in fed : slot[i] = f
                          THEN Begun(page[CHOOSE i \in fed : slot[i] = f].subject)
                          ELSE feed[f]]
<1>1. PICK slot \in [fed -> free] : Started(fd(slot))
  BY Zenon DEF PollEvents, Begun
<1>2. UNCHANGED <<truth, chain, ghosts, turn>>
  BY DEF PollEvents, network
<1>3. \A i \in fed : page[i].subject \in Subject
  OBVIOUS
<1>4. \A s \in Subject : /\ Begun(s) \in FeedState /\ Begun(s).pc = "count"
                         /\ Begun(s).subject \in Subject /\ Begun(s).net # "pending"
  BY Beginning
<1> HIDE DEF page, fed
<1>5. feed \in [Feed -> FeedState]
  BY DEF Inv, Typed
<1>6. ASSUME NEW f \in Feed
      PROVE  \/ fd(slot)[f] = feed[f]
             \/ \E s \in Subject : fd(slot)[f] = Begun(s)
  <2>1. CASE \E i \in fed : slot[i] = f
    <3>1. (CHOOSE i \in fed : slot[i] = f) \in fed
      BY <2>1
    <3> QED BY <1>3, <2>1, <3>1
  <2> QED BY <2>1
<1>7. fd(slot) \in [Feed -> FeedState]
  <2>1. \A f \in Feed : fd(slot)[f] \in FeedState
    BY <1>4, <1>5, <1>6
  <2> QED BY <2>1
<1> HIDE DEF fd
<1> QED BY <1>1, <1>2, <1>4, <1>6, <1>7, StartedPreserves

\* The sources change and nothing else does.
LEMMA TruthGrows ==
  ASSUME Inv, truth' \in [Subject -> [vc : Nat, tx : Nat]],
         \A s \in Subject : truth'[s].vc >= truth[s].vc /\ truth'[s].tx >= truth[s].tx,
         UNCHANGED <<chain, feed, ghosts, overlapped, turn>>
  PROVE  Inv'
<1>1. Typed' /\ Held'
  BY DEF Inv, Typed, Held
<1>2. Alone'
  BY DEF Inv, Alone
<1>3. \A g \in ghosts' : Pending(g)'
  BY DEF Inv, Typed, Pending, Transaction
<1>4. ASSUME NEW f \in Feed PROVE (Wellformed(feed[f]) /\ Observed(feed[f]) /\ Latest(feed[f]))'
  <2>1. Wellformed(feed[f]) /\ Observed(feed[f]) /\ Latest(feed[f])
        /\ feed[f].vc \in Int /\ feed[f].tx \in Int
    BY DEF Inv, Wellformed, FeedState
  <2>2. Observed(feed[f])'
    BY <2>1 DEF Observed, Inv, Typed, VcRead, TxRead
  <2> QED BY <2>1, <2>2 DEF Wellformed, Latest, VcRead, TxRead
<1> QED BY <1>1, <1>2, <1>3, <1>4 DEF Inv

\* Everything outside the feeder.
LEMMA WorldPreserves ==
  ASSUME Inv, World
  PROVE  Inv'
<1>1. truth \in [Subject -> [vc : Nat, tx : Nat]]
  BY DEF Inv, Typed
<1>2. ASSUME NEW s \in Subject, CountChanges(s) PROVE Inv'
  <2> DEFINE new == [truth[s] EXCEPT !["vc"] = truth[s].vc + 1]
  <2>1. truth' = [truth EXCEPT ![s] = new]
    BY <1>2 DEF CountChanges
  <2>2. /\ truth[s] \in [vc : Nat, tx : Nat] /\ truth[s].vc + 1 \in Nat
        /\ truth[s].vc + 1 >= truth[s].vc /\ truth[s].tx >= truth[s].tx
    BY <1>1
  <2>3. new \in [vc : Nat, tx : Nat] /\ new.vc = truth[s].vc + 1 /\ new.tx = truth[s].tx
    BY <2>2
  <2> HIDE DEF new
  <2>4. UNCHANGED <<chain, feed, ghosts, overlapped, turn>>
    BY <1>2 DEF CountChanges, daemon
  <2>5. truth' \in [Subject -> [vc : Nat, tx : Nat]]
    BY <1>1, <2>1, <2>3
  <2>6. \A t \in Subject : truth'[t].vc >= truth[t].vc /\ truth'[t].tx >= truth[t].tx
    BY <1>1, <2>1, <2>2, <2>3
  <2> QED BY <2>4, <2>5, <2>6, TruthGrows
<1>3. ASSUME NEW s \in Subject, StatsChange(s) PROVE Inv'
  <2> DEFINE new == [truth[s] EXCEPT !["tx"] = truth[s].tx + 1]
  <2>1. truth' = [truth EXCEPT ![s] = new]
    BY <1>3 DEF StatsChange
  <2>2. /\ truth[s] \in [vc : Nat, tx : Nat] /\ truth[s].tx + 1 \in Nat
        /\ truth[s].tx + 1 >= truth[s].tx /\ truth[s].vc >= truth[s].vc
    BY <1>1
  <2>3. new \in [vc : Nat, tx : Nat] /\ new.tx = truth[s].tx + 1 /\ new.vc = truth[s].vc
    BY <2>2
  <2> HIDE DEF new
  <2>4. UNCHANGED <<chain, feed, ghosts, overlapped, turn>>
    BY <1>3 DEF StatsChange, daemon
  <2>5. truth' \in [Subject -> [vc : Nat, tx : Nat]]
    BY <1>1, <2>1, <2>3
  <2>6. \A t \in Subject : truth'[t].vc >= truth[t].vc /\ truth'[t].tx >= truth[t].tx
    BY <1>1, <2>1, <2>2, <2>3
  <2> QED BY <2>4, <2>5, <2>6, TruthGrows
<1> QED BY <1>2, <1>3, LandGhostPreserves DEF World

\* What was pending is left behind, and every feed is gone.
LEMMA RestartPreserves ==
  ASSUME Inv, Restart
  PROVE  Inv'
<1>1. /\ UNCHANGED <<truth, chain, overlapped>>
      /\ feed' = [f \in Feed |-> Idle] /\ turn' = 1
      /\ ghosts' = ghosts \cup {Tx(f) : f \in {g \in Feed : feed[g].net = "pending"}}
  BY DEF Restart, network
<1>2. \A g \in Feed : feed[g].net = "pending" => feed[g].pc \in {"waitCount", "waitUpdate"}
  BY DEF Inv, Wellformed
<1>3. \A g \in ghosts' : g \in Transaction /\ Pending(g)
  BY <1>1, <1>2, TxFacts DEF Inv, Typed
<1>4. Idle \in FeedState /\ Wellformed(Idle) /\ ~VcRead(Idle) /\ ~TxRead(Idle)
      /\ Idle.subject \notin Subject
  BY FeederAssumption DEF Wellformed, FeedState, Idle, PC, VcRead, TxRead
<1>5. 1 \in 1 .. Len(Subjects)
  BY FeederAssumption
<1>6. Typed' /\ Held'
  BY <1>1, <1>3, <1>4, <1>5 DEF Inv, Typed, Held
<1>7. Alone'
  BY <1>1, <1>4 DEF Alone
<1>8. \A g \in ghosts' : Pending(g)'
  BY <1>1, <1>3 DEF Pending
<1>9. \A f \in Feed : (Wellformed(feed[f]) /\ Observed(feed[f]) /\ Latest(feed[f]))'
  BY <1>1, <1>4 DEF Wellformed, Observed, Latest, VcRead, TxRead
<1> QED BY <1>6, <1>7, <1>8, <1>9 DEF Inv

-----------------------------------------------------------------------------
(* The theorem.                                                            *)

\* The invariant holds at the start.
LEMMA InvInitially == Init => Inv
<1> SUFFICES ASSUME Init PROVE Inv
  OBVIOUS
<1>1. /\ truth = [s \in Subject |-> [vc |-> 0, tx |-> 0]] /\ chain = truth
      /\ feed = [f \in Feed |-> Idle] /\ turn = 1 /\ ghosts = {} /\ overlapped = {}
  BY DEF Init
<1>2. Idle \in FeedState /\ Wellformed(Idle) /\ ~VcRead(Idle) /\ ~TxRead(Idle)
      /\ Idle.subject \notin Subject
  BY FeederAssumption DEF Wellformed, FeedState, Idle, PC, VcRead, TxRead
<1>3. 1 \in 1 .. Len(Subjects)
  BY FeederAssumption
<1>4. Typed /\ Held
  BY <1>1, <1>2, <1>3 DEF Typed, Held
<1>5. Alone
  BY <1>1, <1>2 DEF Alone
<1>6. \A f \in Feed : Wellformed(feed[f]) /\ Observed(feed[f]) /\ Latest(feed[f])
  BY <1>1, <1>2 DEF Observed, Latest
<1> QED BY <1>1, <1>4, <1>5, <1>6 DEF Inv

\* It speaks of these variables only.
LEMMA StutterPreserves ==
  ASSUME Inv, UNCHANGED <<truth, chain, feed, ghosts, overlapped, turn>>
  PROVE  Inv'
BY DEF Inv, Typed, Held, Alone, Pending, Wellformed, Observed, Latest, VcRead, TxRead

\* Every step preserves it.
LEMMA InvPreserved == Inv /\ [Next]_vars => Inv'
<1> SUFFICES ASSUME Inv, [Next]_vars PROVE Inv'
  OBVIOUS
<1>1. CASE Stop
  BY <1>1, StutterPreserves DEF Stop, network, daemon
<1>2. CASE UNCHANGED vars
  BY <1>2, StutterPreserves DEF vars, network, daemon
<1>3. CASE \E f \in Feed : Progress(f) \/ Mishap(f) \/ Land(f)
  BY <1>3, ProgressPreserves, MishapPreserves, LandPreserves
<1>4. CASE \E name \in {"VCAnch", "Revoked"} : PollEvents(name)
  BY <1>4, PollEventsPreserves
<1> QED
  BY <1>1, <1>2, <1>3, <1>4, WorldPreserves, StartPollPreserves, RestartPreserves DEF Next

\* The values of one subject before and after a step.
Forward(s) ==
  \/ s \in overlapped
  \/ /\ chain'[s].vc >= chain[s].vc
     /\ chain'[s].tx \in Failed \/ chain'[s].tx >= chain[s].tx

\* A transaction that may still be applied brings nothing older.
LEMMA ApplyForward ==
  ASSUME Inv, NEW tx \in Transaction, Pending(tx), Apply(tx), NEW s \in Subject
  PROVE  Forward(s)
<1>1. /\ tx.subject \in Subject /\ tx.version \in Int /\ tx.key \in {"vc", "tx"}
      /\ chain \in [Subject -> [vc : Int, tx : Int]]
      /\ chain[s].vc \in Int /\ chain[s].tx \in Int
  BY DEF Transaction, Inv, Typed
<1>2. CASE s # tx.subject
  <2>1. chain'[s] = chain[s]
    BY <1>1, <1>2 DEF Apply
  <2> QED BY <1>1, <2>1 DEF Forward
<1>3. CASE s = tx.subject
  <2>1. chain'[s] = [chain[s] EXCEPT ![tx.key] = tx.version]
    BY <1>1, <1>3 DEF Apply
  <2>2. /\ chain'[s].vc = IF tx.key = "vc" THEN tx.version ELSE chain[s].vc
        /\ chain'[s].tx = IF tx.key = "tx" THEN tx.version ELSE chain[s].tx
    <3>1. chain[s] \in [vc : Int, tx : Int]
      BY <1>1
    <3> QED BY <1>1, <2>1, <3>1, PairUpdate
  <2> QED BY <1>1, <1>3, <2>2 DEF Pending, Forward
<1> QED BY <1>2, <1>3

\* Every step but the two that apply a transaction leaves the oracle alone.
LEMMA ChainKept ==
  ASSUME [Next]_vars, ~LandGhost, \A f \in Feed : ~Land(f)
  PROVE  chain' = chain
<1>1. ASSUME NEW f \in Feed, Progress(f) PROVE chain' = chain
  BY <1>1 DEF Progress, ReadCount, SkipUnchanged, FetchStats, CheckOracle, SubmitOperation,
              ConfirmCount, ConfirmUpdate, GiveUp, network
<1>2. ASSUME NEW f \in Feed, Mishap(f) PROVE chain' = chain
  BY <1>2 DEF Mishap, RateLimited, SubmitUnanswered, RequestFails, Drop, network
<1>3. CASE World
  BY <1>3 DEF World, CountChanges, StatsChange
<1>4. CASE \E name \in {"VCAnch", "Revoked"} : PollEvents(name)
  BY <1>4 DEF PollEvents, network
<1>5. CASE StartPoll \/ Stop \/ Restart \/ UNCHANGED vars
  BY <1>5 DEF StartPoll, Stop, Restart, vars, network
<1> QED BY <1>1, <1>2, <1>3, <1>4, <1>5 DEF Next

\* No step brings anything older.
LEMMA StepForward ==
  ASSUME Inv, [Next]_vars, NEW s \in Subject
  PROVE  Forward(s)
<1>1. CASE LandGhost
  BY <1>1, ApplyForward DEF LandGhost, Inv, Typed
<1>2. ASSUME NEW f \in Feed, Land(f) PROVE Forward(s)
  <2>1. feed[f].pc \in {"waitCount", "waitUpdate"} /\ Apply(Tx(f))
    BY <1>2 DEF Land, Inv, Wellformed
  <2> QED BY <2>1, TxFacts, ApplyForward
<1>3. CASE chain' = chain
  BY <1>3 DEF Forward, Inv, Typed
<1> QED BY <1>1, <1>2, <1>3, ChainKept

\* submitOperation shares the sequence numbers of one account: for any
\* subjects, feeds and values, and after any failures and restarts, no
\* transaction of the feeder overwrites what was read after it, unless two
\* feeds of the subject overlapped.
THEOREM NoOlderOverwrites == Spec => OlderNeverOverwrites
<1>1. Spec => []Inv
  BY InvInitially, InvPreserved, PTL DEF Spec
<1>2. Inv /\ [Next]_vars =>
        [\A s \in Subject :
           \/ s \in overlapped
           \/ /\ chain'[s].vc >= chain[s].vc
              /\ chain'[s].tx \in Failed \/ chain'[s].tx >= chain[s].tx]_vars
  BY StepForward DEF Forward
<1> QED BY <1>1, <1>2, PTL DEF Spec, OlderNeverOverwrites
=============================================================================
