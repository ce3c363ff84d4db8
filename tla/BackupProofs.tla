---------------------------- MODULE BackupProofs ----------------------------
(***************************************************************************)
(* Theorems about Backup, for every number of servers, transactions, log   *)
(* files and archives: its types, what check_gtid.py reads out of the sets *)
(* of gtids, that the incremental backups of a chain connect, and that     *)
(* merge_incr.py loses nothing of them and leaves no gap.                  *)
(***************************************************************************)
EXTENDS Backup, FiniteSetTheorems, Inductions

\* What is true of the servers, and of the backup that runs.
ServersGood ==
    /\ mode \in Modes /\ primary \in Server /\ history \in Seq(Server)
    /\ applied \in [Server -> 0..Len(history)] /\ applied[primary] = Len(history)
    /\ starts \in [Server -> Seq(Nat)]
    /\ \A n \in Server : starts[n][Len(starts[n])] <= applied[n]
    /\ failovers \in 0..MaxFailovers
    /\ LogsFollow

RunGood ==
    /\ node \in Server \cup {Nobody}
    /\ todo # {} => todo \subseteq DOMAIN starts[node]
    /\ \A l \in logfiles : l.start <= l.end
    /\ node = Nobody => todo = {} /\ logfiles = {}
    /\ faults \in 0..MaxFaults

IInv == ServersGood /\ RunGood

LEMMA InitGood == Init => IInv
<1> SUFFICES ASSUME Init PROVE IInv
  OBVIOUS
<1> USE BackupAssumption DEF Init
<1>1. primary \in Server
  OBVIOUS
<1>2. starts \in [Server -> Seq(Nat)]
  OBVIOUS
<1>3. \A n \in Server : Len(starts[n]) = 1 /\ starts[n][1] = 0
  OBVIOUS
<1>4. history \in Seq(Server) /\ Len(history) = 0
  OBVIOUS
<1>5. ServersGood
  BY <1>1, <1>2, <1>3, <1>4 DEF ServersGood, LogsFollow
<1>6. RunGood
  BY DEF RunGood
<1> QED
  BY <1>5, <1>6 DEF IInv

LEMMA ServersStay == ServersGood /\ UNCHANGED servers => ServersGood'
<1> SUFFICES ASSUME ServersGood, UNCHANGED servers PROVE ServersGood'
  OBVIOUS
<1>1. LogsFollow'
  BY DEF servers, ServersGood, LogsFollow
<1> QED
  BY <1>1 DEF servers, ServersGood

LEMMA RunStays ==
    RunGood /\ UNCHANGED <<starts, node, todo, logfiles, faults>> => RunGood'
BY DEF RunGood

\* A copy of a log file ends no sooner than it starts.
LEMMA CopiesAreForward ==
    ASSUME ServersGood, NEW n \in Server, NEW i \in DOMAIN starts[n]
    PROVE  starts[n][i] <= EndOf(n, i)
<1>1. starts[n] \in Seq(Nat) /\ Len(starts[n]) \in Nat /\ DOMAIN starts[n] = 1..Len(starts[n])
  BY DEF ServersGood
<1>2. CASE i < Len(starts[n])
  <2>1. i \in 1..(Len(starts[n]) - 1)
    BY <1>1, <1>2
  <2>2. starts[n][i] <= starts[n][i + 1]
    BY <2>1 DEF ServersGood, LogsFollow
  <2> QED
    BY <2>2, <1>2 DEF EndOf
<1>3. CASE ~(i < Len(starts[n]))
  <2>1. i = Len(starts[n])
    BY <1>1, <1>3
  <2> QED
    BY <2>1, <1>3 DEF ServersGood, EndOf
<1> QED
  BY <1>2, <1>3

LEMMA StepGood == IInv /\ [Next]_vars => IInv'
<1> SUFFICES ASSUME ServersGood, RunGood, [Next]_vars PROVE ServersGood' /\ RunGood'
  BY DEF IInv
<1> USE BackupAssumption
<1>1. ASSUME NEW n \in Server, FullBackup(n) PROVE ServersGood' /\ RunGood'
  BY <1>1, ServersStay, RunStays DEF FullBackup, servers
<1>2. ASSUME NEW n \in Server, FullBackupFails(n) PROVE ServersGood' /\ RunGood'
  <2>1. UNCHANGED <<servers, node, todo, logfiles>> /\ faults' \in 0..MaxFaults
    BY <1>2 DEF FullBackupFails, RunGood
  <2> QED
    BY <2>1, ServersStay DEF RunGood, servers
<1>3. ASSUME NEW n \in Server, BeginIncremental(n) PROVE ServersGood' /\ RunGood'
  <2>1. /\ node' = n /\ n # Nobody /\ UNCHANGED servers /\ UNCHANGED <<logfiles, faults>>
        /\ todo' \subseteq DOMAIN starts[n]
    BY <1>3 DEF BeginIncremental, Nobody, FilesFor
  <2>2. starts' = starts
    BY <2>1 DEF servers
  <2> QED
    BY <2>1, <2>2, ServersStay DEF RunGood
<1>4. ASSUME CopyFile PROVE ServersGood' /\ RunGood'
  <2>1. PICK i \in todo : /\ logfiles' = logfiles \cup
                                {[name |-> i, start |-> starts[node][i], end |-> EndOf(node, i)]}
                          /\ todo' = todo \ {i}
    BY <1>4 DEF CopyFile
  <2>2. node # Nobody /\ node' = node /\ faults' = faults /\ UNCHANGED servers /\ starts' = starts
    BY <1>4 DEF CopyFile, servers
  <2>3. node \in Server /\ i \in DOMAIN starts[node]
    BY <2>2 DEF RunGood
  <2>4. \A l \in logfiles' : l.start <= l.end
    BY <2>1, <2>3, CopiesAreForward DEF RunGood
  <2> QED
    BY <2>1, <2>2, <2>4, ServersStay DEF RunGood
<1>5. ASSUME CopyFails PROVE ServersGood' /\ RunGood'
  <2>1. /\ node # Nobody /\ node' = node /\ logfiles' = logfiles /\ UNCHANGED servers
        /\ starts' = starts /\ faults' \in 0..MaxFaults
    BY <1>5 DEF CopyFails, servers, RunGood
  <2>2. todo' \subseteq todo
    BY <1>5 DEF CopyFails
  <2> QED
    BY <2>1, <2>2, ServersStay DEF RunGood
<1>6. ASSUME todo = {}, node' = Nobody, logfiles' = {}, UNCHANGED <<servers, todo>>,
             faults' \in 0..MaxFaults
      PROVE  ServersGood' /\ RunGood'
  BY <1>6, ServersStay DEF RunGood
<1>7. ASSUME ReadGtid PROVE ServersGood' /\ RunGood'
  <2>1. faults' \in 0..MaxFaults
    BY <1>7 DEF ReadGtid, RunGood
  <2> QED
    BY <1>6, <1>7, <2>1 DEF ReadGtid, Pack
<1>8. ASSUME ReadFails PROVE ServersGood' /\ RunGood'
  <2>1. faults' \in 0..MaxFaults
    BY <1>8 DEF ReadFails, RunGood
  <2> QED
    BY <1>6, <1>8, <2>1 DEF ReadFails, Pack
<1>9. ASSUME NEW n \in Server, Apply(n) PROVE ServersGood' /\ RunGood'
  <2>1. applied[n] < Len(history) /\ applied' = [applied EXCEPT ![n] = @ + 1]
        /\ UNCHANGED <<mode, primary, history, starts, failovers, node, todo, logfiles, faults>>
    BY <1>9 DEF Apply
  <2>2. n # primary /\ Len(history) \in Nat
    BY <2>1 DEF ServersGood
  <2>3. applied' \in [Server -> 0..Len(history)] /\ applied'[primary] = Len(history)
    <3>1. applied \in [Server -> 0..Len(history)] /\ applied[primary] = Len(history)
      BY DEF ServersGood
    <3>2. applied[n] + 1 \in 0..Len(history)
      BY <3>1, <2>1, <2>2
    <3> QED
      BY <3>1, <3>2, <2>1, <2>2
  <2>4. \A p \in Server : starts[p][Len(starts[p])] <= applied'[p]
    <3> TAKE p \in Server
    <3>1. starts[p] \in Seq(Nat) /\ Len(starts[p]) \in DOMAIN starts[p]
      <4>1. starts[p] \in Seq(Nat)
        BY DEF ServersGood
      <4>2. Len(starts[p]) > 0
        BY DEF ServersGood, LogsFollow
      <4> QED
        BY <4>1, <4>2
    <3>2. starts[p][Len(starts[p])] \in Nat
      BY <3>1
    <3>3. starts[p][Len(starts[p])] <= applied[p]
      BY DEF ServersGood
    <3>4. applied[p] \in Nat /\ applied[p] <= applied'[p] /\ applied'[p] \in Nat
      <4>1. applied \in [Server -> 0..Len(history)]
        BY DEF ServersGood
      <4>2. applied[p] \in Nat
        BY <4>1, <2>2
      <4>3. applied'[p] = applied[p] \/ applied'[p] = applied[p] + 1
        BY <4>1, <2>1
      <4> QED
        BY <4>2, <4>3
    <3> QED
      BY <3>2, <3>3, <3>4
  <2>5. LogsFollow'
    BY <2>1 DEF ServersGood, LogsFollow
  <2>6. ServersGood'
    BY <2>1, <2>3, <2>4, <2>5 DEF ServersGood
  <2> QED
    BY <2>1, <2>6, RunStays
<1>10. ASSUME NEW n \in Server, Rotate(n) PROVE ServersGood' /\ RunGood'
  <2>1. starts' = [starts EXCEPT ![n] = Append(starts[n], applied[n])]
        /\ UNCHANGED <<mode, primary, history, applied, failovers, node, todo, logfiles, faults>>
    BY <1>10 DEF Rotate
  <2>2. starts[n] \in Seq(Nat) /\ Len(starts[n]) \in Nat \ {0} /\ applied[n] \in Nat
    <3>1. starts[n] \in Seq(Nat) /\ applied[n] \in Nat
      BY DEF ServersGood
    <3>2. Len(starts[n]) > 0
      BY DEF ServersGood, LogsFollow
    <3> QED
      BY <3>1, <3>2
  <2>3. starts'[n] = Append(starts[n], applied[n])
    BY <2>1 DEF ServersGood
  <2>4. /\ starts'[n] \in Seq(Nat) /\ Len(starts'[n]) = Len(starts[n]) + 1
        /\ starts'[n][Len(starts[n]) + 1] = applied[n]
        /\ \A i \in 1..Len(starts[n]) : starts'[n][i] = starts[n][i]
    BY <2>2, <2>3
  <2>5. \A p \in Server \ {n} : starts'[p] = starts[p]
    BY <2>1 DEF ServersGood
  <2>6. starts' \in [Server -> Seq(Nat)]
    BY <2>1, <2>2 DEF ServersGood
  <2>7. \A p \in Server : starts'[p][Len(starts'[p])] <= applied[p]
    <3>1. starts'[n][Len(starts'[n])] <= applied[n]
      BY <2>2, <2>4
    <3>2. \A p \in Server : starts[p][Len(starts[p])] <= applied[p]
      BY DEF ServersGood
    <3> QED
      BY <3>1, <3>2, <2>5
  <2>8. LogsFollow'
    <3> SUFFICES ASSUME NEW p \in Server
                 PROVE  /\ Len(starts'[p]) > 0
                        /\ \A i \in 1..(Len(starts'[p]) - 1) : starts'[p][i] <= starts'[p][i + 1]
      BY DEF LogsFollow
    <3>1. CASE p # n
      BY <3>1, <2>5 DEF ServersGood, LogsFollow
    <3>2. CASE p = n
      <4>1. starts[n][Len(starts[n])] <= applied[n]
        BY DEF ServersGood
      <4>2. Len(starts'[n]) > 0
        BY <2>2, <2>3
      <4>3. ASSUME NEW i \in 1..(Len(starts'[n]) - 1)
            PROVE  starts'[n][i] <= starts'[n][i + 1]
        <5>1. i \in 1..Len(starts[n])
          BY <2>2, <2>4, <4>3
        <5>2. CASE i = Len(starts[n])
          BY <5>1, <5>2, <2>4, <4>1
        <5>3. CASE i # Len(starts[n])
          <6>1. i \in 1..(Len(starts[n]) - 1) /\ i + 1 \in 1..Len(starts[n])
            BY <5>1, <5>3, <2>2
          <6>2. starts[n][i] <= starts[n][i + 1]
            BY <6>1 DEF ServersGood, LogsFollow
          <6> QED
            BY <5>1, <6>1, <6>2, <2>4
        <5> QED
          BY <5>2, <5>3
      <4> QED
        BY <3>2, <4>2, <4>3
    <3> QED
      BY <3>1, <3>2
  <2>9. todo # {} => todo \subseteq DOMAIN starts'[node]
    <3>1. SUFFICES ASSUME todo # {} PROVE todo \subseteq DOMAIN starts'[node]
      OBVIOUS
    <3>2. node \in Server /\ todo \subseteq DOMAIN starts[node]
      BY <3>1 DEF RunGood
    <3>3. DOMAIN starts[n] = 1..Len(starts[n]) /\ DOMAIN starts'[n] = 1..(Len(starts[n]) + 1)
      BY <2>2, <2>4
    <3> QED
      BY <3>2, <3>3, <2>2, <2>5
  <2>10. ServersGood'
    BY <2>1, <2>6, <2>7, <2>8 DEF ServersGood
  <2>11. RunGood'
    BY <2>1, <2>9 DEF RunGood
  <2> QED
    BY <2>10, <2>11
<1>11. ASSUME NEW n \in Server, Failover(n) PROVE ServersGood' /\ RunGood'
  <2>1. /\ UNCHANGED <<mode, history, applied, starts, node, todo, logfiles, faults>>
        /\ primary' = n /\ applied[n] = Len(history) /\ failovers' \in 0..MaxFailovers
    BY <1>11 DEF Failover, ServersGood
  <2>2. LogsFollow'
    BY <2>1 DEF ServersGood, LogsFollow
  <2> QED
    BY <2>1, <2>2, RunStays DEF ServersGood
<1>12. ASSUME Commit PROVE ServersGood' /\ RunGood'
  <2>1. history' = Append(history, primary) /\ applied' = [applied EXCEPT ![primary] = @ + 1]
        /\ UNCHANGED <<mode, primary, starts, failovers, node, todo, logfiles, faults>>
    BY <1>12 DEF Commit
  <2>2. history' \in Seq(Server) /\ Len(history') = Len(history) + 1 /\ Len(history) \in Nat
    BY <2>1 DEF ServersGood
  <2>3. applied' \in [Server -> 0..Len(history')] /\ applied'[primary] = Len(history')
    BY <2>1, <2>2 DEF ServersGood
  <2>4. \A p \in Server : starts[p][Len(starts[p])] <= applied'[p]
    <3> TAKE p \in Server
    <3>1. starts[p] \in Seq(Nat) /\ Len(starts[p]) \in DOMAIN starts[p]
      <4>1. starts[p] \in Seq(Nat)
        BY DEF ServersGood
      <4>2. Len(starts[p]) > 0
        BY DEF ServersGood, LogsFollow
      <4> QED
        BY <4>1, <4>2
    <3>2. starts[p][Len(starts[p])] \in Nat
      BY <3>1
    <3>3. starts[p][Len(starts[p])] <= applied[p]
      BY DEF ServersGood
    <3>4. applied[p] \in Nat /\ applied[p] <= applied'[p] /\ applied'[p] \in Nat
      BY <2>1 DEF ServersGood
    <3> QED
      BY <3>2, <3>3, <3>4
  <2>5. LogsFollow'
    BY <2>1 DEF ServersGood, LogsFollow
  <2>6. ServersGood'
    BY <2>1, <2>2, <2>3, <2>4, <2>5 DEF ServersGood
  <2> QED
    BY <2>1, <2>6, RunStays
<1>13. CASE UNCHANGED vars
  BY <1>13, ServersStay, RunStays DEF vars, servers
<1> QED
  BY <1>1, <1>2, <1>3, <1>4, <1>5, <1>7, <1>8, <1>9, <1>10, <1>11, <1>12, <1>13 DEF Next

\* In every reachable state the variables hold what their comments say: the primary
\* has every transaction, a log file starts within what its server has, and copies
\* wait only while a backup runs (backupmysql.sh, "rm -fr logfiles").
THEOREM BackupTyping == Spec => []TypeOK
<1>1. IInv => TypeOK
  BY DEF IInv, ServersGood, RunGood, TypeOK
<1> QED
  BY InitGood, StepGood, <1>1, PTL DEF Spec

-----------------------------------------------------------------------------
\* The Max of FiniteSetsExt, of a set that has an upper bound.
LEMMA MaxIs ==
    ASSUME NEW S \in SUBSET Int, NEW m \in S, \A y \in S : m >= y
    PROVE  Max(S) = m
<1>1. Max(S) \in S /\ \A y \in S : Max(S) >= y
  BY DEF Max
<1>2. Max(S) \in Int /\ m \in Int /\ Max(S) >= m /\ m >= Max(S)
  BY <1>1
<1> QED
  BY <1>2

-----------------------------------------------------------------------------
(* check_gtid.py.                                                          *)

\* Among the transactions with some uuid one is the first.
LEMMA FirstWithExists ==
    ASSUME history \in Seq(Server), NEW i \in DOMAIN history
    PROVE  /\ FirstWith(Uuid(history[i])) \in DOMAIN history
           /\ Uuid(history[FirstWith(Uuid(history[i]))]) = Uuid(history[i])
<1> DEFINE u == Uuid(history[i])
           T == {j \in DOMAIN history : Uuid(history[j]) = u}
<1>1. DOMAIN history = 1..Len(history) /\ Len(history) \in Nat
  OBVIOUS
<1>2. T \in SUBSET Nat /\ i \in T
  BY <1>1
<1>3. PICK x \in T : \A y \in T : x <= y
  BY <1>2, LeastNumber
<1>4. \A j \in 1..(x - 1) : Uuid(history[j]) # u
  <2> TAKE j \in 1..(x - 1)
  <2>1. x \in 1..Len(history)
    BY <1>1
  <2>2. j \in DOMAIN history /\ ~(x <= j)
    BY <1>1, <2>1
  <2> QED
    BY <2>2, <1>3
<1> HIDE DEF u
<1>5. /\ FirstWith(u) \in DOMAIN history
      /\ Uuid(history[FirstWith(u)]) = u
  BY <1>4 DEF FirstWith
<1> QED
  BY <1>5 DEF u

\* The numbers of u's first interval up to k, one for each transaction.
Interval(k, u) == {i \in 1..k : Uuid(history[i]) = u /\ history[i] = history[FirstWith(u)]}

\* What check_gtid.py reads of a set of gtids, with one interval for each uuid.
LEMMA EndsAre ==
    ASSUME NEW k \in Nat
    PROVE  /\ DOMAIN Ends(k) = {Uuid(history[i]) : i \in 1..k}
           /\ \A u \in DOMAIN Ends(k) : Ends(k)[u] = Cardinality(Interval(k, u))
           /\ \A u : IsFiniteSet(Interval(k, u)) /\ Cardinality(Interval(k, u)) \in Nat
<1>1. IsFiniteSet(1..k)
  BY FS_Interval
<1>2. ASSUME NEW u PROVE IsFiniteSet(Interval(k, u)) /\ Cardinality(Interval(k, u)) \in Nat
  <2>1. Interval(k, u) \in SUBSET (1..k)
    BY DEF Interval
  <2> QED
    BY <1>1, <2>1, FS_Subset, FS_CardinalityType
<1> QED
  BY <1>2 DEF Ends, Interval

\* With one interval for each uuid, reading the first interval of each is enough: a
\* log file starts beyond the gtids just when its first transaction is not in them.
LEMMA BeyondIsLater ==
    ASSUME history \in Seq(Server), OneInterval,
           NEW s \in 0..Len(history), NEW g \in 0..Len(history)
    PROVE  Beyond(s, g) <=> s > g
<1>0. Len(history) \in Nat /\ DOMAIN history = 1..Len(history) /\ s \in Nat /\ g \in Nat
  OBVIOUS
<1> DEFINE UuidsTo(k) == {Uuid(history[i]) : i \in 1..k}
<1>3. ASSUME NEW k \in {s, g}
      PROVE  /\ DOMAIN Ends(k) = UuidsTo(k)
             /\ \A u \in UuidsTo(k) : Ends(k)[u] = Cardinality(Interval(k, u))
             /\ \A u : IsFiniteSet(Interval(k, u)) /\ Cardinality(Interval(k, u)) \in Nat
  BY <1>0, EndsAre
<1>1. CASE s <= g
  <2>1. 1..s \subseteq 1..g
    BY <1>0, <1>1
  <2>2. ASSUME NEW u \in DOMAIN Ends(s)
        PROVE  u \in DOMAIN Ends(g) /\ ~(Ends(s)[u] > Ends(g)[u])
    <3>1. u \in UuidsTo(s) /\ u \in UuidsTo(g)
      BY <2>1, <1>3
    <3>2. Interval(s, u) \in SUBSET Interval(g, u)
      BY <2>1 DEF Interval
    <3>3. Cardinality(Interval(s, u)) <= Cardinality(Interval(g, u))
      BY <3>2, <1>3, FS_Subset
    <3>4. Ends(s)[u] = Cardinality(Interval(s, u)) /\ Ends(g)[u] = Cardinality(Interval(g, u))
      BY <3>1, <1>3
    <3>5. Cardinality(Interval(s, u)) \in Nat /\ Cardinality(Interval(g, u)) \in Nat
      BY <1>3
    <3>6. u \in DOMAIN Ends(g)
      BY <3>1, <1>3
    <3> QED
      BY <3>3, <3>4, <3>5, <3>6
  <2> QED
    BY <2>2, <1>0, <1>1 DEF Beyond
<1>2. CASE s > g
  <2> DEFINE u == Uuid(history[s])
  <2>1. s \in 1..s /\ s \in DOMAIN history /\ s \notin 1..g /\ 1..g \subseteq 1..s
    BY <1>0, <1>2
  <2>2. u \in DOMAIN Ends(s)
    BY <2>1, <1>3
  <2>3. history[s] = history[FirstWith(u)]
    BY <2>1, FirstWithExists DEF Uuid, OneInterval
  <2>4. s \in Interval(s, u) /\ s \notin Interval(g, u) /\ Interval(g, u) \in SUBSET Interval(s, u)
    BY <2>1, <2>3 DEF Interval
  <2> HIDE DEF u
  <2>5. Cardinality(Interval(s, u)) > Cardinality(Interval(g, u))
    <3>1. Cardinality(Interval(g, u)) <= Cardinality(Interval(s, u))
      BY <2>4, <1>3, FS_Subset
    <3>2. Cardinality(Interval(g, u)) # Cardinality(Interval(s, u))
      BY <2>4, <1>3, FS_Subset
    <3>3. Cardinality(Interval(s, u)) \in Nat /\ Cardinality(Interval(g, u)) \in Nat
      BY <1>3
    <3> QED
      BY <3>1, <3>2, <3>3
  <2>6. u \in DOMAIN Ends(g) => Ends(s)[u] > Ends(g)[u]
    <3>1. Ends(s)[u] = Cardinality(Interval(s, u))
      BY <2>2, <1>3
    <3>2. u \in DOMAIN Ends(g) => Ends(g)[u] = Cardinality(Interval(g, u))
      BY <1>3
    <3> QED
      BY <2>5, <3>1, <3>2
  <2> QED
    BY <2>2, <2>6, <1>2 DEF Beyond
<1> QED
  BY <1>0, <1>1, <1>2

-----------------------------------------------------------------------------
(* backupmysql.sh.                                                         *)

Sound == OneInterval /\ faults = 0

LogType == [name : Nat, start : Nat, end : Nat]
ArchiveType ==
    [node : Server, gtid : Nat \cup {NoGtid}, base : Nat, logs : SUBSET LogType]

\* The files of a server begin with its first transaction, and within what it has.
StartsGood ==
    \A n \in Server :
        starts[n][1] = 0 /\ \A i \in DOMAIN starts[n] : starts[n][i] <= applied[n]

ChainGood ==
    /\ chain \in Seq(ArchiveType) /\ logfiles \in SUBSET LogType
    /\ node # Nobody => chain # <<>>
    /\ faults = 0 => \A d \in DOMAIN chain : chain[d].gtid \in 0..Len(history)
    /\ ArchivesConnect

\* Where the archive before the one that is being made ends.
From == chain[Len(chain)].gtid
Covers(k) == (From + 1)..k \subseteq In(logfiles)

\* The files from some one up to file last are to be copied, and what comes before
\* them is covered; when all are, the last copy reaches far enough.
Running(last) ==
    /\ todo \subseteq 1..last
    /\ \A i \in todo : (i..last) \subseteq todo
    /\ \A i \in todo : IsNext(i) =>
          Covers(starts[node][i]) /\ \A l \in logfiles : l.end <= starts[node][i]
    /\ \A i \in (last + 1)..Len(starts[node]) : From <= starts[node][i]
    /\ From <= applied[node]
    /\ todo = {} => \E l \in logfiles :
          From <= l.end /\ Covers(l.end) /\ \A k \in logfiles : k.end <= l.end

RunConnects == Sound /\ node # Nobody => \E last \in DOMAIN starts[node] : Running(last)

CInv == StartsGood /\ ChainGood /\ RunConnects

\* What the type invariant says of the numbers and the log files.
LEMMA Basics ==
    ASSUME IInv
    PROVE  /\ history \in Seq(Server) /\ Len(history) \in Nat
           /\ DOMAIN history = 1..Len(history)
           /\ primary \in Server /\ applied[primary] = Len(history)
           /\ node \in Server \cup {Nobody} /\ Nobody \notin Server
           /\ node = Nobody => todo = {} /\ logfiles = {}
           /\ faults \in Nat
           /\ \A n \in Server :
                 /\ applied[n] \in 0..Len(history) /\ applied[n] \in Nat
                 /\ starts[n] \in Seq(Nat) /\ Len(starts[n]) \in Nat \ {0}
                 /\ DOMAIN starts[n] = 1..Len(starts[n])
                 /\ \A i \in DOMAIN starts[n] : starts[n][i] \in Nat
<1>1. /\ history \in Seq(Server) /\ primary \in Server /\ applied[primary] = Len(history)
      /\ applied \in [Server -> 0..Len(history)] /\ starts \in [Server -> Seq(Nat)]
  BY DEF IInv, ServersGood
<1>2. Len(history) \in Nat /\ DOMAIN history = 1..Len(history)
  BY <1>1
<1>3. /\ node \in Server \cup {Nobody} /\ Nobody \notin Server
      /\ node = Nobody => todo = {} /\ logfiles = {}
      /\ faults \in Nat
  BY BackupAssumption DEF IInv, RunGood, Nobody
<1>4. ASSUME NEW n \in Server
      PROVE  /\ applied[n] \in 0..Len(history) /\ applied[n] \in Nat
             /\ starts[n] \in Seq(Nat) /\ Len(starts[n]) \in Nat \ {0}
             /\ DOMAIN starts[n] = 1..Len(starts[n])
             /\ \A i \in DOMAIN starts[n] : starts[n][i] \in Nat
  <2>1. Len(starts[n]) > 0
    BY DEF IInv, ServersGood, LogsFollow
  <2> QED
    BY <1>1, <1>2, <2>1
<1> QED
  BY <1>1, <1>2, <1>3, <1>4

\* What the incremental backup that runs goes on from.
LEMMA FromIs ==
    ASSUME IInv, ChainGood, chain # <<>>
    PROVE  /\ Len(chain) \in Nat \ {0} /\ Len(chain) \in DOMAIN chain
           /\ faults = 0 => From \in 0..Len(history) /\ From \in Nat
<1>1. chain \in Seq(ArchiveType)
  BY DEF ChainGood
<1>2. Len(chain) \in Nat \ {0} /\ Len(chain) \in DOMAIN chain
  BY <1>1
<1>3. faults = 0 => From \in 0..Len(history)
  BY <1>2 DEF ChainGood, From
<1> QED
  BY <1>2, <1>3, Basics

\* There is no archive and no log file but the first of each server.
LEMMA InitConnects == Init => CInv
<1> SUFFICES ASSUME Init PROVE CInv
  OBVIOUS
<1>1. StartsGood
  BY DEF Init, StartsGood
<1>2. ArchivesConnect
  BY DEF Init, ArchivesConnect, Increments
<1>3. ChainGood
  BY <1>2 DEF Init, ChainGood
<1>4. RunConnects
  BY DEF Init, RunConnects
<1> QED
  BY <1>1, <1>3, <1>4 DEF CInv

-----------------------------------------------------------------------------
(* What the servers do.                                                    *)

\* The servers forget nothing: transactions are added, and log files after the last.
ServersOnlyAdd ==
    \A n \in Server :
        /\ applied'[n] \in Nat /\ applied[n] <= applied'[n]
        /\ starts'[n] \in Seq(Nat) /\ Len(starts[n]) <= Len(starts'[n])
        /\ \A i \in 1..Len(starts[n]) : starts'[n][i] = starts[n][i]
        /\ \A i \in (Len(starts[n]) + 1)..Len(starts'[n]) : applied[n] <= starts'[n][i]

LEMMA StepOnlyAdds == IInv /\ [Next]_vars => ServersOnlyAdd
<1> SUFFICES ASSUME IInv, [Next]_vars PROVE ServersOnlyAdd
  OBVIOUS
<1>0. /\ applied \in [Server -> Nat] /\ starts \in [Server -> Seq(Nat)]
      /\ primary \in Server
      /\ \A n \in Server :
            /\ applied[n] \in Nat /\ starts[n] \in Seq(Nat) /\ Len(starts[n]) \in Nat
            /\ (Len(starts[n]) + 1)..Len(starts[n]) = {}
  BY Basics DEF IInv, ServersGood
<1>1. ASSUME starts' = starts,
             applied' = applied \/ \E n \in Server : applied' = [applied EXCEPT ![n] = @ + 1]
      PROVE  ServersOnlyAdd
  <2>1. \A n \in Server : applied'[n] \in Nat /\ applied[n] <= applied'[n]
    BY <1>0, <1>1
  <2> QED
    BY <1>0, <1>1, <2>1 DEF ServersOnlyAdd
<1>2. ASSUME NEW n \in Server, Rotate(n) PROVE ServersOnlyAdd
  <2>1. starts' = [starts EXCEPT ![n] = Append(starts[n], applied[n])] /\ applied' = applied
    BY <1>2 DEF Rotate
  <2>2. ASSUME NEW p \in Server
        PROVE  /\ starts'[p] \in Seq(Nat) /\ Len(starts[p]) <= Len(starts'[p])
               /\ \A i \in 1..Len(starts[p]) : starts'[p][i] = starts[p][i]
               /\ \A i \in (Len(starts[p]) + 1)..Len(starts'[p]) : applied[p] <= starts'[p][i]
    <3>1. CASE p = n
      <4>1. /\ starts'[p] = Append(starts[n], applied[n]) /\ Len(starts'[p]) = Len(starts[n]) + 1
            /\ starts'[p] \in Seq(Nat)
            /\ \A i \in 1..Len(starts[n]) : starts'[p][i] = starts[n][i]
            /\ starts'[p][Len(starts[n]) + 1] = applied[n]
        BY <3>1, <2>1, <1>0
      <4> QED
        BY <3>1, <4>1, <1>0
    <3>2. CASE p # n
      <4>1. starts'[p] = starts[p]
        BY <3>2, <2>1, <1>0
      <4> QED
        BY <4>1, <1>0
    <3> QED
      BY <3>1, <3>2
  <2> QED
    BY <2>1, <2>2, <1>0 DEF ServersOnlyAdd
<1>3. ASSUME NEW n \in Server, Apply(n) PROVE ServersOnlyAdd
  BY <1>1, <1>3 DEF Apply
<1>4. CASE Commit
  BY <1>0, <1>1, <1>4 DEF Commit
<1>5. ASSUME UNCHANGED <<applied, starts>> PROVE ServersOnlyAdd
  BY <1>1, <1>5
<1>6. ASSUME NEW n \in Server,
             FullBackup(n) \/ FullBackupFails(n) \/ BeginIncremental(n) \/ Failover(n)
      PROVE  ServersOnlyAdd
  BY <1>5, <1>6 DEF FullBackup, FullBackupFails, BeginIncremental, Failover, servers
<1>7. CASE CopyFile \/ CopyFails \/ ReadGtid \/ ReadFails \/ UNCHANGED vars
  BY <1>5, <1>7 DEF CopyFile, CopyFails, ReadGtid, ReadFails, Pack, vars, servers
<1> QED
  BY <1>2, <1>3, <1>4, <1>6, <1>7 DEF Next

\* A transaction that is committed leaves what earlier ones are called.
LEMMA HistoryGrows ==
    ASSUME IInv, mode' = mode, history' \in {history, Append(history, primary)}
    PROVE  /\ Len(history') \in Nat /\ Len(history) <= Len(history')
           /\ OneInterval' => OneInterval
<1>1. history \in Seq(Server) /\ primary \in Server /\ Len(history) \in Nat
      /\ DOMAIN history = 1..Len(history)
  BY Basics
<1>2. Len(history') \in Nat /\ Len(history) <= Len(history')
  BY <1>1
<1>4. 1..Len(history) \subseteq DOMAIN history'
  BY <1>1
<1>5. \A i \in 1..Len(history) : history'[i] = history[i]
  BY <1>1
<1>3. ASSUME OneInterval', mode = "mgr", NEW i \in DOMAIN history
      PROVE  history[i] = history[1]
  <2>0. i \in 1..Len(history) /\ Len(history) \in Nat
    BY <1>1
  <2>1. 1 \in 1..Len(history)
    BY <2>0
  <2>2. history'[i] = history'[1]
    BY <1>3, <1>4, <2>0 DEF OneInterval
  <2> QED
    BY <1>5, <2>0, <2>1, <2>2
<1> QED
  BY <1>2, <1>3 DEF OneInterval

\* The archives are as good as they were while the servers go on.
LEMMA ChainStays ==
    ASSUME IInv, ChainGood, UNCHANGED <<chain, logfiles, node, faults>>,
           Len(history') \in Nat, Len(history) <= Len(history'), OneInterval' => OneInterval
    PROVE  ChainGood'
<1>1. Len(history) \in Nat
  BY Basics
<1>2. faults' = 0 => \A d \in DOMAIN chain' : chain'[d].gtid \in 0..Len(history')
  BY <1>1 DEF ChainGood
<1>3. ArchivesConnect'
  BY DEF ChainGood, ArchivesConnect, Increments, EndOfLogs, In
<1> QED
  BY <1>2, <1>3 DEF ChainGood, ArchiveType, LogType

\* Log files that are begun meanwhile, and transactions, are no harm.
LEMMA RunningStays ==
    ASSUME IInv, ChainGood, RunConnects, OneInterval' => OneInterval, ServersOnlyAdd,
           UNCHANGED <<chain, node, todo, logfiles, faults>>
    PROVE  RunConnects'
<1> USE DEF ServersOnlyAdd
<1> SUFFICES ASSUME Sound', node # Nobody PROVE \E last \in DOMAIN starts'[node] : Running(last)'
  BY DEF RunConnects
<1>1. Sound
  BY DEF Sound
<1>2. PICK last \in DOMAIN starts[node] : Running(last)
  BY <1>1 DEF RunConnects
<1>3. /\ node \in Server /\ From \in Nat /\ applied[node] \in Nat
      /\ Len(starts[node]) \in Nat /\ DOMAIN starts[node] = 1..Len(starts[node])
      /\ \A i \in DOMAIN starts[node] : starts[node][i] \in Nat
  BY <1>1, Basics, FromIs DEF ChainGood, Sound
<1>4. Len(starts'[node]) \in Nat /\ DOMAIN starts'[node] = 1..Len(starts'[node])
      /\ \A i \in DOMAIN starts'[node] : starts'[node][i] \in Nat
  BY <1>3
<1>5. last \in DOMAIN starts'[node]
  BY <1>3, <1>4
<1>6. From' = From /\ (\A k : Covers(k)' <=> (From + 1)..k \subseteq In(logfiles))
  BY DEF From, Covers, In
<1>7. ASSUME NEW i \in todo, IsNext(i)'
      PROVE  Covers(starts[node][i])' /\ \A l \in logfiles : l.end <= starts'[node][i]
  <2>1. i \in 1..Len(starts[node]) /\ starts'[node][i] = starts[node][i]
    BY <1>2, <1>3 DEF Running
  <2>2. IsNext(i)
    BY <1>7 DEF IsNext
  <2>3. Covers(starts[node][i]) /\ \A l \in logfiles : l.end <= starts[node][i]
    BY <1>2, <2>2 DEF Running
  <2> QED
    BY <2>1, <2>3, <1>6 DEF Covers
<1>8. ASSUME NEW i \in (last + 1)..Len(starts'[node]) PROVE From <= starts'[node][i]
  <2>1. CASE i <= Len(starts[node])
    <3>1. i \in (last + 1)..Len(starts[node]) /\ i \in 1..Len(starts[node])
      BY <1>3, <1>4, <2>1
    <3>2. From <= starts[node][i]
      BY <1>2, <3>1 DEF Running
    <3> QED
      BY <3>1, <3>2, <1>3
  <2>2. CASE i > Len(starts[node])
    <3>1. applied[node] <= starts'[node][i] /\ starts'[node][i] \in Nat
      BY <1>3, <1>4, <2>2
    <3>2. From <= applied[node]
      BY <1>2 DEF Running
    <3> QED
      BY <3>1, <3>2, <1>3
  <2> QED
    BY <2>1, <2>2, <1>3, <1>4
<1>9. From <= applied'[node]
  BY <1>2, <1>3 DEF Running
<1>10. todo = {} => \E l \in logfiles :
          From <= l.end /\ (From + 1)..l.end \subseteq In(logfiles) /\ \A k \in logfiles : k.end <= l.end
  BY <1>2 DEF Running, Covers
<1>11. todo \subseteq 1..last /\ \A i \in todo : (i..last) \subseteq todo
  BY <1>2 DEF Running
<1>12. Running(last)'
  BY <1>6, <1>7, <1>8, <1>9, <1>10, <1>11 DEF Running, Covers
<1> QED
  BY <1>5, <1>12

-----------------------------------------------------------------------------
(* What a backup does.                                                     *)

\* check_gtid.py takes the newest file, and goes back to one that begins within
\* the gtids.
LEMMA FilesGoBack ==
    ASSUME IInv, CInv, Sound, NEW n \in Server, chain # <<>>
    PROVE  /\ \A i : i \in FilesFor(n, From) <=>
                 i \in DOMAIN starts[n] /\ \A j \in (i + 1)..Len(starts[n]) : starts[n][j] > From
           /\ Len(starts[n]) \in FilesFor(n, From)
           /\ FilesFor(n, From) \subseteq DOMAIN starts[n]
           /\ \A i \in FilesFor(n, From) :
                 (\A j \in FilesFor(n, From) : i <= j) => starts[n][i] <= From
<1>0. PICK last : last = Len(starts[n])
  OBVIOUS
<1>1. /\ history \in Seq(Server) /\ Len(history) \in Nat
      /\ applied[n] \in 0..Len(history)
      /\ last \in Nat \ {0} /\ DOMAIN starts[n] = 1..last
      /\ \A i \in 1..last : starts[n][i] \in Nat
  BY <1>0, Basics
<1>2. From \in 0..Len(history) /\ From \in Nat /\ From # NoGtid
  BY FromIs DEF CInv, Sound, NoGtid
<1>3. \A i \in 1..last : starts[n][i] \in 0..Len(history)
  BY <1>1 DEF CInv, StartsGood
<1>4. \A i \in 1..last : Beyond(starts[n][i], From) <=> starts[n][i] > From
  BY <1>1, <1>2, <1>3, BeyondIsLater DEF Sound
<1> DEFINE files == FilesFor(n, From)
<1>5. \A i : i \in files <=> i \in 1..last /\ \A j \in (i + 1)..last : starts[n][j] > From
  BY <1>0, <1>1, <1>2, <1>4 DEF FilesFor
<1> HIDE DEF files
<1>6. last \in files
  BY <1>1, <1>5
<1>7. ASSUME NEW i \in files, \A j \in files : i <= j PROVE starts[n][i] <= From
  <2>1. i \in 1..last /\ starts[n][i] \in Nat
    BY <1>1, <1>5
  <2>2. CASE i = 1
    BY <2>2, <1>2 DEF CInv, StartsGood
  <2>3. CASE i # 1
    <3>1. i - 1 \in 1..last /\ i - 1 \notin files
      BY <1>7, <2>1, <2>3, <1>1
    <3>2. PICK j \in i..last : ~(starts[n][j] > From)
      <4>1. (i - 1) + 1 = i
        BY <2>1, <1>1
      <4> QED
        BY <3>1, <4>1, <1>5
    <3>3. ~(j \in (i + 1)..last)
      BY <3>2, <1>5
    <3>4. j = i
      BY <3>2, <3>3, <2>1, <1>1
    <3> QED
      BY <3>2, <3>4, <2>1, <1>2
  <2> QED
    BY <2>2, <2>3
<1> QED
  BY <1>0, <1>1, <1>5, <1>6, <1>7 DEF files

\* check_gtid.py takes all files from the one in which the gtids end.
LEMMA BeginConnects ==
    ASSUME IInv, CInv, NEW n \in Server, BeginIncremental(n)
    PROVE  RunConnects'
<1> SUFFICES ASSUME Sound' PROVE \E last \in DOMAIN starts'[node'] : Running(last)'
  BY DEF RunConnects
<1>0. PICK last : last = Len(starts[n])
  OBVIOUS
<1>1. /\ node = Nobody /\ n = primary /\ chain # <<>> /\ node' = n
      /\ todo' = FilesFor(n, From)
      /\ UNCHANGED <<mode, history, applied, starts, chain, logfiles, faults>>
  BY DEF BeginIncremental, CanBegin, From, servers
<1>2. /\ Len(history) \in Nat /\ logfiles = {} /\ applied[n] = Len(history)
      /\ last \in Nat \ {0} /\ DOMAIN starts[n] = 1..last
      /\ \A i \in 1..last : starts[n][i] \in Nat
  BY <1>0, <1>1, Basics
<1>3. Sound
  BY <1>1 DEF Sound, OneInterval
<1>4. From \in 0..Len(history) /\ From \in Nat
  BY <1>1, <1>3, FromIs DEF CInv, Sound
<1>5. /\ \A i : i \in todo' <=> i \in 1..last /\ \A j \in (i + 1)..last : starts[n][j] > From
      /\ last \in todo' /\ todo' \subseteq 1..last
      /\ \A i \in todo' : (\A j \in todo' : i <= j) => starts[n][i] <= From
  BY <1>0, <1>1, <1>2, <1>3, FilesGoBack
<1>6. ASSUME NEW i \in todo' PROVE (i..last) \subseteq todo'
  <2>1. i \in 1..last /\ \A j \in (i + 1)..last : starts[n][j] > From
    BY <1>5
  <2>2. ASSUME NEW k \in i..last PROVE k \in todo'
    <3>1. k \in 1..last /\ (k + 1)..last \subseteq (i + 1)..last
      BY <2>1, <1>2
    <3> QED
      BY <3>1, <2>1, <1>5
  <2> QED
    BY <2>2
<1>7. ASSUME NEW i \in todo', IsNext(i)' PROVE (From + 1)..starts[n][i] = {}
  <2>1. \A j \in todo' : i <= j
    BY <1>7 DEF IsNext
  <2> QED
    BY <2>1, <1>2, <1>4, <1>5
<1>8. /\ last \in DOMAIN starts'[node'] /\ starts'[node'] = starts[n] /\ From' = From
      /\ (last + 1)..Len(starts[n]) = {} /\ From <= applied[n]
  BY <1>0, <1>1, <1>2, <1>4 DEF From
<1>9. Running(last)'
  BY <1>1, <1>2, <1>5, <1>6, <1>7, <1>8 DEF Running, Covers
<1> QED
  BY <1>8, <1>9

\* A log file that is copied adds its transactions.
LEMMA InAdds ==
    ASSUME NEW S, NEW l
    PROVE  In(S \cup {l}) = In(S) \cup ((l.start + 1)..l.end)
<1>1. ASSUME NEW x \in In(S \cup {l}) PROVE x \in In(S) \cup ((l.start + 1)..l.end)
  BY DEF In
<1>2. ASSUME NEW x \in In(S) \cup ((l.start + 1)..l.end) PROVE x \in In(S \cup {l})
  BY DEF In
<1> QED
  BY <1>1, <1>2

\* A copy of the next file covers what comes up to the file after it, which may have
\* been begun since, and to the end of the log when it is the last.
LEMMA CopyConnects ==
    ASSUME IInv, CInv, CopyFile
    PROVE  RunConnects' /\ logfiles' \in SUBSET LogType
<1>1. PICK i \in todo :
        /\ IsNext(i) /\ todo' = todo \ {i}
        /\ logfiles' = logfiles \cup
              {[name |-> i, start |-> starts[node][i], end |-> EndOf(node, i)]}
  BY DEF CopyFile
<1>2. /\ node # Nobody /\ node' = node
      /\ UNCHANGED <<mode, history, applied, starts, chain, faults>>
  BY DEF CopyFile, servers
<1> DEFINE s == starts[node]
           e == EndOf(node, i)
<1>3. /\ node \in Server /\ applied[node] \in Nat /\ Len(s) \in Nat
      /\ DOMAIN s = 1..Len(s) /\ \A j \in 1..Len(s) : s[j] \in Nat
  BY <1>2, Basics
<1>4. i \in 1..Len(s)
  BY <1>1, <1>3 DEF IInv, RunGood
<1>5. s[i] \in Nat /\ e \in Nat /\ s[i] <= e
  <2>1. s[i] <= e
    BY <1>3, <1>4, CopiesAreForward DEF IInv
  <2>2. e \in Nat
    BY <1>3, <1>4 DEF EndOf
  <2> QED
    BY <2>1, <2>2, <1>3, <1>4
<1>6. i < Len(s) => e = s[i + 1]
  BY DEF EndOf
<1>7. ~(i < Len(s)) => e = applied[node]
  BY DEF EndOf
<1> HIDE DEF e
<1> DEFINE new == [name |-> i, start |-> s[i], end |-> e]
<1>8. logfiles' = logfiles \cup {new}
  BY <1>1 DEF e
<1>9. logfiles' \in SUBSET LogType
  BY <1>8, <1>4, <1>5 DEF CInv, ChainGood, LogType
<1>10. In(logfiles') = In(logfiles) \cup (s[i] + 1)..e
  <2>1. new.start = s[i] /\ new.end = e
    OBVIOUS
  <2> HIDE DEF new
  <2>2. In(logfiles \cup {new}) = In(logfiles) \cup ((new.start + 1)..new.end)
    BY InAdds
  <2> QED
    BY <1>8, <2>1, <2>2
<1>11. ASSUME Sound' PROVE \E last \in DOMAIN s : Running(last)'
  <2>1. Sound /\ faults = 0
    BY <1>2, <1>11 DEF Sound, OneInterval
  <2>2. PICK last \in DOMAIN s : Running(last)
    BY <1>2, <2>1 DEF CInv, RunConnects
  <2>3. From \in Nat /\ From' = From
    BY <1>2, <2>1, FromIs DEF CInv, ChainGood, From
  <2>4. last \in 1..Len(s) /\ i \in 1..last /\ (i..last) \subseteq todo
    BY <2>2, <1>3 DEF Running
  <2>5. (From + 1)..s[i] \subseteq In(logfiles) /\ \A l \in logfiles : l.end <= s[i]
    BY <1>1, <2>2 DEF Running, Covers
  <2>6. (From + 1)..e \subseteq In(logfiles')
    <3> SUFFICES ASSUME NEW x \in (From + 1)..e PROVE x \in In(logfiles')
      OBVIOUS
    <3>1. x \in (From + 1)..s[i] \/ x \in (s[i] + 1)..e
      BY <1>5, <2>3
    <3> QED
      BY <3>1, <2>5, <1>10
  <2>7. \A l \in logfiles' : l.end <= e
    <3> TAKE l \in logfiles'
    <3>1. l \in LogType /\ l.end \in Nat
      BY <1>9 DEF LogType
    <3>2. CASE l \in logfiles
      BY <3>1, <3>2, <2>5, <1>5
    <3>3. CASE l = new
      BY <3>3, <1>5
    <3> QED
      BY <3>2, <3>3, <1>8
  <2>8. i = last => From <= e
    <3>1. \A j \in (last + 1)..Len(s) : From <= s[j]
      BY <2>2 DEF Running
    <3>2. From <= applied[node]
      BY <2>2 DEF Running
    <3>3. CASE i < Len(s)
      BY <1>4, <1>3, <1>6, <2>4, <3>1, <3>3
    <3> QED
      BY <1>7, <3>2, <3>3
  <2>9. \A j \in todo : j \in 1..last
    BY <2>2 DEF Running
  <2>10. ASSUME NEW j \in todo', IsNext(j)'
         PROVE  (From + 1)..s[j] \subseteq In(logfiles') /\ \A l \in logfiles' : l.end <= s[j]
    <3>1. j \in todo /\ j # i /\ i <= j /\ j \in 1..last
      BY <1>1, <2>9 DEF IsNext
    <3>2. i + 1 \in todo'
      BY <3>1, <2>4, <1>1
    <3>3. j <= i + 1
      BY <3>2, <2>10 DEF IsNext
    <3>4. j = i + 1 /\ i < Len(s)
      BY <3>1, <3>3, <2>4
    <3> QED
      BY <3>4, <1>6, <2>6, <2>7
  <2>11. todo' = {} => From <= e
    <3>1. last \in i..last
      BY <2>4
    <3> QED
      BY <3>1, <2>4, <2>8, <1>1
  <2>12. ASSUME NEW j \in todo' PROVE (j..last) \subseteq todo'
    <3>1. j \in todo /\ j # i /\ i <= j /\ j \in 1..last
      BY <1>1, <2>9 DEF IsNext
    <3>2. (j..last) \subseteq todo
      BY <3>1, <2>2 DEF Running
    <3>3. i \notin j..last
      BY <3>1, <2>4
    <3> QED
      BY <3>2, <3>3, <1>1
  <2>13. todo' = {} => \E l \in logfiles' :
           From <= l.end /\ (From + 1)..l.end \subseteq In(logfiles') /\ \A k \in logfiles' : k.end <= l.end
    <3>1. new \in logfiles' /\ new.end = e
      BY <1>8
    <3> QED
      BY <3>1, <2>6, <2>7, <2>11
  <2>14. /\ todo' \subseteq 1..last
         /\ \A j \in (last + 1)..Len(s) : From <= s[j]
         /\ From <= applied[node]
    BY <1>1, <2>2 DEF Running
  <2>15. starts'[node'] = s /\ applied'[node'] = applied[node]
    BY <1>2
  <2> HIDE DEF s
  <2>16. Running(last)'
    BY <2>3, <2>10, <2>12, <2>13, <2>14, <2>15 DEF Running, Covers, In
  <2> QED
    BY <2>16
<1> QED
  BY <1>2, <1>9, <1>11 DEF RunConnects

\* The archive that is packed ends where its last copy ends.
LEMMA PackConnects ==
    ASSUME IInv, CInv, ReadGtid
    PROVE  ChainGood'
<1> DEFINE new == [node |-> node, gtid |-> applied[node], base |-> 0, logs |-> logfiles]
           m == Len(chain)
<1>1. /\ node # Nobody /\ todo = {} /\ chain' = Append(chain, new) /\ node' = Nobody
      /\ logfiles' = {} /\ UNCHANGED <<mode, history, faults, applied, starts>>
  BY DEF ReadGtid, Pack, servers
<1>2. /\ node \in Server /\ applied[node] \in Nat /\ applied[node] \in 0..Len(history)
      /\ Len(history) \in Nat
  BY <1>1, Basics
<1>3. new \in ArchiveType /\ chain \in Seq(ArchiveType) /\ chain # <<>>
  BY <1>1, <1>2 DEF CInv, ChainGood, ArchiveType
<1> HIDE DEF new
<1>4. /\ m \in Nat \ {0} /\ Len(chain') = m + 1 /\ chain' \in Seq(ArchiveType)
      /\ DOMAIN chain' = 1..(m + 1)
      /\ \A d \in 1..m : chain'[d] = chain[d]
      /\ chain'[m + 1] = new
      /\ DOMAIN chain = 1..m
  BY <1>1, <1>3
<1> HIDE DEF m
<1>5. ASSUME faults' = 0, NEW d \in DOMAIN chain' PROVE chain'[d].gtid \in 0..Len(history')
  <2>1. CASE d = m + 1
    BY <2>1, <1>1, <1>2, <1>4 DEF new
  <2>2. CASE d # m + 1
    <3>1. d \in 1..m
      BY <2>2, <1>4
    <3> QED
      BY <3>1, <1>1, <1>4, <1>5 DEF CInv, ChainGood
  <2> QED
    BY <2>1, <2>2
<1>6. ASSUME Sound', NEW d \in 2..(m + 1)
      PROVE  /\ chain'[d - 1].gtid <= EndOfLogs(chain'[d].logs)
             /\ (chain'[d - 1].gtid + 1)..EndOfLogs(chain'[d].logs) \subseteq In(chain'[d].logs)
  <2>1. Sound
    BY <1>1, <1>6 DEF Sound, OneInterval
  <2>2. CASE d = m + 1
    <3>1. chain'[d - 1].gtid = From /\ chain'[d].logs = logfiles
      BY <2>2, <1>4 DEF new, From, m
    <3>2. PICK l \in logfiles :
            From <= l.end /\ Covers(l.end) /\ \A k \in logfiles : k.end <= l.end
      BY <2>1, <1>1 DEF CInv, RunConnects, Running
    <3>3. \A k \in logfiles : k.end \in Nat
      BY DEF CInv, ChainGood, LogType
    <3> DEFINE ends == {k.end : k \in logfiles} \cup {0}
    <3>4. ends \in SUBSET Int /\ l.end \in ends /\ \A y \in ends : l.end >= y
      BY <3>2, <3>3
    <3>5. EndOfLogs(logfiles) = l.end
      BY <3>4, MaxIs DEF EndOfLogs
    <3> QED
      BY <3>1, <3>2, <3>5 DEF Covers
  <2>3. CASE d # m + 1
    <3>1. d \in 2..m /\ d \in 1..m /\ d - 1 \in 1..m
      BY <2>3, <1>4
    <3>2. chain'[d] = chain[d] /\ chain'[d - 1] = chain[d - 1]
      BY <3>1, <1>4
    <3> QED
      BY <2>1, <3>1, <3>2 DEF CInv, ChainGood, ArchivesConnect, Sound, Increments, m
  <2> QED
    BY <2>2, <2>3
<1>7. ArchivesConnect'
  BY <1>4, <1>6 DEF ArchivesConnect, Sound, Increments, EndOfLogs, In
<1> QED
  BY <1>1, <1>4, <1>5, <1>7 DEF ChainGood, ArchiveType, LogType

-----------------------------------------------------------------------------
\* Each step keeps all three parts of the invariant.
LEMMA StepConnects == IInv /\ CInv /\ [Next]_vars => CInv'
<1> SUFFICES ASSUME IInv, CInv, [Next]_vars PROVE StartsGood' /\ ChainGood' /\ RunConnects'
  BY DEF CInv
<1>0. StartsGood /\ ChainGood /\ RunConnects
  BY DEF CInv
<1>1. ASSUME UNCHANGED servers PROVE StartsGood'
  BY <1>0, <1>1 DEF StartsGood, servers
\* What leaves the archives, and the backup that runs, alone.
<1>2. ASSUME mode' = mode, history' \in {history, Append(history, primary)},
             UNCHANGED <<chain, node, todo, logfiles, faults>>
      PROVE  ChainGood' /\ RunConnects'
  <2>1. /\ Len(history') \in Nat /\ Len(history) <= Len(history')
        /\ OneInterval' => OneInterval
    BY <1>2, HistoryGrows
  <2> QED
    BY <1>0, <1>2, <2>1, ChainStays, RunningStays, StepOnlyAdds
\* What begins no log file.
<1>3. ASSUME starts' = starts PROVE StartsGood'
  <2> SUFFICES ASSUME NEW n \in Server, NEW i \in DOMAIN starts[n]
               PROVE  starts[n][1] = 0 /\ starts[n][i] <= applied'[n]
    BY <1>3, Basics DEF StartsGood
  <2>1. starts[n][1] = 0 /\ starts[n][i] <= applied[n]
    BY <1>0 DEF StartsGood
  <2>2. starts[n][i] \in Nat /\ applied[n] \in Nat /\ applied'[n] \in Nat /\ applied[n] <= applied'[n]
    BY Basics, StepOnlyAdds DEF ServersOnlyAdd
  <2> QED
    BY <2>1, <2>2
<1>4. CASE Commit
  BY <1>2, <1>3, <1>4 DEF Commit
<1>5. ASSUME NEW n \in Server, Apply(n) \/ Failover(n)
      PROVE  StartsGood' /\ ChainGood' /\ RunConnects'
  BY <1>2, <1>3, <1>5 DEF Apply, Failover
<1>6. ASSUME NEW n \in Server, Rotate(n) PROVE StartsGood' /\ ChainGood' /\ RunConnects'
  <2>1. /\ starts' = [starts EXCEPT ![n] = Append(starts[n], applied[n])]
        /\ UNCHANGED <<mode, history, applied, chain, node, todo, logfiles, faults>>
    BY <1>6 DEF Rotate
  <2>2. /\ starts[n] \in Seq(Nat) /\ applied[n] \in Nat
        /\ Len(starts[n]) \in Nat \ {0} /\ starts \in [Server -> Seq(Nat)]
    BY Basics DEF IInv, ServersGood
  <2>3. /\ DOMAIN starts'[n] = 1..(Len(starts[n]) + 1) /\ DOMAIN starts[n] = 1..Len(starts[n])
        /\ \A i \in 1..Len(starts[n]) : starts'[n][i] = starts[n][i]
        /\ starts'[n][Len(starts[n]) + 1] = applied[n]
    BY <2>1, <2>2
  <2>4. \A p \in Server \ {n} : starts'[p] = starts[p]
    BY <2>1, <2>2
  <2>5. ASSUME NEW i \in 1..(Len(starts[n]) + 1) PROVE starts'[n][i] <= applied[n]
    <3>1. CASE i = Len(starts[n]) + 1
      BY <3>1, <2>2, <2>3
    <3>2. CASE i # Len(starts[n]) + 1
      <4>1. i \in 1..Len(starts[n])
        BY <3>2, <2>2
      <4> QED
        BY <4>1, <2>3, <1>0 DEF StartsGood
    <3> QED
      BY <3>1, <3>2
  <2>6. starts'[n][1] = 0
    <3>1. 1 \in 1..Len(starts[n])
      BY <2>2
    <3> QED
      BY <3>1, <2>3, <1>0 DEF StartsGood
  <2>7. StartsGood'
    BY <2>1, <2>3, <2>4, <2>5, <2>6, <1>0 DEF StartsGood
  <2> QED
    BY <1>2, <2>1, <2>7
<1>9. CASE UNCHANGED vars
  BY <1>2, <1>3, <1>9 DEF vars, servers
\* A full backup is a chain of one.
<1>10. ASSUME NEW n \in Server, FullBackup(n) \/ FullBackupFails(n)
       PROVE  StartsGood' /\ ChainGood' /\ RunConnects'
  <2>1. /\ node = Nobody /\ node' = node /\ logfiles' = logfiles /\ UNCHANGED servers
        /\ chain' \in {<<[node |-> n, gtid |-> applied[n], base |-> applied[n], logs |-> {}]>>,
                       <<[node |-> n, gtid |-> NoGtid, base |-> 0, logs |-> {}]>>}
    BY <1>10 DEF FullBackup, FullBackupFails, CanBegin
  <2>2. applied[n] \in Nat /\ applied[n] \in 0..Len(history) /\ faults \in Nat
    BY Basics
  <2>3. chain' \in Seq(ArchiveType) /\ Len(chain') = 1
    <3>1. /\ [node |-> n, gtid |-> applied[n], base |-> applied[n], logs |-> {}] \in ArchiveType
          /\ [node |-> n, gtid |-> NoGtid, base |-> 0, logs |-> {}] \in ArchiveType
      BY <2>2 DEF ArchiveType, NoGtid
    <3>2. \A a \in ArchiveType : <<a>> \in Seq(ArchiveType) /\ Len(<<a>>) = 1
      OBVIOUS
    <3> QED
      BY <2>1, <3>1, <3>2
  <2>4. faults' = 0 =>
          chain' = <<[node |-> n, gtid |-> applied[n], base |-> applied[n], logs |-> {}]>>
    BY <1>10, <2>2 DEF FullBackup, FullBackupFails
  <2>5. faults' = 0 => \A d \in DOMAIN chain' : chain'[d].gtid \in 0..Len(history')
    BY <2>1, <2>2, <2>4 DEF servers
  <2>6. ArchivesConnect'
    BY <2>3 DEF ArchivesConnect, Increments
  <2>7. ChainGood'
    BY <1>0, <2>1, <2>3, <2>5, <2>6 DEF ChainGood, ArchiveType, LogType
  <2> QED
    BY <1>1, <2>1, <2>7 DEF RunConnects
<1>11. ASSUME NEW n \in Server, BeginIncremental(n)
       PROVE  StartsGood' /\ ChainGood' /\ RunConnects'
  <2>1. /\ chain # <<>> /\ UNCHANGED <<servers, chain, logfiles, faults>>
        /\ UNCHANGED <<mode, history>>
    BY <1>11 DEF BeginIncremental, servers
  <2>2. ArchivesConnect'
    BY <1>0, <2>1 DEF ChainGood, ArchivesConnect, OneInterval, Increments, EndOfLogs, In
  <2>3. ChainGood'
    BY <1>0, <2>1, <2>2 DEF ChainGood, ArchiveType, LogType
  <2> QED
    BY <1>1, <1>11, <2>1, <2>3, BeginConnects
<1>12. CASE CopyFile
  <2>1. UNCHANGED <<servers, chain, node, faults, mode, history>>
    BY <1>12 DEF CopyFile, servers
  <2>2. ArchivesConnect'
    BY <1>0, <2>1 DEF ChainGood, ArchivesConnect, OneInterval, Increments, EndOfLogs, In
  <2>3. ChainGood'
    BY <1>0, <1>12, <2>1, <2>2, CopyConnects DEF ChainGood, ArchiveType, LogType
  <2> QED
    BY <1>1, <1>12, <2>1, <2>3, CopyConnects
\* With a command that fails nothing is said of the chain.
<1>13. ASSUME faults' # 0, UNCHANGED servers, chain' \in Seq(ArchiveType),
              logfiles' \in SUBSET LogType, node' # Nobody => chain' # <<>>
       PROVE  StartsGood' /\ ChainGood' /\ RunConnects'
  <2>1. ChainGood'
    BY <1>13 DEF ChainGood, ArchivesConnect, ArchiveType, LogType
  <2> QED
    BY <1>1, <1>13, <2>1 DEF RunConnects, Sound
<1>14. CASE CopyFails
  BY <1>0, <1>13, <1>14, Basics DEF CopyFails, ChainGood
<1>15. CASE ReadGtid
  BY <1>1, <1>15, PackConnects DEF ReadGtid, Pack, RunConnects
<1>16. CASE ReadFails
  <2> DEFINE new == [node |-> node, gtid |-> NoGtid, base |-> 0, logs |-> logfiles]
  <2>1. /\ node \in Server /\ chain' = Append(chain, new) /\ node' = Nobody
        /\ logfiles' = {} /\ UNCHANGED servers /\ faults' = faults + 1 /\ faults \in Nat
    BY <1>16, Basics DEF ReadFails, Pack
  <2>2. new \in ArchiveType /\ chain \in Seq(ArchiveType)
    BY <1>0, <2>1 DEF ChainGood, ArchiveType
  <2> HIDE DEF new
  <2>3. chain' \in Seq(ArchiveType)
    BY <2>1, <2>2
  <2> QED
    BY <1>13, <2>1, <2>3
<1> QED
  BY <1>4, <1>5, <1>6, <1>9, <1>10, <1>11, <1>12, <1>14, <1>15, <1>16 DEF Next

\* An incremental backup begins where the one before it ended, and reaches at least
\* as far, without a gap of its own: whatever is committed and whichever log files
\* are begun while it runs, on whatever server, in a chain without a failed command.
THEOREM IncrementsConnect == Spec => []ArchivesConnect
<1>1. Init => IInv /\ CInv
  BY InitGood, InitConnects
<1>2. IInv /\ CInv /\ [Next]_vars => (IInv /\ CInv)'
  BY StepGood, StepConnects
<1>3. CInv => ArchivesConnect
  BY DEF CInv, ChainGood
<1> QED
  BY <1>1, <1>2, <1>3, PTL DEF Spec

-----------------------------------------------------------------------------
(* merge_incr.py: taking the newest copy of each log file.                 *)

\* A copy of a log file begins where the file does, and ends no further.
IsCopy(n, l) ==
    /\ l.name \in DOMAIN starts[n] /\ l.start = starts[n][l.name]
    /\ l.end <= EndOf(n, l.name)

NoneLonger(old, new) == \A l \in old, k \in new : l.name = k.name => l.end <= k.end

\* A copy of a file is at least as long as an earlier one of the same file, and the
\* full backup has none.
Copies ==
    /\ chain # <<>> => chain[1].logs = {}
    /\ \A d \in DOMAIN chain : \A l \in chain[d].logs : IsCopy(chain[d].node, l)
    /\ \A l \in logfiles : IsCopy(node, l)
    /\ \A d, e \in DOMAIN chain : d < e /\ chain[d].node = chain[e].node =>
          NoneLonger(chain[d].logs, chain[e].logs)
    /\ \A d \in DOMAIN chain : chain[d].node = node => NoneLonger(chain[d].logs, logfiles)

\* Log files grow, and a new one begins where the one before it ends.
LEMMA CopyStays ==
    ASSUME IInv, ServersOnlyAdd, NEW n \in Server, NEW l \in LogType, IsCopy(n, l)
    PROVE  IsCopy(n, l)'
<1>1. /\ Len(starts[n]) \in Nat /\ DOMAIN starts[n] = 1..Len(starts[n]) /\ applied[n] \in Nat
      /\ \A i \in DOMAIN starts[n] : starts[n][i] \in Nat
  BY Basics
<1>2. /\ applied'[n] \in Nat /\ applied[n] <= applied'[n]
      /\ starts'[n] \in Seq(Nat) /\ Len(starts[n]) <= Len(starts'[n])
      /\ \A i \in 1..Len(starts[n]) : starts'[n][i] = starts[n][i]
      /\ \A i \in (Len(starts[n]) + 1)..Len(starts'[n]) : applied[n] <= starts'[n][i]
  BY DEF ServersOnlyAdd
<1>3. /\ Len(starts'[n]) \in Nat /\ DOMAIN starts'[n] = 1..Len(starts'[n])
      /\ \A i \in DOMAIN starts'[n] : starts'[n][i] \in Nat
  BY <1>2
<1> DEFINE i == l.name
<1>4. i \in 1..Len(starts[n]) /\ l.start = starts[n][i] /\ l.end \in Nat /\ l.end <= EndOf(n, i)
  BY <1>1 DEF IsCopy, LogType
<1>5. i \in DOMAIN starts'[n] /\ l.start = starts'[n][i]
  BY <1>1, <1>2, <1>3, <1>4
<1> HIDE DEF i
<1>6. EndOf(n, i)' = IF i < Len(starts'[n]) THEN starts'[n][i + 1] ELSE applied'[n]
  BY DEF EndOf
<1>7. EndOf(n, i) = IF i < Len(starts[n]) THEN starts[n][i + 1] ELSE applied[n]
  BY DEF EndOf
<1>8. l.end <= EndOf(n, i)'
  <2>1. CASE i < Len(starts[n])
    <3>1. i + 1 \in 1..Len(starts[n]) /\ i < Len(starts'[n])
      BY <1>1, <1>2, <1>3, <1>4, <2>1
    <3>2. starts'[n][i + 1] = starts[n][i + 1]
      BY <1>2, <3>1
    <3> QED
      BY <1>4, <1>6, <1>7, <2>1, <3>1, <3>2
  <2>2. CASE ~(i < Len(starts[n]))
    <3>1. i = Len(starts[n]) /\ l.end <= applied[n]
      BY <1>1, <1>4, <1>7, <2>2
    <3>2. CASE i < Len(starts'[n])
      <4>1. i + 1 \in (Len(starts[n]) + 1)..Len(starts'[n]) /\ i + 1 \in DOMAIN starts'[n]
        BY <1>1, <1>3, <3>1, <3>2
      <4>2. applied[n] <= starts'[n][i + 1] /\ starts'[n][i + 1] \in Nat
        BY <1>2, <1>3, <4>1
      <4> QED
        BY <1>1, <1>4, <1>6, <3>1, <3>2, <4>2
    <3>3. CASE ~(i < Len(starts'[n]))
      BY <1>1, <1>2, <1>4, <1>6, <3>1, <3>3
    <3> QED
      BY <3>2, <3>3
  <2> QED
    BY <2>1, <2>2
<1> QED
  BY <1>5, <1>8 DEF IsCopy, i

\* The types of an archive, taken apart.
LEMMA ChainTypes ==
    ASSUME ChainGood
    PROVE  /\ Len(chain) \in Nat /\ DOMAIN chain = 1..Len(chain)
           /\ chain # <<>> => Len(chain) \in Nat \ {0}
           /\ \A d \in DOMAIN chain :
                 /\ chain[d] \in ArchiveType /\ chain[d].node \in Server
                 /\ chain[d].logs \in SUBSET LogType /\ chain[d].base \in Nat
           /\ \A l \in LogType : l.name \in Nat /\ l.start \in Nat /\ l.end \in Nat
<1>1. chain \in Seq(ArchiveType)
  BY DEF ChainGood
<1>2. /\ Len(chain) \in Nat /\ DOMAIN chain = 1..Len(chain)
      /\ chain # <<>> => Len(chain) \in Nat \ {0}
      /\ \A d \in DOMAIN chain : chain[d] \in ArchiveType
  BY <1>1
<1>3. \A a \in ArchiveType :
         a.node \in Server /\ a.logs \in SUBSET LogType /\ a.base \in Nat
  BY DEF ArchiveType
<1>4. \A l \in LogType : l.name \in Nat /\ l.start \in Nat /\ l.end \in Nat
  BY DEF LogType
<1> QED
  BY <1>2, <1>3, <1>4

\* What is packed has the copies that were made.
LEMMA PackCopies ==
    ASSUME IInv, ChainGood, Copies, ServersOnlyAdd, NEW gtid \in Nat \cup {NoGtid}, Pack(gtid)
    PROVE  Copies'
<1> DEFINE new == [node |-> node, gtid |-> gtid, base |-> 0, logs |-> logfiles]
           m == Len(chain)
<1>1. /\ node \in Server /\ chain' = Append(chain, new) /\ node' = Nobody /\ logfiles' = {}
      /\ chain \in Seq(ArchiveType) /\ chain # <<>> /\ logfiles \in SUBSET LogType
      /\ new \in ArchiveType /\ Nobody \notin Server
  BY Basics DEF Pack, ChainGood, ArchiveType
<1> HIDE DEF new
<1>2. /\ m \in Nat \ {0} /\ DOMAIN chain' = 1..(m + 1) /\ DOMAIN chain = 1..m
      /\ \A d \in 1..m : chain'[d] = chain[d] /\ chain[d] \in ArchiveType
      /\ chain'[m + 1] = new
  BY <1>1
<1> HIDE DEF m
<1>3. new.node = node /\ new.logs = logfiles
  BY DEF new
<1>4. chain'[1].logs = {}
  BY <1>1, <1>2 DEF Copies
<1>5. ASSUME NEW d \in DOMAIN chain', NEW l \in chain'[d].logs PROVE IsCopy(chain[d].node, l)'
  <2>1. CASE d = m + 1
    <3>1. l \in logfiles /\ chain'[d].node = node /\ l \in LogType
      BY <2>1, <1>1, <1>2, <1>3
    <3>2. IsCopy(node, l)
      BY <3>1 DEF Copies
    <3>3. PICK n \in Server : n = node
      BY <1>1
    <3>4. IsCopy(n, l)'
      BY <3>1, <3>2, <3>3, CopyStays
    <3> QED
      BY <3>1, <3>3, <3>4 DEF IsCopy, EndOf
  <2>2. CASE d # m + 1
    <3>1. d \in 1..m /\ chain'[d] = chain[d] /\ chain[d] \in ArchiveType
      BY <2>2, <1>2
    <3>2. chain[d].node \in Server /\ l \in LogType /\ IsCopy(chain[d].node, l)
      BY <3>1, <1>2 DEF Copies, ArchiveType
    <3>3. PICK n \in Server : n = chain[d].node
      BY <3>2
    <3>4. IsCopy(n, l)'
      BY <3>2, <3>3, CopyStays
    <3> QED
      BY <3>1, <3>3, <3>4 DEF IsCopy, EndOf
  <2> QED
    BY <2>1, <2>2
<1>6. ASSUME NEW d \in DOMAIN chain', NEW e \in DOMAIN chain', d < e,
             chain'[d].node = chain'[e].node
      PROVE  NoneLonger(chain'[d].logs, chain'[e].logs)
  <2>1. d \in 1..m /\ chain'[d] = chain[d]
    BY <1>2, <1>6
  <2>2. CASE e = m + 1
    BY <2>1, <2>2, <1>2, <1>3, <1>6 DEF Copies
  <2>3. CASE e # m + 1
    <3>1. e \in 1..m /\ chain'[e] = chain[e]
      BY <2>3, <1>2
    <3> QED
      BY <2>1, <3>1, <1>2, <1>6 DEF Copies
  <2> QED
    BY <2>2, <2>3
<1>7. \A d \in DOMAIN chain' : NoneLonger(chain'[d].logs, logfiles')
  BY <1>1 DEF NoneLonger
<1> QED
  BY <1>1, <1>4, <1>5, <1>6, <1>7 DEF Copies, NoneLonger

LEMMA InitCopies == Init => Copies
  BY DEF Init, Copies

LEMMA StepCopies == IInv /\ CInv /\ Copies /\ [Next]_vars => Copies'
<1> SUFFICES ASSUME IInv, ChainGood, Copies, [Next]_vars PROVE Copies'
  BY DEF CInv
<1>1. ServersOnlyAdd
  BY StepOnlyAdds
<1>2. /\ node \in Server \cup {Nobody} /\ Nobody \notin Server
      /\ node = Nobody => logfiles = {} /\ todo = {}
      /\ chain \in Seq(ArchiveType) /\ logfiles \in SUBSET LogType
      /\ DOMAIN chain = 1..Len(chain) /\ Len(chain) \in Nat
      /\ \A d \in DOMAIN chain : chain[d].node \in Server /\ chain[d].logs \in SUBSET LogType
  BY Basics, ChainTypes DEF ChainGood
\* The copies that there were are copies still.
<1>3. ASSUME NEW n \in Server, NEW l \in LogType, IsCopy(n, l)
      PROVE  l.name \in DOMAIN starts'[n] /\ l.start = starts'[n][l.name] /\ l.end <= EndOf(n, l.name)'
  BY <1>1, <1>3, CopyStays DEF IsCopy
<1>4. ASSUME NEW d \in DOMAIN chain, NEW l \in chain[d].logs, chain' = chain
      PROVE  IsCopy(chain[d].node, l)'
  <2>1. PICK n \in Server : n = chain[d].node
    BY <1>2
  <2>2. IsCopy(n, l) /\ l \in LogType
    BY <2>1, <1>2 DEF Copies
  <2>3. IsCopy(n, l)'
    BY <2>2, <1>1, CopyStays
  <2> QED
    BY <2>1, <2>3, <1>4 DEF IsCopy, EndOf
<1>5. ASSUME NEW l \in logfiles, node' = node PROVE IsCopy(node, l)'
  <2>1. PICK n \in Server : n = node
    BY <1>2
  <2>2. IsCopy(n, l) /\ l \in LogType
    BY <2>1, <1>2 DEF Copies
  <2>3. IsCopy(n, l)'
    BY <2>2, <1>1, CopyStays
  <2> QED
    BY <2>1, <2>3, <1>5 DEF IsCopy, EndOf
<1>6. ASSUME UNCHANGED <<chain, node, logfiles>> PROVE Copies'
  BY <1>4, <1>5, <1>6 DEF Copies
<1>7. ASSUME NEW n \in Server, FullBackup(n) \/ FullBackupFails(n) PROVE Copies'
  <2>1. /\ node = Nobody /\ node' = Nobody /\ logfiles' = {}
        /\ \E g, b : chain' = <<[node |-> n, gtid |-> g, base |-> b, logs |-> {}]>>
    BY <1>2, <1>7 DEF FullBackup, FullBackupFails, CanBegin
  <2>2. PICK a : chain' = <<a>> /\ a.logs = {}
    BY <2>1
  <2>3. DOMAIN chain' = {1} /\ chain'[1] = a
    BY <2>2
  <2> QED
    BY <2>1, <2>2, <2>3 DEF Copies, NoneLonger
<1>8. ASSUME NEW n \in Server, BeginIncremental(n) PROVE Copies'
  <2>1. chain' = chain /\ logfiles' = {}
    BY <1>2, <1>8 DEF BeginIncremental, CanBegin
  <2> QED
    BY <2>1, <1>4 DEF Copies, NoneLonger
<1>9. CASE CopyFile
  <2>1. PICK i \in todo :
          logfiles' = logfiles \cup
              {[name |-> i, start |-> starts[node][i], end |-> EndOf(node, i)]}
    BY <1>9 DEF CopyFile
  <2>2. /\ node \in Server /\ node' = node /\ chain' = chain
        /\ UNCHANGED <<applied, starts>>
    BY <1>2, <1>9 DEF CopyFile, servers
  <2>0. PICK new : new = [name |-> i, start |-> starts[node][i], end |-> EndOf(node, i)]
    OBVIOUS
  <2>3. new.name = i /\ new.start = starts[node][i] /\ new.end = EndOf(node, i)
    BY <2>0
  <2>4. logfiles' = logfiles \cup {new}
    BY <2>0, <2>1
  <2>5. i \in DOMAIN starts[node] /\ EndOf(node, i) \in Nat
    <3>1. i \in DOMAIN starts[node]
      BY DEF IInv, RunGood
    <3> QED
      BY <3>1, <2>2, Basics DEF EndOf
  <2>6. IsCopy(node, new)'
    BY <2>2, <2>3, <2>5 DEF IsCopy, EndOf
  <2>7. ASSUME NEW d \in DOMAIN chain, chain[d].node = node
        PROVE  NoneLonger(chain[d].logs, logfiles')
    <3> SUFFICES ASSUME NEW l \in chain[d].logs, NEW k \in logfiles', l.name = k.name
                 PROVE  l.end <= k.end
      BY DEF NoneLonger
    <3>1. CASE k \in logfiles
      BY <3>1, <2>7 DEF Copies, NoneLonger
    <3>2. CASE k = new
      <4>1. IsCopy(node, l)
        BY <2>7 DEF Copies
      <4> QED
        BY <4>1, <3>2, <2>3 DEF IsCopy
    <3> QED
      BY <3>1, <3>2, <2>4
  <2> QED
    BY <2>2, <2>4, <2>6, <2>7, <1>4, <1>5 DEF Copies
<1>10. CASE ReadGtid
  BY <1>1, <1>10, Basics, PackCopies DEF ReadGtid
<1>11. CASE ReadFails
  BY <1>1, <1>11, PackCopies DEF ReadFails
<1>12. CASE CopyFails
  BY <1>6, <1>12 DEF CopyFails
<1>13. ASSUME NEW n \in Server, Apply(n) \/ Rotate(n) \/ Failover(n) PROVE Copies'
  BY <1>6, <1>13 DEF Apply, Rotate, Failover
<1>14. CASE Commit \/ UNCHANGED vars
  BY <1>6, <1>14 DEF Commit, vars
<1> QED
  BY <1>7, <1>8, <1>9, <1>10, <1>11, <1>12, <1>13, <1>14 DEF Next

\* A set of numbers that has an upper bound has a greatest one, its Max.
LEMMA MaxOfBounded ==
    ASSUME NEW T \in SUBSET Nat, T # {}, NEW b \in Nat, \A x \in T : x <= b
    PROVE  Max(T) \in T /\ \A y \in T : y <= Max(T)
<1> DEFINE U == {b - x : x \in T}
<1>0. \A x \in T : b - x \in Nat
  OBVIOUS
<1>1. U \in SUBSET Nat /\ U # {}
  BY <1>0
<1>2. PICK u \in U : \A y \in U : u <= y
  BY <1>1, LeastNumber
<1>3. PICK x \in T : u = b - x
  OBVIOUS
<1>4. \A y \in T : y <= x
  <2> TAKE y \in T
  <2>1. b - x <= b - y
    BY <1>2, <1>3
  <2>2. x \in Nat /\ y \in Nat
    OBVIOUS
  <2> QED
    BY <2>1, <2>2
<1>5. Max(T) = x
  <2>1. T \in SUBSET Int /\ \A y \in T : x >= y
    BY <1>4
  <2> QED
    BY <2>1, MaxIs
<1> QED
  BY <1>4, <1>5

\* The newest copy of a file that was copied.
LEMMA ChosenIs ==
    ASSUME ChainGood, NEW d \in Increments, NEW l \in chain[d].logs
    PROVE  /\ Chosen(l.name) \in Increments /\ d <= Chosen(l.name)
           /\ \E k \in chain[Chosen(l.name)].logs : k.name = l.name
<1> DEFINE T == {e \in Increments : \E k \in chain[e].logs : k.name = l.name}
<1>1. Len(chain) \in Nat /\ T \in SUBSET Nat /\ d \in T /\ \A x \in T : x <= Len(chain)
  <2>1. Len(chain) \in Nat
    BY DEF ChainGood
  <2> QED
    BY <2>1 DEF Increments
<1>2. Max(T) \in T /\ \A y \in T : y <= Max(T)
  BY <1>1, MaxOfBounded
<1> QED
  BY <1>1, <1>2 DEF Chosen

\* What the merged log files have is what any of them has.
LEMMA MergedHasAll ==
    ASSUME IInv, ChainGood, Copies, chain # <<>>, OneServer
    PROVE  In(Merged) = In(AllLogs(chain))
<1>1. /\ chain \in Seq(ArchiveType) /\ Len(chain) \in Nat \ {0} /\ DOMAIN chain = 1..Len(chain)
      /\ \A d \in DOMAIN chain : chain[d].logs \in SUBSET LogType /\ chain[d].node \in Server
  BY ChainTypes DEF ChainGood
<1>2. ASSUME NEW x \in In(Merged) PROVE x \in In(AllLogs(chain))
  <2>1. PICK d \in Increments : \E l \in chain[d].logs : x \in (l.start + 1)..l.end
    BY <1>2 DEF In, Merged
  <2>2. d \in DOMAIN chain
    BY <1>1 DEF Increments
  <2> QED
    BY <2>1, <2>2 DEF In, AllLogs
<1>3. ASSUME NEW x \in In(AllLogs(chain)) PROVE x \in In(Merged)
  <2>0. PICK d \in DOMAIN chain : \E l \in chain[d].logs : x \in (l.start + 1)..l.end
    BY <1>3 DEF In, AllLogs
  <2>1. PICK l \in chain[d].logs : x \in (l.start + 1)..l.end
    BY <2>0
  <2>2. d \in Increments
    <3>1. d # 1
      BY <2>1 DEF Copies
    <3> QED
      BY <3>1, <1>1 DEF Increments
  <2>3. PICK e : e = Chosen(l.name)
    OBVIOUS
  <2>4. e \in Increments /\ d <= e /\ \E g \in chain[e].logs : g.name = l.name
    BY <2>2, <2>3, ChosenIs
  <2>5. PICK k \in chain[e].logs : k.name = l.name
    BY <2>4
  <2>6. e \in DOMAIN chain /\ d \in Nat /\ e \in Nat
    BY <2>2, <2>4, <1>1 DEF Increments
  <2>7. chain[d].node = chain[1].node /\ chain[e].node = chain[1].node
    BY <2>6 DEF OneServer
  <2>8. l.start = k.start
    BY <2>5, <2>6, <2>7 DEF Copies, IsCopy
  <2>9. CASE e = d
    <3>1. l \in {g \in chain[d].logs : d = Chosen(g.name)}
      BY <2>1, <2>3, <2>9
    <3>2. l \in Merged
      BY <3>1, <2>2 DEF Merged
    <3> QED
      BY <3>2, <2>1 DEF In
  <2>10. CASE e # d
    <3>1. d < e
      BY <2>4, <2>6, <2>10
    <3>2. l.end <= k.end
      BY <3>1, <2>5, <2>6, <2>7 DEF Copies, NoneLonger
    <3>3. /\ l.start \in Nat /\ l.end \in Nat /\ k.end \in Nat
          /\ x \in Nat
      <4>1. l \in LogType /\ k \in LogType
        BY <2>5, <2>6, <1>1
      <4> QED
        BY <4>1, <2>1 DEF LogType
    <3>4. x \in (k.start + 1)..k.end
      BY <3>2, <3>3, <2>1, <2>8
    <3>5. k \in Merged
      BY <2>3, <2>4, <2>5 DEF Merged
    <3> QED
      BY <3>4, <3>5 DEF In
  <2> QED
    BY <2>9, <2>10
<1> QED
  BY <1>2, <1>3

\* Taking the newest copy of each log file loses nothing that any copy has, as long as
\* the backups were taken on one server: with whatever was committed meanwhile,
\* whichever files were begun, and whichever commands failed.
THEOREM MergeIsLossless == Spec => []MergeLosesNothing
<1>1. Init => IInv /\ CInv /\ Copies
  BY InitGood, InitConnects, InitCopies
<1>2. IInv /\ CInv /\ Copies /\ [Next]_vars => (IInv /\ CInv /\ Copies)'
  BY StepGood, StepConnects, StepCopies
<1>3. IInv /\ CInv /\ Copies => MergeLosesNothing
  BY MergedHasAll DEF CInv, MergeLosesNothing, Restored, Saved
<1> QED
  BY <1>1, <1>2, <1>3, PTL DEF Spec

-----------------------------------------------------------------------------
(* The restore of a chain.                                                 *)

\* The first file of the backup that runs begins within what the archive before it
\* has, and from there on all is covered.
WentBack ==
    Sound /\ node # Nobody => \E f \in DOMAIN starts[node] :
        /\ starts[node][f] <= From
        /\ \A i \in todo : IsNext(i) => (starts[node][f] + 1)..starts[node][i] \subseteq In(logfiles)
        /\ todo = {} => \A l \in logfiles : (starts[node][f] + 1)..l.end \subseteq In(logfiles)

ReachBack ==
    Sound => \A d \in Increments : \E i \in DOMAIN starts[chain[d].node] :
        /\ starts[chain[d].node][i] <= chain[d - 1].gtid
        /\ \A l \in chain[d].logs :
              (starts[chain[d].node][i] + 1)..l.end \subseteq In(chain[d].logs)

\* Only the full backup has a base, which is what its gtids say.
FullIsBase ==
    /\ \A d \in Increments : chain[d].base = 0
    /\ chain # <<>> =>
          chain[1].base <= Len(history) /\ (Sound => chain[1].base = chain[1].gtid)

RInv == WentBack /\ ReachBack /\ FullIsBase

\* What has gone wrong once is not sound again, and no transaction is lost.
LEMMA StepSound ==
    ASSUME IInv, [Next]_vars
    PROVE  /\ Sound' => Sound
           /\ Len(history) \in Nat /\ Len(history') \in Nat /\ Len(history) <= Len(history')
<1>1. mode' = mode /\ history' \in {history, Append(history, primary)}
  BY DEF Next, FullBackup, FullBackupFails, BeginIncremental, Apply, Rotate, Failover, CopyFile,
         CopyFails, ReadGtid, ReadFails, Pack, Commit, vars, servers
<1>2. faults \in Nat /\ faults' \in {faults, faults + 1}
  BY Basics DEF Next, FullBackup, FullBackupFails, BeginIncremental, Apply, Rotate, Failover,
         CopyFile, CopyFails, ReadGtid, ReadFails, Pack, Commit, vars
<1> QED
  BY <1>1, <1>2, Basics, HistoryGrows DEF Sound

\* What is packed reaches back to where its first file begins.
LEMMA PackReaches ==
    ASSUME IInv, CInv, Copies, RInv, [Next]_vars, NEW gtid \in Nat \cup {NoGtid}, Pack(gtid)
    PROVE  RInv'
<1> DEFINE new == [node |-> node, gtid |-> gtid, base |-> 0, logs |-> logfiles]
           m == Len(chain)
<1>1. /\ node \in Server /\ chain' = Append(chain, new) /\ node' = Nobody /\ logfiles' = {}
      /\ todo = {} /\ chain \in Seq(ArchiveType) /\ chain # <<>> /\ new \in ArchiveType
      /\ UNCHANGED <<starts, history>>
  BY Basics DEF Pack, CInv, ChainGood, ArchiveType, servers
<1> HIDE DEF new
<1>2. /\ m \in Nat \ {0} /\ DOMAIN chain' = 1..(m + 1) /\ DOMAIN chain = 1..m
      /\ \A d \in 1..m : chain'[d] = chain[d]
      /\ chain'[m + 1] = new /\ Len(chain') = m + 1
  BY <1>1
<1>3. new.node = node /\ new.logs = logfiles /\ new.base = 0
  BY DEF new
<1>4. From = chain[m].gtid
  BY DEF From
<1> HIDE DEF m
<1>5. WentBack'
  BY <1>1 DEF WentBack
<1>6. ASSUME Sound, NEW d \in 2..(m + 1)
      PROVE  \E i \in DOMAIN starts[chain'[d].node] :
                /\ starts[chain'[d].node][i] <= chain'[d - 1].gtid
                /\ \A l \in chain'[d].logs :
                      (starts[chain'[d].node][i] + 1)..l.end \subseteq In(chain'[d].logs)
  <2>1. CASE d = m + 1
    <3>1. chain'[d].node = node /\ chain'[d].logs = logfiles /\ chain'[d - 1].gtid = From
      BY <2>1, <1>2, <1>3, <1>4
    <3>2. PICK f \in DOMAIN starts[node] :
            /\ starts[node][f] <= From
            /\ \A l \in logfiles : (starts[node][f] + 1)..l.end \subseteq In(logfiles)
      BY <1>1, <1>6, Basics DEF RInv, WentBack
    <3> QED
      BY <3>1, <3>2
  <2>2. CASE d # m + 1
    <3>1. d \in 2..m /\ chain'[d] = chain[d] /\ chain'[d - 1] = chain[d - 1]
      BY <2>2, <1>2
    <3> QED
      BY <3>1, <1>6 DEF RInv, ReachBack, Increments, m
  <2> QED
    BY <2>1, <2>2
<1>7. ReachBack'
  <2>1. Sound' => Sound
    BY StepSound
  <2>2. Increments' = 2..(m + 1) /\ starts' = starts
    BY <1>1, <1>2 DEF Increments
  <2> QED
    BY <2>1, <2>2, <1>6 DEF ReachBack, In
<1>8. FullIsBase'
  <2>1. chain'[1] = chain[1]
    BY <1>2
  <2>2. \A d \in 2..(m + 1) : chain'[d].base = 0
    <3> TAKE d \in 2..(m + 1)
    <3>1. d = m + 1 \/ (d \in 2..m /\ chain'[d] = chain[d])
      BY <1>2
    <3> QED
      BY <3>1, <1>2, <1>3 DEF RInv, FullIsBase, Increments, m
  <2> QED
    BY <2>1, <2>2, <1>1, <1>2, StepSound DEF RInv, FullIsBase, Increments
<1> QED
  BY <1>5, <1>7, <1>8 DEF RInv

LEMMA InitReaches == Init => RInv
<1> SUFFICES ASSUME Init PROVE RInv
  OBVIOUS
<1>1. chain = <<>> /\ Increments = {} /\ node = Nobody
  BY DEF Init, Increments
<1> QED
  BY <1>1 DEF RInv, WentBack, ReachBack, FullIsBase

LEMMA StepReaches == IInv /\ CInv /\ Copies /\ RInv /\ [Next]_vars => RInv'
<1> SUFFICES ASSUME IInv, CInv, Copies, RInv, [Next]_vars PROVE RInv'
  OBVIOUS
<1>1. ServersOnlyAdd
  BY StepOnlyAdds
<1>2. /\ Sound' => Sound
      /\ Len(history) \in Nat /\ Len(history') \in Nat /\ Len(history) <= Len(history')
  BY StepSound
<1>3. /\ node \in Server \cup {Nobody} /\ Nobody \notin Server
      /\ node = Nobody => logfiles = {} /\ todo = {}
      /\ \A n \in Server :
           /\ applied[n] \in 0..Len(history)
           /\ Len(starts[n]) \in Nat /\ DOMAIN starts[n] = 1..Len(starts[n])
           /\ \A i \in DOMAIN starts[n] : starts[n][i] \in Nat
  BY Basics
<1>4. /\ Len(chain) \in Nat /\ DOMAIN chain = 1..Len(chain)
      /\ chain # <<>> => Len(chain) \in Nat \ {0}
      /\ \A d \in DOMAIN chain :
           chain[d].node \in Server /\ chain[d].logs \in SUBSET LogType /\ chain[d].base \in Nat
  BY ChainTypes DEF CInv
\* A log file that there was begins where it did.
<1>5. \A n \in Server : \A i \in DOMAIN starts[n] :
         i \in DOMAIN starts'[n] /\ starts'[n][i] = starts[n][i]
  <2> TAKE n \in Server
  <2> TAKE i \in DOMAIN starts[n]
  <2>1. /\ i \in 1..Len(starts[n]) /\ Len(starts[n]) \in Nat
        /\ starts'[n] \in Seq(Nat) /\ Len(starts[n]) <= Len(starts'[n])
    BY <1>1, <1>3 DEF ServersOnlyAdd
  <2>2. DOMAIN starts'[n] = 1..Len(starts'[n]) /\ Len(starts'[n]) \in Nat
    BY <2>1
  <2> QED
    BY <2>1, <2>2, <1>1 DEF ServersOnlyAdd
<1>6. ASSUME chain' = chain PROVE ReachBack' /\ FullIsBase'
  <2>1. ASSUME Sound, NEW d \in Increments
        PROVE  \E i \in DOMAIN starts'[chain[d].node] :
                /\ starts'[chain[d].node][i] <= chain[d - 1].gtid
                /\ \A l \in chain[d].logs :
                      (starts'[chain[d].node][i] + 1)..l.end \subseteq In(chain[d].logs)
    <3>1. PICK i \in DOMAIN starts[chain[d].node] :
            /\ starts[chain[d].node][i] <= chain[d - 1].gtid
            /\ \A l \in chain[d].logs :
                  (starts[chain[d].node][i] + 1)..l.end \subseteq In(chain[d].logs)
      BY <2>1 DEF RInv, ReachBack
    <3>2. chain[d].node \in Server
      BY <1>4 DEF Increments
    <3>3. i \in DOMAIN starts'[chain[d].node] /\ starts'[chain[d].node][i] = starts[chain[d].node][i]
      BY <3>2, <1>5
    <3> QED
      BY <3>1, <3>3
  <2>2. ReachBack'
    BY <2>1, <1>2, <1>6 DEF ReachBack, Increments, In
  <2>3. chain # <<>> => chain[1].base \in Nat
    BY <1>4
  <2>4. FullIsBase'
    BY <2>3, <1>2, <1>6 DEF RInv, FullIsBase, Increments
  <2> QED
    BY <2>2, <2>4
<1>7. ASSUME UNCHANGED <<chain, node, todo, logfiles>> PROVE RInv'
  <2>1. ASSUME Sound, node # Nobody
        PROVE  \E f \in DOMAIN starts'[node] :
                /\ starts'[node][f] <= From
                /\ \A i \in todo : IsNext(i) =>
                      (starts'[node][f] + 1)..starts'[node][i] \subseteq In(logfiles)
                /\ todo = {} => \A l \in logfiles :
                      (starts'[node][f] + 1)..l.end \subseteq In(logfiles)
    <3>1. PICK f \in DOMAIN starts[node] :
            /\ starts[node][f] <= From
            /\ \A i \in todo : IsNext(i) =>
                  (starts[node][f] + 1)..starts[node][i] \subseteq In(logfiles)
            /\ todo = {} => \A l \in logfiles :
                  (starts[node][f] + 1)..l.end \subseteq In(logfiles)
      BY <2>1 DEF RInv, WentBack
    <3>2. node \in Server /\ \A i \in todo : i \in DOMAIN starts[node]
      BY <2>1, <1>3 DEF IInv, RunGood
    <3>3. f \in DOMAIN starts'[node] /\ starts'[node][f] = starts[node][f]
      BY <3>2, <1>5
    <3>4. \A i \in todo : starts'[node][i] = starts[node][i]
      BY <3>2, <1>5
    <3> QED
      BY <3>1, <3>3, <3>4
  <2>2. WentBack'
    BY <2>1, <1>2, <1>7 DEF WentBack, From, IsNext, In
  <2> QED
    BY <2>2, <1>6, <1>7 DEF RInv
\* A full backup is a chain of one.
<1>8. ASSUME NEW n \in Server, FullBackup(n) \/ FullBackupFails(n) PROVE RInv'
  <2>1. /\ node = Nobody /\ node' = Nobody /\ history' = history
        /\ chain' \in {<<[node |-> n, gtid |-> applied[n], base |-> applied[n], logs |-> {}]>>,
                       <<[node |-> n, gtid |-> NoGtid, base |-> 0, logs |-> {}]>>}
        /\ faults' = 0 =>
              chain' = <<[node |-> n, gtid |-> applied[n], base |-> applied[n], logs |-> {}]>>
    BY <1>8, Basics DEF FullBackup, FullBackupFails, CanBegin, servers
  <2>2. PICK a : chain' = <<a>> /\ a.base <= Len(history) /\ (faults' = 0 => a.base = a.gtid)
    BY <2>1, <1>2, <1>3
  <2>3. Increments' = {} /\ chain'[1] = a
    BY <2>2 DEF Increments
  <2> QED
    BY <2>1, <2>2, <2>3 DEF RInv, WentBack, ReachBack, FullIsBase, Sound
<1>9. ASSUME NEW n \in Server, BeginIncremental(n) PROVE RInv'
  <2>1. /\ chain' = chain /\ chain # <<>> /\ node' = n /\ todo' = FilesFor(n, From)
        /\ logfiles' = {} /\ UNCHANGED <<mode, history, applied, starts, faults>>
        /\ applied[n] = Len(history)
    BY <1>3, <1>9, Basics DEF BeginIncremental, CanBegin, From, servers
  <2>2. ASSUME Sound'
        PROVE  \E f \in DOMAIN starts[n] :
                 /\ starts[n][f] <= From
                 /\ todo' # {}
                 /\ \A i \in todo' : IsNext(i)' => (starts[n][f] + 1)..starts[n][i] = {}
    <3>1. Sound
      BY <2>2, <1>2
    <3>2. /\ Len(starts[n]) \in FilesFor(n, From) /\ FilesFor(n, From) \subseteq DOMAIN starts[n]
          /\ \A f \in FilesFor(n, From) :
                (\A j \in FilesFor(n, From) : f <= j) => starts[n][f] <= From
      BY <3>1, <2>1, FilesGoBack
    <3>3. FilesFor(n, From) \in SUBSET Nat
      BY <3>2, <1>3
    <3>4. PICK f \in FilesFor(n, From) : \A j \in FilesFor(n, From) : f <= j
      BY <3>2, <3>3, LeastNumber
    <3>5. ASSUME NEW i \in todo', IsNext(i)' PROVE (starts[n][f] + 1)..starts[n][i] = {}
      <4>1. i <= f /\ f <= i /\ i \in Nat /\ f \in Nat
        BY <3>3, <3>4, <3>5, <2>1 DEF IsNext
      <4>2. i = f /\ starts[n][f] \in Nat
        BY <4>1, <3>2, <1>3
      <4> QED
        BY <4>2
    <3> QED
      BY <2>1, <3>2, <3>4, <3>5
  <2>3. WentBack'
    BY <2>1, <2>2 DEF WentBack, From
  <2> QED
    BY <2>1, <2>3, <1>6 DEF RInv
<1>10. CASE CopyFile
  <2>1. PICK i \in todo :
          /\ IsNext(i) /\ todo' = todo \ {i}
          /\ logfiles' = logfiles \cup
                {[name |-> i, start |-> starts[node][i], end |-> EndOf(node, i)]}
    BY <1>10 DEF CopyFile
  <2>2. /\ node \in Server /\ node' = node /\ UNCHANGED <<chain, applied, starts>>
    BY <1>3, <1>10 DEF CopyFile, servers
  <2> DEFINE s == starts[node]
  <2>3. PICK e : e = EndOf(node, i)
    OBVIOUS
  <2>4. PICK new : new = [name |-> i, start |-> s[i], end |-> e]
    OBVIOUS
  <2>5. new.start = s[i] /\ new.end = e /\ logfiles' = logfiles \cup {new}
    BY <2>1, <2>3, <2>4
  <2>6. In(logfiles') = In(logfiles) \cup (s[i] + 1)..e
    <3>1. In(logfiles \cup {new}) = In(logfiles) \cup ((new.start + 1)..new.end)
      BY InAdds
    <3> QED
      BY <3>1, <2>5
  <2>7. ASSUME Sound', node # Nobody
        PROVE  \E f \in DOMAIN s :
                 /\ s[f] <= From
                 /\ \A j \in todo' : IsNext(j)' => (s[f] + 1)..s[j] \subseteq In(logfiles')
                 /\ todo' = {} => \A l \in logfiles' : (s[f] + 1)..l.end \subseteq In(logfiles')
    <3>1. Sound
      BY <2>7, <1>2
    <3>2. PICK f \in DOMAIN s : s[f] <= From /\ (s[f] + 1)..s[i] \subseteq In(logfiles)
      BY <2>1, <2>7, <3>1 DEF RInv, WentBack
    <3>3. PICK last \in DOMAIN s : Running(last)
      BY <2>7, <3>1 DEF CInv, RunConnects
    <3>4. /\ i \in 1..Len(s) /\ s[i] \in Nat /\ s[f] \in Nat /\ e \in Nat /\ s[i] <= e
          /\ Len(s) \in Nat /\ DOMAIN s = 1..Len(s)
      <4>1. i \in DOMAIN s
        BY <2>1 DEF IInv, RunGood
      <4>2. s[i] <= e
        BY <4>1, <2>2, <2>3, CopiesAreForward DEF IInv
      <4>3. e \in Nat
        <5>1. i \in 1..Len(s) /\ Len(s) \in Nat /\ applied[node] \in Nat
          BY <4>1, <2>2, <1>3
        <5>2. i < Len(s) => s[i + 1] \in Nat
          <6>1. i < Len(s) => i + 1 \in DOMAIN s
            BY <5>1, <2>2, <1>3
          <6> QED
            BY <6>1, <2>2, <1>3
        <5> QED
          BY <5>1, <5>2, <2>3 DEF EndOf
      <4> QED
        BY <4>1, <4>2, <4>3, <2>2, <1>3
    <3>5. (s[f] + 1)..e \subseteq In(logfiles')
      <4> SUFFICES ASSUME NEW x \in (s[f] + 1)..e PROVE x \in In(logfiles')
        OBVIOUS
      <4>1. x \in (s[f] + 1)..s[i] \/ x \in (s[i] + 1)..e
        BY <3>4
      <4> QED
        BY <4>1, <3>2, <2>6
    <3>6. \A l \in logfiles' : l.end <= e /\ l.end \in Nat
      <4> TAKE l \in logfiles'
      <4>1. CASE l \in logfiles
        <5>1. l.end <= s[i]
          BY <4>1, <3>3, <2>1 DEF Running
        <5>2. l.end \in Nat
          BY <4>1 DEF CInv, ChainGood, LogType
        <5> QED
          BY <5>1, <5>2, <3>4
      <4>2. CASE l = new
        BY <4>2, <2>5, <3>4
      <4> QED
        BY <4>1, <4>2, <2>5
    <3>7. ASSUME NEW j \in todo', IsNext(j)' PROVE s[j] = e
      <4>1. j \in todo /\ j # i /\ i <= j /\ j \in 1..last /\ last \in 1..Len(s)
        BY <3>3, <3>4, <3>7, <2>1 DEF IsNext, Running
      <4>2. i + 1 \in i..last /\ (i..last) \subseteq todo
        BY <4>1, <3>3, <3>4, <2>1 DEF Running
      <4>3. i + 1 \in todo'
        BY <4>2, <3>4, <2>1
      <4>4. j <= i + 1
        BY <4>3, <3>7 DEF IsNext
      <4>5. j = i + 1 /\ i < Len(s)
        BY <4>1, <4>4, <3>4
      <4> QED
        BY <4>5, <2>3 DEF EndOf
    <3>8. \A l \in logfiles' : (s[f] + 1)..l.end \subseteq In(logfiles')
      <4> TAKE l \in logfiles'
      <4>1. (s[f] + 1)..l.end \subseteq (s[f] + 1)..e
        BY <3>4, <3>6
      <4> QED
        BY <4>1, <3>5
    <3> QED
      BY <3>2, <3>5, <3>7, <3>8
  <2>8. WentBack'
    BY <2>2, <2>7 DEF WentBack, From
  <2> QED
    BY <2>2, <2>8, <1>6 DEF RInv
<1>11. CASE CopyFails
  <2>1. chain' = chain /\ faults' # 0
    BY <1>11, Basics DEF CopyFails
  <2> QED
    BY <2>1, <1>6 DEF RInv, WentBack, Sound
<1>12. CASE ReadGtid
  BY <1>12, Basics, PackReaches DEF ReadGtid
<1>13. CASE ReadFails
  BY <1>13, PackReaches DEF ReadFails
<1>14. ASSUME NEW n \in Server, Apply(n) \/ Rotate(n) \/ Failover(n) PROVE RInv'
  BY <1>7, <1>14 DEF Apply, Rotate, Failover
<1>15. CASE Commit \/ UNCHANGED vars
  BY <1>7, <1>15 DEF Commit, vars
<1> QED
  BY <1>8, <1>9, <1>10, <1>11, <1>12, <1>13, <1>14, <1>15 DEF Next

\* The end of the copies of an archive.
LEMMA EndOfLogsIs ==
    ASSUME IInv, CInv, Copies, NEW d \in DOMAIN chain
    PROVE  /\ EndOfLogs(chain[d].logs) \in Nat
           /\ \A l \in chain[d].logs : l.end \in Nat /\ l.end <= Len(history)
           /\ \/ EndOfLogs(chain[d].logs) = 0
              \/ \E l \in chain[d].logs : EndOfLogs(chain[d].logs) = l.end
<1> DEFINE ends == {l.end : l \in chain[d].logs} \cup {0}
<1>1. ASSUME NEW l \in chain[d].logs PROVE l.end \in Nat /\ l.end <= Len(history)
  <2>1. PICK n \in Server : n = chain[d].node
    BY ChainTypes DEF CInv
  <2>2. PICK i : i = l.name
    OBVIOUS
  <2>3. i \in DOMAIN starts[n] /\ l.end <= EndOf(n, i) /\ l.end \in Nat
    BY <2>1, <2>2, ChainTypes DEF CInv, Copies, IsCopy
  <2>4. EndOf(n, i) <= Len(history) /\ EndOf(n, i) \in Nat /\ Len(history) \in Nat
    <3>1. /\ DOMAIN starts[n] = 1..Len(starts[n]) /\ Len(starts[n]) \in Nat
          /\ applied[n] \in 0..Len(history) /\ Len(history) \in Nat
          /\ \A j \in DOMAIN starts[n] : starts[n][j] \in Nat
      BY Basics
    <3>2. CASE i < Len(starts[n])
      <4>1. i + 1 \in DOMAIN starts[n]
        BY <3>1, <3>2, <2>3
      <4>2. starts[n][i + 1] <= applied[n]
        BY <4>1 DEF CInv, StartsGood
      <4> QED
        BY <3>1, <3>2, <4>1, <4>2 DEF EndOf
    <3>3. CASE ~(i < Len(starts[n]))
      BY <3>1, <3>3 DEF EndOf
    <3> QED
      BY <3>2, <3>3
  <2> QED
    BY <2>3, <2>4
<1>2. Len(history) \in Nat
  BY Basics
<1>3. ends \in SUBSET Nat /\ ends # {} /\ \A x \in ends : x <= Len(history)
  BY <1>1, <1>2
<1>4. Max(ends) \in ends
  BY <1>2, <1>3, MaxOfBounded
<1> QED
  BY <1>1, <1>3, <1>4 DEF EndOfLogs

\* What the chain of a server has, has no gap.
LEMMA ChainHasNoGap ==
    ASSUME IInv, CInv, Copies, RInv, chain # <<>>, OneServer, Sound,
           \A d \in DOMAIN chain : Late(chain[d]) =>
              \A i \in DOMAIN starts[chain[d].node] :
                 starts[chain[d].node][i] \notin (EndOfLogs(chain[d].logs) + 1)..chain[d].gtid
    PROVE  \A d \in DOMAIN chain : \A l \in chain[d].logs : 1..l.end \subseteq Saved(chain)
<1>0. /\ Len(chain) \in Nat \ {0} /\ DOMAIN chain = 1..Len(chain)
      /\ \A d \in DOMAIN chain :
           /\ chain[d].node \in Server /\ chain[d].logs \in SUBSET LogType
           /\ chain[d].base \in Nat /\ chain[d].gtid \in Nat
  BY ChainTypes, Basics DEF CInv, ChainGood, Sound
<1> DEFINE Gapless(d) == \A l \in chain[d].logs : 1..l.end \subseteq Saved(chain)
           T == {d \in DOMAIN chain : ~Gapless(d)}
<1>1. SUFFICES ASSUME T # {} PROVE FALSE
  OBVIOUS
<1>2. T \in SUBSET Nat
  BY <1>0
<1>3. PICK d \in T : \A e \in T : d <= e
  BY <1>1, <1>2, LeastNumber
<1>4. d \in DOMAIN chain /\ ~Gapless(d)
  OBVIOUS
<1>5. d # 1
  BY <1>4 DEF Copies
<1> DEFINE b == d - 1
<1>6. d \in Increments /\ b \in DOMAIN chain /\ b < d /\ b \in Nat
  BY <1>0, <1>4, <1>5 DEF Increments
<1>7. Gapless(b)
  <2>1. b \notin T
    BY <1>0, <1>3, <1>6
  <2> QED
    BY <2>1, <1>6
<1>8. PICK l \in chain[d].logs : ~(1..l.end \subseteq Saved(chain))
  BY <1>4
<1>9. PICK n \in Server : n = chain[d].node /\ n = chain[b].node
  BY <1>0, <1>4, <1>6 DEF OneServer
<1>10. PICK i \in DOMAIN starts[n] :
         /\ starts[n][i] <= chain[b].gtid
         /\ \A k \in chain[d].logs : (starts[n][i] + 1)..k.end \subseteq In(chain[d].logs)
  BY <1>6, <1>9 DEF RInv, ReachBack
<1> HIDE DEF b, T
<1>11. PICK s : s = starts[n][i]
  OBVIOUS
<1>12. s \in Nat /\ s <= chain[b].gtid /\ (s + 1)..l.end \subseteq In(chain[d].logs)
  BY <1>8, <1>10, <1>11, Basics
<1>13. \A e \in DOMAIN chain : In(chain[e].logs) \subseteq Saved(chain)
  BY DEF In, AllLogs, Saved
<1>14. PICK g : g = chain[b].gtid
  OBVIOUS
<1>15. PICK end : end = EndOfLogs(chain[b].logs)
  OBVIOUS
<1>16. g \in Nat /\ end \in Nat /\ s <= g
  BY <1>0, <1>6, <1>12, <1>14, <1>15, EndOfLogsIs
<1>17. 1..end \subseteq Saved(chain)
  <2>1. CASE end = 0
    BY <2>1
  <2>2. CASE end # 0
    <3>1. PICK k \in chain[b].logs : end = k.end
      BY <2>2, <1>6, <1>15, EndOfLogsIs
    <3> QED
      BY <3>1, <1>7
  <2> QED
    BY <2>1, <2>2
\* The file begins within what the archives before have.
<1>18. 1..s \subseteq Saved(chain)
  <2>1. CASE Late(chain[b])
    <3>1. s \notin (end + 1)..g
      BY <2>1, <1>6, <1>9, <1>10, <1>11, <1>14, <1>15
    <3>2. s <= end
      BY <3>1, <1>12, <1>16
    <3>3. 1..s \subseteq 1..end
      BY <3>2, <1>12, <1>16
    <3> QED
      BY <3>3, <1>17
  <2>2. CASE ~Late(chain[b])
    <3>1. g <= chain[b].base \/ g <= end
      BY <2>2, <1>0, <1>6, <1>14, <1>15, <1>16 DEF Late
    <3>2. CASE g <= end
      <4>1. 1..s \subseteq 1..end
        BY <3>2, <1>12, <1>16
      <4> QED
        BY <4>1, <1>17
    <3>3. CASE g <= chain[b].base
      <4>1. CASE b = 1
        <5>1. 1..s \subseteq 1..chain[1].base
          BY <4>1, <3>3, <1>0, <1>6, <1>12, <1>16
        <5> QED
          BY <5>1 DEF Saved
      <4>2. CASE b # 1
        <5>1. b \in Increments
          BY <4>2, <1>0, <1>6 DEF Increments
        <5>2. chain[b].base = 0
          BY <5>1 DEF RInv, FullIsBase
        <5>3. s = 0
          BY <5>2, <3>3, <1>12, <1>16
        <5> QED
          BY <5>3
      <4> QED
        BY <4>1, <4>2
    <3> QED
      BY <3>1, <3>2, <3>3
  <2> QED
    BY <2>1, <2>2
<1>19. l.end \in Nat
  BY <1>0, <1>4, <1>8, ChainTypes DEF CInv
<1>20. 1..l.end \subseteq (1..s) \cup ((s + 1)..l.end)
  BY <1>12, <1>19
<1> QED
  BY <1>4, <1>8, <1>12, <1>13, <1>18, <1>20

\* A set of numbers from 1 that has with each all before it is an interval.
LEMMA Downward ==
    ASSUME NEW R \in SUBSET (Nat \ {0}), NEW b \in Nat, \A x \in R : x <= b,
           \A x \in R : 1..x \subseteq R
    PROVE  R = 1..Max(R \cup {0})
<1> DEFINE T == R \cup {0}
<1>1. T \in SUBSET Nat /\ T # {} /\ \A x \in T : x <= b
  OBVIOUS
<1>2. Max(T) \in T /\ \A y \in T : y <= Max(T)
  BY <1>1, MaxOfBounded
<1>3. PICK m : m = Max(T)
  OBVIOUS
<1>4. m \in Nat /\ m \in T /\ \A y \in T : y <= m
  BY <1>1, <1>2, <1>3
<1>5. R \subseteq 1..m
  BY <1>4
<1>6. 1..m \subseteq R
  <2>1. CASE m = 0
    BY <2>1
  <2>2. CASE m # 0
    BY <2>2, <1>4
  <2> QED
    BY <2>1, <2>2
<1> QED
  BY <1>3, <1>5, <1>6

LEMMA InvariantsRestore == IInv /\ CInv /\ Copies /\ RInv => RestoresWithoutGap
<1> SUFFICES ASSUME IInv, CInv, Copies, RInv, chain # <<>>, OneServer, Sound,
                    \A d \in DOMAIN chain : Late(chain[d]) =>
                       \A i \in DOMAIN starts[chain[d].node] :
                          starts[chain[d].node][i] \notin
                             (EndOfLogs(chain[d].logs) + 1)..chain[d].gtid
             PROVE  Restored = 1..Max(Restored \cup {0})
  BY DEF RestoresWithoutGap, Sound
<1>1. Restored = Saved(chain)
  BY MergedHasAll DEF CInv, Restored, Saved
<1>2. /\ DOMAIN chain = 1..Len(chain) /\ Len(chain) \in Nat \ {0} /\ Len(history) \in Nat
      /\ chain[1].base \in Nat /\ chain[1].base <= Len(history)
      /\ \A d \in DOMAIN chain : chain[d].logs \in SUBSET LogType
      /\ \A l \in LogType : l.start \in Nat /\ l.end \in Nat
  <2>1. /\ DOMAIN chain = 1..Len(chain) /\ Len(chain) \in Nat \ {0}
        /\ \A d \in DOMAIN chain : chain[d].logs \in SUBSET LogType /\ chain[d].base \in Nat
        /\ \A l \in LogType : l.start \in Nat /\ l.end \in Nat
    BY ChainTypes DEF CInv
  <2>2. 1 \in DOMAIN chain
    BY <2>1
  <2> QED
    BY <2>1, <2>2, Basics DEF RInv, FullIsBase
<1>3. ASSUME NEW x \in Saved(chain)
      PROVE  x \in Nat \ {0} /\ x <= Len(history) /\ 1..x \subseteq Saved(chain)
  <2>1. CASE x \in 1..chain[1].base
    <3>1. x \in Nat \ {0} /\ x <= Len(history) /\ 1..x \subseteq 1..chain[1].base
      BY <2>1, <1>2
    <3> QED
      BY <3>1 DEF Saved
  <2>2. CASE x \in In(AllLogs(chain))
    <3>1. PICK d \in DOMAIN chain : \E l \in chain[d].logs : x \in (l.start + 1)..l.end
      BY <2>2 DEF In, AllLogs
    <3>2. PICK l \in chain[d].logs : x \in (l.start + 1)..l.end
      BY <3>1
    <3>3. l.start \in Nat /\ l.end \in Nat /\ l.end <= Len(history)
      BY <1>2, EndOfLogsIs
    <3>4. 1..l.end \subseteq Saved(chain)
      BY ChainHasNoGap
    <3>5. x \in Nat \ {0} /\ x <= Len(history) /\ 1..x \subseteq 1..l.end
      BY <3>2, <3>3, <1>2
    <3> QED
      BY <3>4, <3>5
  <2> QED
    BY <2>1, <2>2 DEF Saved
<1>4. Saved(chain) \in SUBSET (Nat \ {0})
  BY <1>3
<1> QED
  BY <1>1, <1>2, <1>3, <1>4, Downward

\* A chain of one server restores everything up to its last copy, without a gap, also
\* when transactions were committed while the files were copied: unless a log file
\* starts among those that the gtids have and the copies have not.
THEOREM RestoreHasNoGap == Spec => []RestoresWithoutGap
<1>1. Init => IInv /\ CInv /\ Copies /\ RInv
  BY InitGood, InitConnects, InitCopies, InitReaches
<1>2. IInv /\ CInv /\ Copies /\ RInv /\ [Next]_vars => (IInv /\ CInv /\ Copies /\ RInv)'
  BY StepGood, StepConnects, StepCopies, StepReaches
<1> QED
  BY <1>1, <1>2, InvariantsRestore, PTL DEF Spec
==============================================================================
