------------------------------- MODULE Backup -------------------------------
(***************************************************************************)
(* The backups of a shard: backup/backupmysql.sh with check_gtid.py, full  *)
(* and incremental, while the servers go on, and restore/merge_incr.py,    *)
(* which puts the log files of the incremental ones together again.        *)
(*                                                                         *)
(* The transactions of a shard are numbered in the order of their commit;  *)
(* a log file holds the transactions after its start, up to the start of   *)
(* the next.  A set of gtids that a server has executed is their number.   *)
(***************************************************************************)
EXTENDS Integers, Sequences, FiniteSets, FiniteSetsExt

CONSTANTS
    Server,
    Modes,         \* "rbr", "mgr": the replication to be explored
    MaxCommits, MaxRotations, MaxFailovers, \* bounds: what the servers do
    MaxArchives,   \* bound: archives of a chain
    MaxFaults      \* bound: commands of a backup that fail

ASSUME BackupAssumption ==
    /\ Server # {} /\ "nobody" \notin Server
    /\ Modes \subseteq {"rbr", "mgr"}
    /\ {MaxCommits, MaxRotations, MaxFailovers, MaxArchives, MaxFaults} \subseteq Nat

VARIABLES
    mode,
    primary,
    history,   \* the server that was primary, for each transaction
    applied,   \* applied[n]: how many of them server n has
    starts,    \* starts[n][i]: how many precede its log file i
    chain,     \* the archives since the last full backup, which is the first
    node,      \* the server that is being backed up, or Nobody
    todo,      \* its log files that are still to be copied
    logfiles,  \* the copies
    failovers, faults

Nobody == "nobody"
NoGtid == -1   \* the text of a gtid that could not be read

servers == <<mode, primary, history, applied, starts, failovers>>
vars == <<servers, chain, node, todo, logfiles, faults>>
-----------------------------------------------------------------------------
(* What check_gtid.py makes of sets of gtids.                              *)

\* The gtids of a group have one uuid; each primary numbers in a block of its own.
Uuid(n) == IF mode = "mgr" THEN "group" ELSE n
FirstWith(u) == CHOOSE i \in DOMAIN history :
                   Uuid(history[i]) = u /\ \A j \in 1..(i - 1) : Uuid(history[j]) # u

\* gtid.split(':')[1], the first interval of each uuid: the numbers up to its end.
Ends(k) ==
    [u \in {Uuid(history[i]) : i \in 1..k} |->
        Cardinality({i \in 1..k : Uuid(history[i]) = u /\ history[i] = history[FirstWith(u)]})]

\* The log file starts with something that the gtids do not have.  All sets come
\* from one history, so that whatever uuid differs first decides the same.
Beyond(start, gtid) ==
    \E u \in DOMAIN Ends(start) :
        u \notin DOMAIN Ends(gtid) \/ Ends(start)[u] > Ends(gtid)[u]

\* Mutant: a file is left out when its start is in the backup.
FilesBeyond(n, gtid) == {i \in DOMAIN starts[n] : Beyond(starts[n][i], gtid)}

\* Mutant: the newest file only.
NewestFile(n, gtid) == {Len(starts[n])}

\* From the newest file back to the first that does not start beyond the gtids.  A
\* gtid that could not be read is no argument, and the program fails.
FilesFor(n, gtid) ==
    {i \in DOMAIN starts[n] :
        gtid # NoGtid /\ \A j \in (i + 1)..Len(starts[n]) : Beyond(starts[n][j], gtid)}

-----------------------------------------------------------------------------
(* backupmysql.sh.  On a server that is read only it exits at once.        *)

EndOf(n, i) == IF i < Len(starts[n]) THEN starts[n][i + 1] ELSE applied[n]
CanBegin(n) == node = Nobody /\ n = primary

\* xtrabackup: the gtids are those of the copy.
FullBackup(n) ==
    /\ CanBegin(n) /\ chain = <<>>
    /\ chain' = <<[node |-> n, gtid |-> applied[n], base |-> applied[n], logs |-> {}]>>
    /\ UNCHANGED <<servers, node, todo, logfiles, faults>>

\* It fails: an archive all the same, and exit 0.
FullBackupFails(n) ==
    /\ CanBegin(n) /\ chain = <<>>
    /\ faults < MaxFaults /\ faults' = faults + 1
    /\ chain' = <<[node |-> n, gtid |-> NoGtid, base |-> 0, logs |-> {}]>>
    /\ UNCHANGED <<servers, node, todo, logfiles>>

\* The caller hands the gtid of the last archive on; the files are listed at once.
BeginIncremental(n) ==
    /\ CanBegin(n) /\ chain # <<>> /\ Len(chain) < MaxArchives
    /\ node' = n
    /\ todo' = FilesFor(n, chain[Len(chain)].gtid)
    /\ UNCHANGED <<servers, chain, logfiles, faults>>

IsNext(i) == \A j \in todo : i <= j

\* cp -f, of what is in the file by now.
CopyFile ==
    /\ node # Nobody
    /\ \E i \in todo :
          /\ IsNext(i)
          /\ logfiles' = logfiles \cup
                {[name |-> i, start |-> starts[node][i], end |-> EndOf(node, i)]}
          /\ todo' = todo \ {i}
    /\ UNCHANGED <<servers, chain, node, faults>>

\* The loop goes on after a cp that fails.
CopyFails ==
    /\ node # Nobody
    /\ faults < MaxFaults /\ faults' = faults + 1
    /\ \E i \in todo : IsNext(i) /\ todo' = todo \ {i}
    /\ UNCHANGED <<servers, chain, node, logfiles>>

\* Mutant: without "rm -fr logfiles".
PackAndKeep(gtid) ==
    /\ node # Nobody /\ todo = {}
    /\ chain' = Append(chain, [node |-> node, gtid |-> gtid, base |-> 0, logs |-> logfiles])
    /\ node' = Nobody
    /\ UNCHANGED <<servers, todo, logfiles>>

\* tar, and rm -fr logfiles.
Pack(gtid) ==
    /\ node # Nobody /\ todo = {}
    /\ chain' = Append(chain, [node |-> node, gtid |-> gtid, base |-> 0, logs |-> logfiles])
    /\ node' = Nobody /\ logfiles' = {}
    /\ UNCHANGED <<servers, todo>>

\* select @@global.gtid_executed, when all files are copied.
ReadGtid == node # Nobody /\ Pack(applied[node]) /\ UNCHANGED faults
ReadFails == Pack(NoGtid) /\ faults < MaxFaults /\ faults' = faults + 1

-----------------------------------------------------------------------------
(* The servers.                                                            *)

Commit ==
    /\ Len(history) < MaxCommits
    /\ history' = Append(history, primary)
    /\ applied' = [applied EXCEPT ![primary] = @ + 1]
    /\ UNCHANGED <<mode, primary, starts, failovers, chain, node, todo, logfiles, faults>>

\* A replica applies the next transaction, and writes it to its own log files.
Apply(n) ==
    /\ applied[n] < Len(history)
    /\ applied' = [applied EXCEPT ![n] = @ + 1]
    /\ UNCHANGED <<mode, primary, history, starts, failovers, chain, node, todo, logfiles, faults>>

Rotate(n) ==
    /\ MapThenSumSet(LAMBDA m : Len(starts[m]) - 1, Server) < MaxRotations
    /\ starts' = [starts EXCEPT ![n] = Append(@, applied[n])]
    /\ UNCHANGED <<mode, primary, history, applied, failovers, chain, node, todo, logfiles, faults>>

\* To a replica that has everything; a backup of the old primary goes on.
Failover(n) ==
    /\ n # primary /\ applied[n] = Len(history)
    /\ failovers < MaxFailovers /\ failovers' = failovers + 1
    /\ primary' = n
    /\ UNCHANGED <<mode, history, applied, starts, chain, node, todo, logfiles, faults>>

-----------------------------------------------------------------------------
Init ==
    /\ mode \in Modes
    /\ primary = CHOOSE n \in Server : TRUE
    /\ history = <<>> /\ applied = [n \in Server |-> 0] /\ starts = [n \in Server |-> <<0>>]
    /\ chain = <<>> /\ node = Nobody /\ todo = {} /\ logfiles = {}
    /\ failovers = 0 /\ faults = 0

Next ==
    \/ \E n \in Server :
          \/ FullBackup(n) \/ FullBackupFails(n) \/ BeginIncremental(n)
          \/ Apply(n) \/ Rotate(n) \/ Failover(n)
    \/ CopyFile \/ CopyFails \/ ReadGtid \/ ReadFails
    \/ Commit

Spec == Init /\ [][Next]_vars

-----------------------------------------------------------------------------
(* merge_incr.py.                                                          *)

Increments == 2..Len(chain)

\* Mutant: the first copy of a file stays.
LowestNumber(name) == Min({d \in Increments : \E l \in chain[d].logs : l.name = name})

\* Of the files with a name, the one in the directory with the highest number.
Chosen(name) == Max({d \in Increments : \E l \in chain[d].logs : l.name = name})

Merged ==
    UNION {{l \in chain[d].logs : d = Chosen(l.name)} : d \in Increments}

-----------------------------------------------------------------------------
(* Properties.                                                             *)

In(logs) == UNION {(l.start + 1)..l.end : l \in logs}
EndOfLogs(logs) == Max({l.end : l \in logs} \cup {0})
AllLogs(c) == UNION {c[d].logs : d \in DOMAIN c}

\* What a chain has, with the base that the full backup is.
Saved(c) == 1..c[1].base \cup In(AllLogs(c))
Restored == 1..chain[1].base \cup In(Merged)

\* The variables hold what their comments say, and no copies are left over when no
\* backup runs.
TypeOK ==
    /\ mode \in Modes /\ primary \in Server /\ history \in Seq(Server)
    /\ applied \in [Server -> 0..Len(history)] /\ applied[primary] = Len(history)
    /\ starts \in [Server -> Seq(Nat)]
    /\ \A n \in Server : starts[n][Len(starts[n])] <= applied[n]
    /\ node \in Server \cup {Nobody}
    /\ todo # {} => todo \subseteq DOMAIN starts[node]
    /\ \A l \in logfiles : l.start <= l.end
    /\ node = Nobody => todo = {} /\ logfiles = {}
    /\ failovers \in 0..MaxFailovers /\ faults \in 0..MaxFaults

\* What TypeOK rests on: the log files of a server follow each other.
LogsFollow ==
    \A n \in Server :
        /\ Len(starts[n]) > 0
        /\ \A i \in 1..(Len(starts[n]) - 1) : starts[n][i] <= starts[n][i + 1]

\* No group has had two primaries: every set of gtids is one interval per uuid.
OneInterval == mode = "mgr" => \A i \in DOMAIN history : history[i] = history[1]

\* The gtids of an archive are further than the copies that it has.
Late(a) == a.gtid > a.base /\ a.gtid > EndOfLogs(a.logs)

\* An incremental backup begins where the one before it ended, and reaches at least
\* as far, without a gap of its own, be it taken on the same server or, after a
\* failover, on another with log files of its own; whatever was committed, and
\* whichever files were begun, while it ran.
ArchivesConnect ==
    OneInterval /\ faults = 0 =>
        \A d \in Increments :
            LET from == chain[d - 1].gtid  to == EndOfLogs(chain[d].logs)
            IN  from <= to /\ (from + 1)..to \subseteq In(chain[d].logs)

OneServer == \A d \in DOMAIN chain : chain[d].node = chain[1].node

\* Taking the newest copy of each log file loses nothing that any copy has, as long
\* as the backups were taken on one server.
MergeLosesNothing == chain # <<>> /\ OneServer => Restored = Saved(chain)

\* A chain of one server restores everything up to its last copy, without a gap,
\* also when transactions were committed while the files were copied; but not when
\* a log file starts among them.
RestoresWithoutGap ==
    /\ chain # <<>> /\ OneServer /\ OneInterval /\ faults = 0
    /\ \A d \in DOMAIN chain : Late(chain[d]) =>
          \A i \in DOMAIN starts[chain[d].node] :
              starts[chain[d].node][i] \notin (EndOfLogs(chain[d].logs) + 1)..chain[d].gtid
    => Restored = 1..Max(Restored \cup {0})

\* "The script should put the latest backuped gtid into file 'gtid'": what the gtids
\* of an archive say is saved, is saved by the chain up to it.
GtidIsSaved ==
    \A d \in DOMAIN chain : 1..chain[d].gtid \subseteq Saved(SubSeq(chain, 1, d))
=============================================================================
