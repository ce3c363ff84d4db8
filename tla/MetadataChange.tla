---------------------------- MODULE MetadataChange ----------------------------
(***************************************************************************)
(* clustermgr/modify_metadata.py: how install.sh and clean.sh change a     *)
(* metadata shard that lives on, one transaction after the other over one  *)
(* connection, while the cluster managers go on giving ports away.         *)
(***************************************************************************)
EXTENDS Integers, Sequences, SequencesExt, FiniteSets

CONSTANTS
    Machine,
    Node,       \* storage nodes of node_map_master
    MetaNode,   \* those of the metadata shard
    ClusterOf,  \* ClusterOf[n] is the cluster of node n
    Cluster,
    MetaShard,  \* the cluster_id -1
    Dc,
    Config,     \* the configurations that operators install
    Content,    \* Content[c] is what c has to say, see ContentType
    First,      \* the first port that a counter gives
    MaxChanges, \* bound: changes in a behaviour
    MaxAllocs,  \* bound: ports given by the cluster managers
    MaxFaults   \* bound: lost connections and failing statements

Types == {"storage", "computer"}
Backups == {"hdfs_backup1", "ssh_backup1", "elasticsearch"}

\* An element of node_manager; ports[t] counts the ports it gives to instances.
NodemgrType ==
    [ip : Machine, skip : BOOLEAN, nodetype : {"none", "both", "storage", "server"},
     ports : [Types -> Nat]]
ContentType ==
    [vars : Seq(Node), dcs : Seq(Dc), nodes : Seq(NodemgrType), pairs : Seq(Node),
     backups : Seq(Backups), clusters : Seq(Cluster),
     external : BOOLEAN]  \* group_seeds instead of meta nodes of its own

TypesOf(nodetype) ==
    CASE nodetype = "both"    -> <<"storage", "computer">>
      [] nodetype = "storage" -> <<"storage">>
      [] nodetype = "server"  -> <<"computer">>
      [] OTHER                -> <<>>

\* One element for a machine, and its nodetype is widened to what it gives ports to.
Validated(nodes) ==
    /\ \A i, j \in DOMAIN nodes : nodes[i].ip = nodes[j].ip => i = j
    /\ \A i \in DOMAIN nodes : \A t \in Types :
          nodes[i].ports[t] > 0 => t \in ToSet(TypesOf(nodes[i].nodetype))

ASSUME MetadataAssumption ==
    /\ MetaNode \subseteq Node /\ MetaShard \notin Cluster
    /\ ClusterOf \in [Node -> Cluster]
    /\ Content \in [Config -> ContentType]
    /\ \A c \in Config : Validated(Content[c].nodes)
    /\ First \in Nat /\ MaxChanges \in Nat /\ MaxAllocs \in Nat /\ MaxFaults \in Nat

VARIABLES
    keyed,       \* whether the tables refuse a second row for the same thing
    change, pc,  \* the change that runs, or NoChange, and its next statement
    plans,       \* plans[c][i][t]: first port and number of ports, of element i
    conn,        \* "none", "up" or "lost"
    found,       \* what get_cluster_id answered
    uuid,        \* whether get_server_uuid got an answer
    db, draft,   \* what is committed, and what the open transaction sees
    variables,   \* nodes whose system variables were set
    standing,    \* "out", "in" or "unsure": what an operator knows of c
    raced,       \* a counter was not read, or not the last to be
    repeated,    \* an addition was run again over rows that it has committed
    changes, allocs, faults

work == <<change, pc, conn, found, uuid, draft>>
past == <<raced, repeated>>
vars == <<keyed, work, plans, db, variables, standing, past, changes, allocs, faults>>

Empty == [rows |-> {}, gone |-> 0, dcs |-> {}, map |-> {}, backups |-> {}, memos |-> {},
          clusters |-> {}]

NoChange == [config |-> "none", op |-> "none"]
-----------------------------------------------------------------------------
(* The file metadata.json, as the statements that it leads to.             *)

Stmt(op, arg) == [op |-> op, arg |-> arg]
Stmts(op, s) == [i \in DOMAIN s |-> Stmt(op, s[i])]

\* Each section commits by itself; one without statements is left out here.
Section(s) ==
    IF s = <<>> THEN <<>> ELSE <<Stmt("start", "")>> \o s \o <<Stmt("commit", "")>>

EachAlone(op, s) == FlattenSeq([i \in DOMAIN s |-> Section(<<Stmt(op, s[i])>>)])

RowOf(c, i, t) ==
    LET p == plans[c][i][t] IN
    [ip |-> Content[c].nodes[i].ip, type |-> t, pos |-> p.start + p.count,
     used |-> {<<port, c>> : port \in p.start..(p.start + p.count - 1)}]

\* Mutant: the ports of computing nodes are forgotten.
UpdatesOfStorage(c) ==
    FlattenSeq([i \in DOMAIN Content[c].nodes |->
        LET n == Content[c].nodes[i] IN
        IF n.skip /\ n.ports["storage"] > 0
        THEN <<Stmt("update_row", RowOf(c, i, "storage"))>> ELSE <<>>])

\* add_servernodes: rows for new machines, then more ports for the others.
Inserts(c) ==
    FlattenSeq([i \in DOMAIN Content[c].nodes |->
        LET n == Content[c].nodes[i]  ts == TypesOf(n.nodetype) IN
        IF n.skip THEN <<>> ELSE [j \in DOMAIN ts |-> Stmt("insert_row", RowOf(c, i, ts[j]))]])
UpdateOf(c, i, t) ==
    IF Content[c].nodes[i].ports[t] > 0 THEN <<Stmt("update_row", RowOf(c, i, t))>> ELSE <<>>
Updates(c) ==
    FlattenSeq([i \in DOMAIN Content[c].nodes |->
        LET n == Content[c].nodes[i] IN
        IF n.skip /\ n.nodetype # "none"
        THEN UpdateOf(c, i, "storage") \o UpdateOf(c, i, "computer") ELSE <<>>])

\* process_nodemapmaster: get_cluster_id for nodes of data shards, and
\* get_server_uuid, which asks the node's master over a connection of its own.
MapNode(n) ==
    (IF n \in MetaNode THEN <<>> ELSE <<Stmt("lookup", n)>>)
      \o <<Stmt("uuid", n), Stmt("map", n)>>

\* Mutant: every machine is left alone.
RemoveNothing(c) == <<>>

RemoveRows(c) ==
    FlattenSeq([i \in DOMAIN Content[c].nodes |->
        LET n == Content[c].nodes[i] IN
        IF n.skip THEN <<>> ELSE <<Stmt("delete_rows", n.ip)>>])

AddStatements(c) ==
    LET cf == Content[c] IN
    Stmts("variable", cf.vars) \o <<Stmt("connect", "")>>
      \o Section(Stmts("insert_dc", cf.dcs))
      \o Section(Inserts(c) \o Updates(c))
      \o Section(FlattenSeq([i \in DOMAIN cf.pairs |-> MapNode(cf.pairs[i])]))
      \o EachAlone("backup", cf.backups) \o EachAlone("memo", cf.clusters)

RemoveStatements(c) ==
    <<Stmt("connect", "")>> \o Section(RemoveRows(c))
      \o Stmts("delete_cluster", Content[c].clusters)

Statements ==
    CASE change.op = "add"    -> AddStatements(change.config)
      [] change.op = "remove" -> RemoveStatements(change.config)
      [] OTHER                -> <<>>

\* The next statement, if there is one left.
Upcoming == LET s == Statements IN {s[i] : i \in {pc} \cap DOMAIN s}

-----------------------------------------------------------------------------
(* The operators, who take one change at a time.                           *)

Uses(c) == {n.ip : n \in ToSet(Content[c].nodes)}
Skips(c) == {n.ip : n \in {x \in ToSet(Content[c].nodes) : x.skip}}
Owns(c) == Uses(c) \ Skips(c)
\* c makes the row for instances of type t on machine m.
SetsUp(c, m, t) ==
    \E n \in ToSet(Content[c].nodes) : n.ip = m /\ ~n.skip /\ t \in ToSet(TypesOf(n.nodetype))

\* Machines that c skips are set up by another configuration, which is cleaned
\* after c, and no machine is set up by two configurations at a time.  An addition
\* that failed may be run again without a clean: install.sh itself comes to it
\* again if it only adds machines, otherwise the command is run by hand.
MayAdd(c) ==
    /\ standing[c] # "in"
    /\ \A o \in Config \ {c} : standing[o] # "out" => Owns(o) \cap Owns(c) = {}
    /\ Content[c].external => \E o \in Config : standing[o] = "in" /\ ~Content[o].external
    /\ \A m \in Skips(c) : \E o \in Config : standing[o] = "in" /\ m \in Owns(o)
MayRemove(c) ==
    /\ standing[c] # "out"
    /\ \A o \in Config : standing[o] # "out" => Skips(o) \cap Owns(c) = {}

RowsFor(d, m, t) == {r \in d.rows : r.ip = m /\ r.type = t}
\* The counter of a machine that is set up already is to be given as it stands
\* (storage_curport and server_curport); left out, it starts anew.
Starts(n, t) == {First} \cup (IF n.skip THEN {r.pos : r \in RowsFor(db, n.ip, t)} ELSE {})
Counters == {First} \cup {r.pos : r \in db.rows}
Behind(n, t, start) == n.skip /\ \E r \in RowsFor(db, n.ip, t) : start < r.pos

Issue(c, op) ==
    /\ change = NoChange /\ changes < MaxChanges /\ changes' = changes + 1
    /\ change' = [config |-> c, op |-> op] /\ pc' = 1
    /\ standing' = [standing EXCEPT ![c] = "unsure"]
    /\ UNCHANGED <<keyed, conn, found, uuid, draft, variables, allocs, faults>>

\* install.sh has created the clusters when it comes to the metadata.
IssueAdd(c) ==
    /\ MayAdd(c) /\ Issue(c, "add")
    /\ \E start \in [DOMAIN Content[c].nodes -> [Types -> Counters]] :
        LET nodes == Content[c].nodes IN
        /\ \A i \in DOMAIN nodes : \A t \in Types : start[i][t] \in Starts(nodes[i], t)
        /\ plans' = [plans EXCEPT ![c] = [i \in DOMAIN nodes |->
                        [t \in Types |-> [start |-> start[i][t], count |-> nodes[i].ports[t]]]]]
        /\ raced' = (raced \/ \E i \in DOMAIN nodes : \E t \in Types :
                        nodes[i].ports[t] > 0 /\ Behind(nodes[i], t, start[i][t]))
    /\ repeated' = (repeated \/ /\ standing[c] # "out"
                                /\ \E r \in db.rows : r.ip \in Owns(c))
    /\ db' = [db EXCEPT !.clusters = @ \cup ToSet(Content[c].clusters)]

\* clean.sh with group_seeds changes the metadata, otherwise it removes the shard.
IssueRemove(c) ==
    /\ MayRemove(c) /\ Content[c].external /\ Issue(c, "remove")
    /\ UNCHANGED <<plans, db, past>>
RemoveShard(c) ==
    /\ \A o \in Config : standing[o] # "out" <=> o = c
    /\ change = NoChange /\ changes < MaxChanges /\ changes' = changes + 1
    /\ ~Content[c].external
    /\ standing' = [standing EXCEPT ![c] = "out"]
    /\ db' = Empty /\ draft' = Empty
    /\ UNCHANGED <<keyed, change, pc, plans, conn, found, uuid, variables, past, allocs, faults>>

-----------------------------------------------------------------------------
(* Running a change.                                                       *)

\* The table's own check, where there is one.
Unique(set) == keyed => set = {}

CanRun(st) ==
    CASE st.op \in {"variable", "connect", "uuid"} -> TRUE
      \* args.cluster_name is not an argument of the program: AttributeError
      [] st.op = "delete_cluster" -> FALSE
      [] st.op = "insert_dc"  -> conn = "up" /\ Unique({st.arg} \cap draft.dcs)
      [] st.op = "insert_row" -> conn = "up" /\ Unique(RowsFor(draft, st.arg.ip, st.arg.type))
      \* no row: TypeError
      [] st.op = "lookup"     -> conn = "up" /\ ClusterOf[st.arg] \in db.clusters
      [] st.op = "map"        -> conn = "up" /\ Unique({x \in draft.map : x.node = st.arg})
      [] st.op = "backup"     -> conn = "up" /\ Unique({st.arg} \cap draft.backups)
      [] st.op = "memo"       -> /\ conn = "up" /\ st.arg \in db.clusters
                                 /\ Unique({st.arg} \cap draft.memos)
      [] OTHER                -> conn = "up"

In(op, st) == st.op = op /\ CanRun(st) /\ pc' = pc + 1

SetVariable(n, st) ==
    /\ In("variable", st) /\ st.arg = n
    /\ variables' = variables \cup {n}
    /\ UNCHANGED <<keyed, change, plans, conn, found, uuid, db, draft, standing, past, changes, allocs, faults>>

\* The first seed that answers and is not read only; None if there is none, which
\* the next statement trips over.
Connect(st) ==
    /\ In("connect", st)
    /\ \/ conn' = "up" /\ UNCHANGED faults
       \/ faults < MaxFaults /\ faults' = faults + 1 /\ conn' = "none"
    /\ draft' = db
    /\ UNCHANGED <<keyed, change, plans, found, uuid, db, variables, standing, past, changes, allocs>>

Write(op, st, d) ==
    /\ In(op, st)
    /\ draft' = d
    /\ UNCHANGED <<keyed, change, plans, conn, found, uuid, db, variables, standing, past, changes, allocs, faults>>

Start(st) == Write("start", st, db)
InsertDc(st) == Write("insert_dc", st, [draft EXCEPT !.dcs = @ \cup {st.arg}])

\* The id column counts up.
NextId(d) == 1 + Cardinality(d.rows) + d.gone
InsertRow(st) ==
    LET a == st.arg IN
    Write("insert_row", st, [draft EXCEPT !.rows = @ \cup
        {[id |-> NextId(draft), ip |-> a.ip, type |-> a.type, pos |-> a.pos, used |-> a.used]}])

\* Mutant: the ports are added and the counter stays.
UpdateUsedOnly(st) ==
    Write("update_row", st, [draft EXCEPT !.rows =
        {IF r.ip = st.arg.ip /\ r.type = st.arg.type
         THEN [r EXCEPT !.used = @ \cup st.arg.used] ELSE r : r \in @}])

\* The counter is set, whatever it was, and the ports are added; a machine without
\* such a row is no error.
UpdateRow(st) ==
    Write("update_row", st, [draft EXCEPT !.rows =
        {IF r.ip = st.arg.ip /\ r.type = st.arg.type
         THEN [r EXCEPT !.pos = st.arg.pos, !.used = @ \cup st.arg.used] ELSE r : r \in @}])

DeleteRows(st) ==
    LET old == {r \in draft.rows : r.ip = st.arg} IN
    Write("delete_rows", st, [draft EXCEPT !.rows = @ \ old, !.gone = @ + Cardinality(old)])

\* Mutant: it asks over a connection of its own.
LookUpElsewhere(n, st) ==
    /\ In("lookup", st) /\ st.arg = n
    /\ \/ found' = ClusterOf[n] /\ UNCHANGED faults
       \/ found' = MetaShard /\ faults < MaxFaults /\ faults' = faults + 1
    /\ UNCHANGED <<keyed, change, plans, conn, uuid, db, draft, variables, standing, past, changes, allocs>>

\* An error of the connection, in the middle of the query, is taken for no answer.
LookUp(n, st) ==
    /\ In("lookup", st) /\ st.arg = n
    /\ \/ found' = ClusterOf[n] /\ UNCHANGED <<conn, faults>>
       \/ found' = MetaShard /\ conn' = "lost" /\ faults < MaxFaults /\ faults' = faults + 1
    /\ UNCHANGED <<keyed, change, plans, uuid, db, draft, variables, standing, past, changes, allocs>>

\* A master that does not answer has the uuid "".
AskMaster(st) ==
    /\ In("uuid", st)
    /\ \/ uuid' = TRUE /\ UNCHANGED faults
       \/ uuid' = FALSE /\ faults < MaxFaults /\ faults' = faults + 1
    /\ UNCHANGED <<keyed, change, plans, conn, found, db, draft, variables, standing, past, changes, allocs>>

MapIt(st) ==
    Write("map", st, [draft EXCEPT !.map = @ \cup
        {[node |-> st.arg, cluster |-> IF st.arg \in MetaNode THEN MetaShard ELSE found,
          uuid |-> uuid]}])

Backup(st) == Write("backup", st, [draft EXCEPT !.backups = @ \cup {st.arg}])
Memo(st) == Write("memo", st, [draft EXCEPT !.memos = @ \cup {st.arg}])

Commit(st) ==
    /\ In("commit", st)
    /\ db' = draft
    /\ UNCHANGED <<keyed, change, plans, conn, found, uuid, draft, variables, standing, past, changes, allocs, faults>>

\* Mutant: what was done stays in the transaction.
AbortOpen ==
    /\ change' = NoChange /\ conn' = "none"
    /\ UNCHANGED <<keyed, pc, plans, found, uuid, draft, variables, past, changes, allocs>>

\* An exception that nobody catches: the connection is closed, and what is not
\* committed is gone.
Abort ==
    /\ change' = NoChange /\ conn' = "none" /\ draft' = db'
    /\ UNCHANGED <<keyed, pc, plans, found, uuid, variables, past, changes, allocs>>

\* An operator who sees that only delete_cluster failed goes on as after a clean.
StatementFails(st) ==
    /\ ~CanRun(st)
    /\ standing' = IF st.op = "delete_cluster"
                   THEN [standing EXCEPT ![change.config] = "out"] ELSE standing
    /\ UNCHANGED <<db, faults>>
    /\ Abort

\* The connection, or a storage node that is to get a variable, does not answer; a
\* commit may be done all the same.
StatementFaults(st) ==
    /\ CanRun(st) /\ faults < MaxFaults /\ faults' = faults + 1
    /\ db' \in {db} \cup {d \in {draft} : st.op = "commit"}
    /\ UNCHANGED standing
    /\ Abort

\* meta_conn.close(), which None does not have.
Finish ==
    /\ change # NoChange /\ Upcoming = {}
    /\ standing' = [standing EXCEPT ![change.config] =
                      CASE conn = "none"      -> "unsure"
                        [] change.op = "add"  -> "in"
                        [] OTHER              -> "out"]
    /\ UNCHANGED <<db, faults>>
    /\ Abort

\* A cluster manager gives the port at the counter of row r to an instance of its
\* own; a row that the open transaction has changed is locked.
Allocate(r) ==
    /\ allocs < MaxAllocs /\ allocs' = allocs + 1
    /\ conn = "up" => r \in draft.rows
    /\ LET s == [r EXCEPT !.pos = @ + 1, !.used = @ \cup {<<r.pos, "manager">>}]
           With(d) == [d EXCEPT !.rows = IF r \in @ THEN (@ \ {r}) \cup {s} ELSE @] IN
       db' = With(db) /\ draft' = With(draft)
    /\ raced' = (raced \/ /\ change.op = "add"
                          /\ r.ip \in Skips(change.config))
    /\ UNCHANGED <<keyed, change, pc, plans, conn, found, uuid, variables, standing, repeated>>
    /\ UNCHANGED <<changes, faults>>

-----------------------------------------------------------------------------
Init ==
    /\ keyed \in BOOLEAN
    /\ change = NoChange /\ pc = 1 /\ conn = "none" /\ found = MetaShard /\ uuid = FALSE
    /\ plans = [c \in Config |-> <<>>]
    /\ db = Empty /\ draft = Empty /\ variables = {}
    /\ standing = [c \in Config |-> "out"] /\ raced = FALSE /\ repeated = FALSE
    /\ changes = 0 /\ allocs = 0 /\ faults = 0

Run(st) ==
    \/ \E n \in Node : SetVariable(n, st) \/ LookUp(n, st)
    \/ Connect(st) \/ Start(st) \/ Commit(st)
    \/ InsertDc(st) \/ InsertRow(st) \/ UpdateRow(st) \/ DeleteRows(st)
    \/ AskMaster(st) \/ MapIt(st) \/ Backup(st) \/ Memo(st)
    \/ StatementFails(st) \/ StatementFaults(st)

Next ==
    \/ \E c \in Config : IssueAdd(c) \/ IssueRemove(c) \/ RemoveShard(c)
    \/ \E st \in Upcoming : Run(st)
    \/ Finish
    \/ \E r \in db.rows : Allocate(r)

Spec == Init /\ [][Next]_vars

-----------------------------------------------------------------------------
(* Properties.                                                             *)

\* The variables hold what their comments say, and nothing is half done when no
\* change runs.
TypeOK ==
    /\ keyed \in BOOLEAN /\ raced \in BOOLEAN /\ repeated \in BOOLEAN /\ uuid \in BOOLEAN
    /\ change \in [config : Config, op : {"add", "remove"}] \cup {NoChange}
    /\ pc \in Nat \ {0}
    /\ conn \in {"none", "up", "lost"} /\ found \in Cluster \cup {MetaShard}
    /\ variables \subseteq Node
    /\ standing \in [Config -> {"out", "in", "unsure"}]
    /\ changes \in 0..MaxChanges /\ allocs \in 0..MaxAllocs /\ faults \in 0..MaxFaults
    /\ change = NoChange => draft = db /\ conn = "none"

\* One row for each type on a machine, though changes fail half-way and are run
\* again.  Where the table does not check it, a second row comes from one thing
\* only: an addition that is repeated although its first rows were committed.
RowsOnce ==
    keyed \/ ~repeated => \A r, s \in db.rows : r.ip = s.ip /\ r.type = s.type => r = s

\* Ports that a configuration gave to its instances are in the rows of their
\* machines for as long as it is installed, in every one that there is; and there is
\* one, unless the configuration that set the machine up registered it for the other
\* type only.  In that case the update finds no row, and the ports are recorded
\* nowhere.
PortsRecorded ==
    \A c \in Config : standing[c] = "in" =>
        \A i \in DOMAIN Content[c].nodes : \A t \in Types : Content[c].nodes[i].ports[t] > 0 =>
            LET m == Content[c].nodes[i].ip IN
            /\ RowsFor(db, m, t) = {} <=> ~\E o \in Config : standing[o] = "in" /\ SetsUp(o, m, t)
            /\ \A r \in RowsFor(db, m, t) : RowOf(c, i, t).used \subseteq r.used

\* With counters that were given as they stand, and no cluster manager at work
\* meanwhile, no port of a row is given to two.
PortsGivenOnce ==
    ~raced => \A r \in db.rows : \A p, q \in r.used : p[1] = q[1] => p = q

\* A node of a data shard is never committed under the id of the metadata shard.
NoUnknownCluster == \A x \in db.map : x.cluster = MetaShard => x.node \in MetaNode
=============================================================================
