------------------------- MODULE MetadataChangeProofs -------------------------
(***************************************************************************)
(* Theorems about MetadataChange, for every configuration: the types, that *)
(* rows are unique, that they have the ports of what is installed, that no *)
(* port is given twice and that no node is mapped to a cluster that nobody *)
(* knows.  They rest on the order of the statements of a change, which is  *)
(* what the first half is about.                                           *)
(***************************************************************************)
EXTENDS MetadataChange, Inductions

-----------------------------------------------------------------------------
(* Types.                                                                  *)

\* What the steps of a running change have in common.
LEMMA StepOfChange ==
    ASSUME TypeOK, change # NoChange, change' = change, pc' = pc + 1,
           UNCHANGED <<keyed, standing, past, changes, allocs>>,
           conn' \in {"none", "up", "lost"}, found' \in Cluster \cup {MetaShard},
           uuid' \in BOOLEAN, variables' \subseteq Node, faults' \in 0..MaxFaults
    PROVE  TypeOK'
  BY DEF TypeOK, past

\* What the ends of a change have in common.
LEMMA EndOfChange ==
    ASSUME TypeOK, Abort, faults' \in 0..MaxFaults,
           standing' \in [Config -> {"out", "in", "unsure"}]
    PROVE  TypeOK'
  BY MetadataAssumption DEF TypeOK, Abort, past

LEMMA InAChange == ASSUME NEW st \in Upcoming PROVE change # NoChange
  BY DEF Upcoming, Statements, NoChange

\* The variables hold values of their types in every reachable state, and when no
\* change runs there is no open transaction and no connection: whatever fails in a
\* change, and wherever, what is not committed is gone.
THEOREM MetadataTyping == Spec => []TypeOK
<1>1. Init => TypeOK
  <2> SUFFICES ASSUME Init PROVE TypeOK
    OBVIOUS
  <2>1. keyed \in BOOLEAN /\ raced \in BOOLEAN /\ repeated \in BOOLEAN /\ uuid \in BOOLEAN
    BY Zenon DEF Init
  <2>2. changes \in 0..MaxChanges /\ allocs \in 0..MaxAllocs /\ faults \in 0..MaxFaults
    BY MetadataAssumption DEF Init
  <2> QED
    BY <2>1, <2>2 DEF Init, TypeOK
<1>2. TypeOK /\ [Next]_vars => TypeOK'
  <2> SUFFICES ASSUME TypeOK, [Next]_vars PROVE TypeOK'
    OBVIOUS
  <2> USE MetadataAssumption
  <2>1. ASSUME NEW c \in Config, NEW op \in {"add", "remove"}, Issue(c, op),
               keyed' = keyed, raced' \in BOOLEAN, repeated' \in BOOLEAN
        PROVE  TypeOK'
    <3>1. changes' \in 0..MaxChanges
      BY <2>1 DEF Issue, TypeOK
    <3>2. change' \in [config : Config, op : {"add", "remove"}]
      BY <2>1 DEF Issue
    <3>3. change' # NoChange
      BY <2>1 DEF Issue, NoChange
    <3> QED
      BY <2>1, <3>1, <3>2, <3>3 DEF Issue, TypeOK
  <2>2. ASSUME NEW c \in Config, IssueAdd(c) PROVE TypeOK'
    <3>1. raced' \in BOOLEAN
      BY <2>2, Zenon DEF IssueAdd, TypeOK
    <3>2. repeated' \in BOOLEAN
      BY <2>2, Zenon DEF IssueAdd, TypeOK
    <3> QED
      BY <2>1, <2>2, <3>1, <3>2 DEF IssueAdd, Issue
  <2>3. ASSUME NEW c \in Config, IssueRemove(c) PROVE TypeOK'
    BY <2>1, <2>3 DEF IssueRemove, Issue, TypeOK, past
  <2>4. ASSUME NEW c \in Config, RemoveShard(c) PROVE TypeOK'
    BY <2>4 DEF RemoveShard, TypeOK, past
  <2>5. ASSUME NEW st \in Upcoming, NEW n \in Node, SetVariable(n, st) PROVE TypeOK'
    BY <2>5, StepOfChange, InAChange DEF SetVariable, In, TypeOK
  <2>6. ASSUME NEW st \in Upcoming, NEW n \in Node, LookUp(n, st) PROVE TypeOK'
    BY <2>6, StepOfChange, InAChange DEF LookUp, In, TypeOK
  <2>7. ASSUME NEW st \in Upcoming, Connect(st) PROVE TypeOK'
    BY <2>7, StepOfChange, InAChange DEF Connect, In, TypeOK
  <2>8. ASSUME NEW st \in Upcoming, NEW op, NEW d, Write(op, st, d) PROVE TypeOK'
    BY <2>8, StepOfChange, InAChange DEF Write, In, TypeOK
  <2>9. ASSUME NEW st \in Upcoming, Commit(st) PROVE TypeOK'
    BY <2>9, StepOfChange, InAChange DEF Commit, In, TypeOK
  <2>10. ASSUME NEW st \in Upcoming, StatementFails(st) PROVE TypeOK'
    <3>1. standing' \in [Config -> {"out", "in", "unsure"}]
      BY <2>10 DEF StatementFails, TypeOK
    <3> QED
      BY <2>10, <3>1, EndOfChange DEF StatementFails, TypeOK
  <2>11. ASSUME NEW st \in Upcoming, StatementFaults(st) PROVE TypeOK'
    BY <2>11, EndOfChange DEF StatementFaults, TypeOK
  <2>12. CASE Finish
    <3>1. standing' \in [Config -> {"out", "in", "unsure"}]
      BY <2>12 DEF Finish, TypeOK
    <3> QED
      BY <2>12, <3>1, EndOfChange DEF Finish, TypeOK
  <2>13. ASSUME NEW r \in db.rows, Allocate(r) PROVE TypeOK'
    <3>1. raced' \in BOOLEAN
      BY <2>13, Zenon DEF Allocate, TypeOK
    <3>2. allocs' \in 0..MaxAllocs
      BY <2>13 DEF Allocate, TypeOK
    <3>3. draft = db => draft' = db'
      BY <2>13 DEF Allocate
    <3> QED
      BY <2>13, <3>1, <3>2, <3>3 DEF Allocate, TypeOK
  <2>14. CASE UNCHANGED vars
    BY <2>14 DEF vars, work, past, TypeOK
  <2>15. ASSUME NEW st \in Upcoming, AskMaster(st) PROVE TypeOK'
    <3>1. uuid' \in BOOLEAN
      BY <2>15 DEF AskMaster
    <3>2. faults' \in 0..MaxFaults
      BY <2>15 DEF AskMaster, TypeOK
    <3> QED
      BY <2>15, <3>1, <3>2, StepOfChange, InAChange DEF AskMaster, In, TypeOK
  <2> QED
    BY <2>15, <2>2, <2>3, <2>4, <2>5, <2>6, <2>7, <2>8, <2>9, <2>10, <2>11, <2>12, <2>13, <2>14
    DEF Next, Run, Start, InsertDc, InsertRow, UpdateRow, DeleteRows, MapIt, Backup, Memo
<1> QED
  BY <1>1, <1>2, PTL DEF Spec

-----------------------------------------------------------------------------
(* The statements of a change: which there are, and in which order.        *)

Nodes(c) == Content[c].nodes

RowArgs(c) == {RowOf(c, i, t) : i \in DOMAIN Nodes(c), t \in Types}
Args(c) == Node \cup Dc \cup Cluster \cup Machine \cup Backups \cup {""} \cup RowArgs(c)
StmtsOf(c, ops) == [op : ops, arg : Args(c)]

RowOps == {"insert_row", "update_row"}
QuietOps ==
    {"variable", "connect", "start", "commit", "insert_dc", "lookup", "uuid", "map", "backup",
     "memo"}

LEMMA ContentTyped ==
    ASSUME NEW c \in Config
    PROVE  /\ Content[c].vars \in Seq(Node) /\ Content[c].dcs \in Seq(Dc)
           /\ Nodes(c) \in Seq(NodemgrType) /\ Content[c].pairs \in Seq(Node)
           /\ Content[c].clusters \in Seq(Cluster)
           /\ Content[c].backups \in Seq(Backups)
           /\ DOMAIN Nodes(c) = 1..Len(Nodes(c)) /\ Len(Nodes(c)) \in Nat
           /\ \A i \in 1..Len(Nodes(c)) : Nodes(c)[i] \in NodemgrType
  BY MetadataAssumption DEF ContentType, Nodes

LEMMA StmtTyped ==
    ASSUME NEW c, NEW ops, NEW op \in ops, NEW arg \in Args(c)
    PROVE  Stmt(op, arg) \in StmtsOf(c, ops) /\ Stmt(op, arg).op = op /\ Stmt(op, arg).arg = arg
  BY DEF Stmt, StmtsOf

LEMMA MoreOps ==
    ASSUME NEW c, NEW ops, NEW more, ops \subseteq more, NEW s \in Seq(StmtsOf(c, ops))
    PROVE  s \in Seq(StmtsOf(c, more))
<1>1. StmtsOf(c, ops) \subseteq StmtsOf(c, more)
  BY DEF StmtsOf
<1> HIDE DEF StmtsOf
<1> QED
  BY <1>1

LEMMA StmtsTyped ==
    ASSUME NEW c, NEW ops, NEW op \in ops, NEW A, A \subseteq Args(c), NEW s \in Seq(A)
    PROVE  /\ Stmts(op, s) \in Seq(StmtsOf(c, ops))
           /\ Len(Stmts(op, s)) = Len(s)
           /\ \A i \in 1..Len(s) : Stmts(op, s)[i] = Stmt(op, s[i])
<1>1. \A i \in 1..Len(s) : Stmt(op, s[i]) \in StmtsOf(c, ops)
  BY StmtTyped
<1>2. DOMAIN s = 1..Len(s) /\ Len(s) \in Nat
  OBVIOUS
<1> QED
  BY <1>1, <1>2 DEF Stmts

LEMMA OpsOf ==
    ASSUME NEW c, NEW ops, NEW s \in Seq(StmtsOf(c, ops))
    PROVE  \A q \in 1..Len(s) : s[q].op \in ops /\ s[q].arg \in Args(c)
<1>1. \A st \in StmtsOf(c, ops) : st.op \in ops /\ st.arg \in Args(c)
  BY DEF StmtsOf
<1> HIDE DEF StmtsOf
<1>2. \A q \in 1..Len(s) : s[q] \in StmtsOf(c, ops)
  OBVIOUS
<1> QED
  BY <1>1, <1>2

LEMMA Joined ==
    ASSUME NEW S, NEW a \in Seq(S), NEW b \in Seq(S)
    PROVE  /\ a \o b \in Seq(S) /\ Len(a) \in Nat /\ Len(b) \in Nat
           /\ Len(a \o b) = Len(a) + Len(b)
           /\ \A q \in 1..Len(a) : q \in 1..Len(a \o b) /\ (a \o b)[q] = a[q]
           /\ \A k \in 1..Len(b) : Len(a) + k \in 1..Len(a \o b) /\ (a \o b)[Len(a) + k] = b[k]
           /\ \A q \in 1..Len(a \o b) : q \notin 1..Len(a) =>
                 q - Len(a) \in 1..Len(b) /\ q = Len(a) + (q - Len(a))
  OBVIOUS

LEMMA SmallSeqs ==
    ASSUME NEW S, NEW a \in S, NEW b \in S
    PROVE  /\ {<<>>, <<a>>, <<b>>, <<a, b>>} \subseteq Seq(S)
           /\ \A x \in S : <<a, b, x>> \in Seq(S)
  OBVIOUS

LEMMA SmallJoins ==
    /\ <<>> \o <<>> = <<>>
    /\ \A x : <<x>> \o <<>> = <<x>> /\ <<>> \o <<x>> = <<x>>
    /\ \A x, y : <<x>> \o <<y>> = <<x, y>> /\ <<>> \o <<x, y>> = <<x, y>>
    /\ \A x, y, z : <<x>> \o <<y, z>> = <<x, y, z>>
<1>1. <<>> \o <<>> = <<>>
  BY <<>> \in Seq({})
<1>2. ASSUME NEW x PROVE <<x>> \o <<>> = <<x>> /\ <<>> \o <<x>> = <<x>>
  BY <<x>> \in Seq({x}), <<>> \in Seq({x})
<1>3. ASSUME NEW x, NEW y PROVE <<x>> \o <<y>> = <<x, y>>
  <2> DEFINE s == <<x>> \o <<y>>
             t == <<x, y>>
  <2>1. /\ s \in Seq({x, y}) /\ Len(s) = 2 /\ s[1] = x /\ s[2] = y
        /\ t \in Seq({x, y}) /\ Len(t) = 2 /\ t[1] = x /\ t[2] = y
    BY <<x>> \in Seq({x, y}), <<y>> \in Seq({x, y}), <<x, y>> \in Seq({x, y})
  <2> HIDE DEF s, t
  <2>2. DOMAIN s = {1, 2} /\ DOMAIN t = {1, 2} /\ \A i \in {1, 2} : s[i] = t[i]
    BY <2>1
  <2>3. s = [i \in DOMAIN s |-> s[i]] /\ t = [i \in DOMAIN t |-> t[i]]
    BY <2>1
  <2>4. s = t
    BY <2>2, <2>3
  <2> QED
    BY <2>4 DEF s, t
<1>4. ASSUME NEW x, NEW y PROVE <<>> \o <<x, y>> = <<x, y>>
  BY <<x, y>> \in Seq({x, y}), <<>> \in Seq({x, y})
<1>5. ASSUME NEW x, NEW y, NEW z PROVE <<x>> \o <<y, z>> = <<x, y, z>>
  <2> DEFINE s == <<x>> \o <<y, z>>
             t == <<x, y, z>>
             S == {x, y, z}
  <2>1. /\ s \in Seq(S) /\ Len(s) = 3 /\ s[1] = x /\ s[2] = y /\ s[3] = z
        /\ t \in Seq(S) /\ Len(t) = 3 /\ t[1] = x /\ t[2] = y /\ t[3] = z
    BY <<x>> \in Seq(S), <<y, z>> \in Seq(S), <<x, y, z>> \in Seq(S)
  <2> HIDE DEF s, t, S
  <2>2. DOMAIN s = {1, 2, 3} /\ DOMAIN t = {1, 2, 3} /\ \A i \in {1, 2, 3} : s[i] = t[i]
    BY <2>1
  <2>3. s = [i \in DOMAIN s |-> s[i]] /\ t = [i \in DOMAIN t |-> t[i]]
    BY <2>1
  <2>4. s = t
    BY <2>2, <2>3
  <2> QED
    BY <2>4 DEF s, t
<1> QED
  BY <1>1, <1>2, <1>3, <1>4, <1>5

LEMMA Surrounded ==
    ASSUME NEW S, NEW a \in S, NEW b \in S, NEW s \in Seq(S)
    PROVE  LET all == <<a>> \o s \o <<b>> IN
           /\ all \in Seq(S) /\ Len(all) = Len(s) + 2
           /\ all[1] = a /\ all[Len(s) + 2] = b
           /\ \A q \in 1..Len(s) : all[q + 1] = s[q]
<1>1. <<a>> \in Seq(S) /\ <<b>> \in Seq(S) /\ Len(<<a>>) = 1 /\ Len(<<b>>) = 1
  OBVIOUS
<1>2. /\ <<a>> \o s \in Seq(S) /\ Len(<<a>> \o s) = Len(s) + 1 /\ (<<a>> \o s)[1] = a
      /\ \A q \in 1..Len(s) : (<<a>> \o s)[q + 1] = s[q]
  BY <1>1
<1> QED
  BY <1>1, <1>2

LEMMA Framed ==
    ASSUME NEW c
    PROVE  Stmt("start", "") \in StmtsOf(c, {"start"}) /\ Stmt("commit", "") \in StmtsOf(c, {"commit"})
<1>1. "" \in Args(c)
  <2>1. "" \in {""}
    OBVIOUS
  <2> QED
    BY <2>1 DEF Args
<1> QED
  BY <1>1, StmtTyped

LEMMA SectionIs ==
    ASSUME NEW S, NEW s \in Seq(S)
    PROVE  \/ s = <<>> /\ Section(s) = <<>>
           \/ /\ Len(s) \in Nat /\ Len(Section(s)) = Len(s) + 2
              /\ Section(s)[1] = Stmt("start", "")
              /\ Section(s)[Len(s) + 2] = Stmt("commit", "")
              /\ \A q \in 1..Len(s) : Section(s)[q + 1] = s[q]
<1> DEFINE first == Stmt("start", "")
           last == Stmt("commit", "")
           T == S \cup {first, last}
<1>1. s # <<>> => Section(s) = <<first>> \o s \o <<last>>
  BY DEF Section
<1>2. s = <<>> => Section(s) = <<>>
  BY DEF Section
<1> HIDE DEF first, last
<1>3. s \in Seq(T) /\ first \in T /\ last \in T
  <2>1. S \subseteq T /\ first \in T /\ last \in T
    OBVIOUS
  <2> HIDE DEF T
  <2> QED
    BY <2>1
<1> HIDE DEF T
<1>4. CASE s # <<>>
  <2> DEFINE all == <<first>> \o s \o <<last>>
  <2>1. Section(s) = all
    BY <1>1, <1>4
  <2>2. /\ Len(all) = Len(s) + 2 /\ all[1] = first /\ all[Len(s) + 2] = last
        /\ \A q \in 1..Len(s) : all[q + 1] = s[q]
    BY <1>3, Surrounded
  <2>3. Len(s) \in Nat
    OBVIOUS
  <2> HIDE DEF all
  <2>4. /\ Len(Section(s)) = Len(s) + 2 /\ Len(s) \in Nat
        /\ Section(s)[1] = first /\ Section(s)[Len(s) + 2] = last
        /\ \A q \in 1..Len(s) : Section(s)[q + 1] = s[q]
    BY <2>1, <2>2, <2>3
  <2> QED
    BY <2>4 DEF first, last
<1> QED
  BY <1>2, <1>4

LEMMA SectionTyped ==
    ASSUME NEW c, NEW ops, "start" \in ops, "commit" \in ops, NEW s \in Seq(StmtsOf(c, ops))
    PROVE  Section(s) \in Seq(StmtsOf(c, ops))
<1>1. Stmt("start", "") \in StmtsOf(c, ops) /\ Stmt("commit", "") \in StmtsOf(c, ops)
  BY Framed DEF StmtsOf
<1> DEFINE S == StmtsOf(c, ops)
           first == Stmt("start", "")
           last == Stmt("commit", "")
<1>2. first \in S /\ last \in S /\ s \in Seq(S)
  BY <1>1
<1>3. Section(s) = IF s = <<>> THEN <<>> ELSE <<first>> \o s \o <<last>>
  BY DEF Section
<1> HIDE DEF S, first, last
<1>4. Section(s) \in Seq(S)
  BY <1>2, <1>3, Surrounded
<1> QED
  BY <1>4 DEF S

-----------------------------------------------------------------------------
(* The statements about rows.                                              *)

\* s has one statement for each row that the first n elements are to have.
IsListing(s, op, c, n, T) ==
    /\ \A q \in 1..Len(s) : \E i \in 1..n : \E t \in T[i] : s[q] = Stmt(op, RowOf(c, i, t))
    /\ \A p, q \in 1..Len(s) :
          s[p].arg.ip = s[q].arg.ip /\ s[p].arg.type = s[q].arg.type => p = q
    /\ \A i \in 1..n : \A t \in T[i] : \E q \in 1..Len(s) : s[q] = Stmt(op, RowOf(c, i, t))

LEMMA RowOfIs ==
    ASSUME NEW c, NEW i, NEW t
    PROVE  RowOf(c, i, t).ip = Nodes(c)[i].ip /\ RowOf(c, i, t).type = t
  BY DEF RowOf, Nodes

LEMMA ListingGoesOn ==
    ASSUME NEW c \in Config, NEW op, NEW n \in Nat \ {0}, n <= Len(Nodes(c)), NEW T,
           NEW S, NEW a \in Seq(S), IsListing(a, op, c, n - 1, T),
           NEW b \in Seq(S), NEW t1, NEW t2,
           \/ b = <<>> /\ T[n] = {}
           \/ b = <<Stmt(op, RowOf(c, n, t1))>> /\ T[n] = {t1}
           \/ b = <<Stmt(op, RowOf(c, n, t1)), Stmt(op, RowOf(c, n, t2))>> /\ T[n] = {t1, t2} /\ t1 # t2
    PROVE  IsListing(a \o b, op, c, n, T)
<1> DEFINE s == a \o b
<1>1. /\ Len(a) \in Nat /\ Len(b) \in Nat /\ Len(s) = Len(a) + Len(b)
      /\ \A q \in 1..Len(a) : s[q] = a[q]
      /\ \A k \in 1..Len(b) : s[Len(a) + k] = b[k]
  OBVIOUS
<1>2. \A q \in 1..Len(s) : q \in 1..Len(a) \/ \E k \in 1..Len(b) : q = Len(a) + k
  <2> TAKE q \in 1..Len(s)
  <2>1. q \notin 1..Len(a) => q - Len(a) \in 1..Len(b) /\ q = Len(a) + (q - Len(a))
    BY <1>1
  <2> QED
    BY <2>1
<1> HIDE DEF s
<1>3. \A k \in 1..Len(b) : \E t \in T[n] : b[k] = Stmt(op, RowOf(c, n, t))
  OBVIOUS
<1>4. \A k, l \in 1..Len(b) : b[k].arg.type = b[l].arg.type => k = l
  BY RowOfIs DEF Stmt
<1>5. \A t \in T[n] : \E k \in 1..Len(b) : b[k] = Stmt(op, RowOf(c, n, t))
  OBVIOUS
<1>6. \A q \in 1..Len(s) : \E i \in 1..n : \E t \in T[i] : s[q] = Stmt(op, RowOf(c, i, t))
  <2> TAKE q \in 1..Len(s)
  <2>1. CASE q \in 1..Len(a)
    <3>1. \E i \in 1..(n - 1) : \E t \in T[i] : a[q] = Stmt(op, RowOf(c, i, t))
      BY <2>1 DEF IsListing
    <3> QED
      BY <3>1, <2>1, <1>1
  <2>2. ASSUME NEW k \in 1..Len(b), q = Len(a) + k
        PROVE  \E i \in 1..n : \E t \in T[i] : s[q] = Stmt(op, RowOf(c, i, t))
    <3>1. \E t \in T[n] : s[q] = Stmt(op, RowOf(c, n, t))
      BY <2>2, <1>1, <1>3
    <3> QED
      BY <3>1
  <2> QED
    BY <1>2, <2>1, <2>2
<1>7. \A i \in 1..n : \A t \in T[i] : \E q \in 1..Len(s) : s[q] = Stmt(op, RowOf(c, i, t))
  <2> TAKE i \in 1..n
  <2> TAKE t \in T[i]
  <2>1. CASE i = n
    <3>1. PICK k \in 1..Len(b) : b[k] = Stmt(op, RowOf(c, n, t))
      BY <2>1, <1>5
    <3>2. Len(a) + k \in 1..Len(s) /\ s[Len(a) + k] = b[k]
      BY <1>1
    <3> QED
      BY <2>1, <3>1, <3>2
  <2>2. CASE i # n
    <3>1. i \in 1..(n - 1)
      BY <2>2
    <3>2. PICK q \in 1..Len(a) : a[q] = Stmt(op, RowOf(c, i, t))
      BY <3>1 DEF IsListing
    <3>3. q \in 1..Len(s) /\ s[q] = a[q]
      BY <1>1
    <3> QED
      BY <3>2, <3>3
  <2> QED
    BY <2>1, <2>2
<1>8. ASSUME NEW p \in 1..Len(a), NEW k \in 1..Len(b)
      PROVE  a[p].arg.ip # b[k].arg.ip
  <2>1. PICK i \in 1..(n - 1) : \E t \in T[i] : a[p] = Stmt(op, RowOf(c, i, t))
    BY DEF IsListing
  <2>2. a[p].arg.ip = Nodes(c)[i].ip /\ b[k].arg.ip = Nodes(c)[n].ip
    BY <2>1, <1>3, RowOfIs DEF Stmt
  <2>3. i \in DOMAIN Nodes(c) /\ n \in DOMAIN Nodes(c) /\ i # n
    BY <2>1, ContentTyped
  <2> QED
    BY <2>2, <2>3, MetadataAssumption DEF Validated, Nodes
<1>9. ASSUME NEW p \in 1..Len(s), NEW q \in 1..Len(s),
             s[p].arg.ip = s[q].arg.ip, s[p].arg.type = s[q].arg.type
      PROVE  p = q
  <2>1. CASE p \in 1..Len(a) /\ q \in 1..Len(a)
    BY <1>1, <1>9, <2>1 DEF IsListing
  <2>2. ASSUME NEW k \in 1..Len(b), p = Len(a) + k, NEW l \in 1..Len(b), q = Len(a) + l
        PROVE  p = q
    BY <1>1, <1>4, <1>9, <2>2
  <2>3. ASSUME p \in 1..Len(a), NEW k \in 1..Len(b), q = Len(a) + k PROVE FALSE
    BY <1>1, <1>8, <1>9, <2>3
  <2>4. ASSUME q \in 1..Len(a), NEW k \in 1..Len(b), p = Len(a) + k PROVE FALSE
    BY <1>1, <1>8, <1>9, <2>4
  <2> QED
    BY <1>2, <2>1, <2>2, <2>3, <2>4
<1> QED
  BY <1>6, <1>7, <1>9 DEF IsListing, s

\* What FlattenSeq makes of listings for each element is one for all of them.
LEMMA ListingOfAll ==
    ASSUME NEW c \in Config, NEW op, NEW T, NEW ss \in Seq(Seq(StmtsOf(c, {op}))),
           Len(ss) = Len(Nodes(c)),
           \A n \in 1..Len(ss) :
              \/ ss[n] = <<>> /\ T[n] = {}
              \/ \E t1, t2 \in Types :
                 \/ ss[n] = <<Stmt(op, RowOf(c, n, t1))>> /\ T[n] = {t1}
                 \/ /\ ss[n] = <<Stmt(op, RowOf(c, n, t1)), Stmt(op, RowOf(c, n, t2))>>
                    /\ T[n] = {t1, t2} /\ t1 # t2
    PROVE  /\ FlattenSeq(ss) \in Seq(StmtsOf(c, {op}))
           /\ IsListing(FlattenSeq(ss), op, c, Len(ss), T)
<1> DEFINE S == StmtsOf(c, {op})
           Upto == [k \in Nat |-> {a \in Seq(S) : IsListing(a, op, c, k, T)}]
<1>1. Len(ss) \in Nat /\ (Len(ss) = 0 => ss = <<>>) /\ \A n \in 1..Len(ss) : ss[n] \in Seq(S)
  OBVIOUS
<1> HIDE DEF S
<1>2. <<>> \in Upto[0]
  BY DEF IsListing
<1>3. ASSUME NEW n \in 1..Len(ss), NEW a \in Upto[n - 1] PROVE a \o ss[n] \in Upto[n]
  <2>1. n \in Nat \ {0} /\ n - 1 \in Nat /\ n <= Len(Nodes(c))
    BY <1>1
  <2>2. a \in Seq(S) /\ IsListing(a, op, c, n - 1, T) /\ ss[n] \in Seq(S)
    BY <1>1, <2>1
  <2>3. IsListing(a \o ss[n], op, c, n, T)
    <3>1. CASE ss[n] = <<>> /\ T[n] = {}
      BY <2>1, <2>2, <3>1, ListingGoesOn
    <3>2. ASSUME NEW t1, NEW t2,
                 \/ ss[n] = <<Stmt(op, RowOf(c, n, t1))>> /\ T[n] = {t1}
                 \/ /\ ss[n] = <<Stmt(op, RowOf(c, n, t1)), Stmt(op, RowOf(c, n, t2))>>
                    /\ T[n] = {t1, t2} /\ t1 # t2
          PROVE  IsListing(a \o ss[n], op, c, n, T)
      BY <2>1, <2>2, <3>2, ListingGoesOn
    <3> QED
      BY <3>1, <3>2
  <2>4. a \o ss[n] \in Seq(S)
    BY <2>2
  <2> QED
    BY <2>1, <2>3, <2>4
<1>4. FlattenSeq(ss) \in Upto[Len(ss)]
  <2> HIDE DEF Upto
  <2> QED
    BY <1>1, <1>2, <1>3, FlattenInduction
<1> QED
  BY <1>1, <1>4 DEF S

LEMMA RowTyped ==
    ASSUME NEW c, NEW i \in DOMAIN Nodes(c), NEW t \in Types
    PROVE  RowOf(c, i, t) \in Args(c)
<1>1. RowOf(c, i, t) \in RowArgs(c)
  BY DEF RowArgs
<1> QED
  BY <1>1 DEF Args

Fresh(c) ==
    [i \in DOMAIN Nodes(c) |->
        IF Nodes(c)[i].skip THEN {} ELSE ToSet(TypesOf(Nodes(c)[i].nodetype))]
More(c) ==
    [i \in DOMAIN Nodes(c) |->
        {t \in Types : Nodes(c)[i].skip /\ Nodes(c)[i].ports[t] > 0}]

LEMMA InsertsListed ==
    ASSUME NEW c \in Config
    PROVE  /\ Inserts(c) \in Seq(StmtsOf(c, {"insert_row"}))
           /\ IsListing(Inserts(c), "insert_row", c, Len(Nodes(c)), Fresh(c))
<1> DEFINE N == Nodes(c)
           Of(i) == LET ts == TypesOf(N[i].nodetype) IN
                    IF N[i].skip THEN <<>>
                    ELSE [j \in DOMAIN ts |-> Stmt("insert_row", RowOf(c, i, ts[j]))]
           ss == [i \in DOMAIN N |-> Of(i)]
<1>1. Inserts(c) = FlattenSeq(ss)
  BY DEF Inserts, Nodes
<1>2. DOMAIN N = 1..Len(N) /\ Len(N) \in Nat /\ \A i \in 1..Len(N) : N[i] \in NodemgrType
  BY ContentTyped
<1> DEFINE R(i, t) == Stmt("insert_row", RowOf(c, i, t))
<1>3. \A i \in 1..Len(N) : \A t \in Types : R(i, t) \in StmtsOf(c, {"insert_row"})
  BY <1>2, RowTyped, StmtTyped
<1>4. ASSUME NEW i \in 1..Len(N)
      PROVE  \/ Of(i) = <<>> /\ Fresh(c)[i] = {}
             \/ Of(i) = <<R(i, "storage")>> /\ Fresh(c)[i] = {"storage"}
             \/ Of(i) = <<R(i, "computer")>> /\ Fresh(c)[i] = {"computer"}
             \/ /\ Of(i) = <<R(i, "storage"), R(i, "computer")>>
                /\ Fresh(c)[i] = {"storage", "computer"}
  <2>1. N[i].nodetype \in {"none", "both", "storage", "server"} /\ N[i].skip \in BOOLEAN
    BY <1>2 DEF NodemgrType
  <2>2. Fresh(c)[i] = IF N[i].skip THEN {} ELSE ToSet(TypesOf(N[i].nodetype))
    BY <1>2 DEF Fresh
  <2>3. CASE N[i].skip
    BY <2>2, <2>3
  <2>4. ASSUME ~N[i].skip, NEW ts, TypesOf(N[i].nodetype) = ts
        PROVE  Of(i) = [j \in DOMAIN ts |-> R(i, ts[j])] /\ Fresh(c)[i] = ToSet(ts)
    BY <2>2, <2>4
  <2> HIDE DEF R
  <2>5. /\ [j \in DOMAIN <<>> |-> R(i, <<>>[j])] = <<>>
        /\ \A t : [j \in DOMAIN <<t>> |-> R(i, <<t>>[j])] = <<R(i, t)>>
        /\ \A t, u : [j \in DOMAIN <<t, u>> |-> R(i, <<t, u>>[j])] = <<R(i, t), R(i, u)>>
    OBVIOUS
  <2>6. /\ ToSet(<<>>) = {} /\ (\A t : ToSet(<<t>>) = {t})
        /\ \A t, u : ToSet(<<t, u>>) = {t, u}
    BY DEF ToSet
  <2>7. \/ TypesOf(N[i].nodetype) = <<>> \/ TypesOf(N[i].nodetype) = <<"storage">>
        \/ TypesOf(N[i].nodetype) = <<"computer">>
        \/ TypesOf(N[i].nodetype) = <<"storage", "computer">>
    BY <2>1 DEF TypesOf
  <2> HIDE DEF Of, N
  <2>8. CASE ~N[i].skip /\ TypesOf(N[i].nodetype) = <<>>
    BY <2>4, <2>5, <2>6, <2>8
  <2>9. CASE ~N[i].skip /\ TypesOf(N[i].nodetype) = <<"storage">>
    BY <2>4, <2>5, <2>6, <2>9
  <2>10. CASE ~N[i].skip /\ TypesOf(N[i].nodetype) = <<"computer">>
    BY <2>4, <2>5, <2>6, <2>10
  <2>11. CASE ~N[i].skip /\ TypesOf(N[i].nodetype) = <<"storage", "computer">>
    BY <2>4, <2>5, <2>6, <2>11
  <2> QED
    BY <2>3, <2>7, <2>8, <2>9, <2>10, <2>11
<1> HIDE DEF N, Of, R
<1>5. ss \in Seq(Seq(StmtsOf(c, {"insert_row"}))) /\ Len(ss) = Len(N)
  <2>1. {"storage", "computer"} \subseteq Types
    BY DEF Types
  <2>2. \A i \in 1..Len(N) : Of(i) \in Seq(StmtsOf(c, {"insert_row"}))
    <3> TAKE i \in 1..Len(N)
    <3>1. R(i, "storage") \in StmtsOf(c, {"insert_row"}) /\ R(i, "computer") \in StmtsOf(c, {"insert_row"})
      BY <1>3, <2>1
    <3> QED
      BY <1>4, <3>1, SmallSeqs
  <2> QED
    BY <1>2, <2>2
<1>6. \A i \in 1..Len(ss) : ss[i] = Of(i)
  BY <1>2, <1>5
<1> HIDE DEF ss
<1> QED
  BY <1>1, <1>4, <1>5, <1>6, ListingOfAll DEF R, N, Types

LEMMA UpdatesListed ==
    ASSUME NEW c \in Config
    PROVE  /\ Updates(c) \in Seq(StmtsOf(c, {"update_row"}))
           /\ IsListing(Updates(c), "update_row", c, Len(Nodes(c)), More(c))
<1> DEFINE N == Nodes(c)
           Of(i) == LET n == N[i] IN
                    IF n.skip /\ n.nodetype # "none"
                    THEN UpdateOf(c, i, "storage") \o UpdateOf(c, i, "computer") ELSE <<>>
           ss == [i \in DOMAIN N |-> Of(i)]
           R(i, t) == Stmt("update_row", RowOf(c, i, t))
<1>1. Updates(c) = FlattenSeq(ss)
  BY DEF Updates, Nodes
<1>2. DOMAIN N = 1..Len(N) /\ Len(N) \in Nat /\ \A i \in 1..Len(N) : N[i] \in NodemgrType
  BY ContentTyped
<1>3. \A i \in 1..Len(N) : \A t \in Types : R(i, t) \in StmtsOf(c, {"update_row"})
  BY <1>2, RowTyped, StmtTyped
<1>4. ASSUME NEW i \in 1..Len(N)
      PROVE  \/ Of(i) = <<>> /\ More(c)[i] = {}
             \/ Of(i) = <<R(i, "storage")>> /\ More(c)[i] = {"storage"}
             \/ Of(i) = <<R(i, "computer")>> /\ More(c)[i] = {"computer"}
             \/ /\ Of(i) = <<R(i, "storage"), R(i, "computer")>>
                /\ More(c)[i] = {"storage", "computer"}
  <2>1. N[i].skip \in BOOLEAN
    BY <1>2 DEF NodemgrType
  <2>2. \A t : t \in More(c)[i] <=> t \in {"storage", "computer"} /\ N[i].skip /\ N[i].ports[t] > 0
    BY <1>2 DEF More, Types
  <2>3. ASSUME N[i].nodetype = "none", NEW t \in Types PROVE ~(N[i].ports[t] > 0)
    <3>1. TypesOf("none") = <<>> /\ ToSet(<<>>) = {}
      BY DEF TypesOf, ToSet
    <3> QED
      BY <1>2, <2>3, <3>1, MetadataAssumption DEF Validated, Nodes
  <2>4. CASE ~(N[i].skip /\ N[i].nodetype # "none")
    BY <2>2, <2>3, <2>4 DEF Types
  <2>5. ASSUME N[i].skip, N[i].nodetype # "none",
               NEW a, UpdateOf(c, i, "storage") = a, NEW b, UpdateOf(c, i, "computer") = b
        PROVE  Of(i) = a \o b
    BY <2>5
  <2>6. \A t : UpdateOf(c, i, t) = IF N[i].ports[t] > 0 THEN <<R(i, t)>> ELSE <<>>
    BY DEF UpdateOf, Nodes
  <2> HIDE DEF Of, N, R
  <2>7. /\ <<>> \o <<>> = <<>> /\ (\A x : <<x>> \o <<>> = <<x>> /\ <<>> \o <<x>> = <<x>>)
        /\ \A x, y : <<x>> \o <<y>> = <<x, y>>
    BY SmallJoins
  <2>8. CASE N[i].skip /\ N[i].nodetype # "none" /\ N[i].ports["storage"] > 0
    <3>1. UpdateOf(c, i, "storage") = <<R(i, "storage")>>
      BY <2>6, <2>8
    <3>2. CASE N[i].ports["computer"] > 0
      <4>1. UpdateOf(c, i, "computer") = <<R(i, "computer")>>
        BY <2>6, <3>2
      <4>2. Of(i) = <<R(i, "storage")>> \o <<R(i, "computer")>>
        BY <2>5, <2>8, <3>1, <4>1
      <4>3. Of(i) = <<R(i, "storage"), R(i, "computer")>>
        BY <2>7, <4>2
      <4> QED
        BY <2>2, <2>8, <3>2, <4>3
    <3>3. CASE ~(N[i].ports["computer"] > 0)
      BY <2>2, <2>5, <2>6, <2>7, <2>8, <3>1, <3>3
    <3> QED
      BY <3>2, <3>3
  <2>9. CASE N[i].skip /\ N[i].nodetype # "none" /\ ~(N[i].ports["storage"] > 0)
    BY <2>2, <2>5, <2>6, <2>7, <2>9
  <2> QED
    BY <2>1, <2>4, <2>8, <2>9
<1> HIDE DEF N, Of, R
<1>5. ss \in Seq(Seq(StmtsOf(c, {"update_row"}))) /\ Len(ss) = Len(N)
  <2>1. {"storage", "computer"} \subseteq Types
    BY DEF Types
  <2>2. \A i \in 1..Len(N) : Of(i) \in Seq(StmtsOf(c, {"update_row"}))
    BY <1>3, <1>4, <2>1, SmallSeqs
  <2> QED
    BY <1>2, <2>2
<1>6. \A i \in 1..Len(ss) : ss[i] = Of(i)
  BY <1>2, <1>5
<1> HIDE DEF ss
<1> QED
  BY <1>1, <1>4, <1>5, <1>6, ListingOfAll DEF R, N, Types

\* The rows of every machine that c has set up are deleted.
\* The machines of elements that are not skipped.
LEMMA OwnElement ==
    ASSUME NEW c \in Config, NEW i \in DOMAIN Nodes(c), ~Nodes(c)[i].skip
    PROVE  Nodes(c)[i].ip \in Owns(c)
<1>1. Nodes(c)[i] \in ToSet(Nodes(c)) /\ ToSet(Nodes(c)) = {Nodes(c)[x] : x \in DOMAIN Nodes(c)}
  BY DEF ToSet
<1>2. \A x, y \in DOMAIN Nodes(c) : Nodes(c)[x].ip = Nodes(c)[y].ip => x = y
  BY MetadataAssumption DEF Validated, Nodes
<1>3. Nodes(c)[i].ip \in Uses(c)
  BY <1>1, Zenon DEF Uses, Nodes
<1>4. ASSUME Nodes(c)[i].ip \in Skips(c) PROVE FALSE
  <2>1. PICK n \in ToSet(Nodes(c)) : n.skip /\ Nodes(c)[i].ip = n.ip
    BY <1>4, Zenon DEF Skips, Nodes
  <2>2. PICK x \in DOMAIN Nodes(c) : n = Nodes(c)[x]
    BY <1>1, <2>1
  <2> QED
    BY <1>2, <2>1, <2>2
<1> QED
  BY <1>3, <1>4 DEF Owns

LEMMA RemoveRowsListed ==
    ASSUME NEW c \in Config
    PROVE  /\ RemoveRows(c) \in Seq(StmtsOf(c, {"delete_rows"}))
           /\ \A q \in 1..Len(RemoveRows(c)) : RemoveRows(c)[q].arg \in Owns(c)
           /\ \A m \in Owns(c) : \E q \in 1..Len(RemoveRows(c)) :
                 RemoveRows(c)[q] = Stmt("delete_rows", m)
<1> DEFINE N == Nodes(c)
           S == {x \in StmtsOf(c, {"delete_rows"}) : x.arg \in Owns(c)}
           Of(i) == LET n == N[i] IN IF n.skip THEN <<>> ELSE <<Stmt("delete_rows", n.ip)>>
           ss == [i \in DOMAIN N |-> Of(i)]
           Has(a, m) == \E q \in 1..Len(a) : a[q] = Stmt("delete_rows", m)
           Upto == [k \in Nat |-> {a \in Seq(S) : \A i \in 1..k : ~N[i].skip => Has(a, N[i].ip)}]
<1>1. RemoveRows(c) = FlattenSeq(ss)
  BY DEF RemoveRows, Nodes
<1>2. DOMAIN N = 1..Len(N) /\ Len(N) \in Nat /\ \A i \in 1..Len(N) : N[i] \in NodemgrType
  BY ContentTyped
<1>3. ASSUME NEW i \in 1..Len(N)
      PROVE  /\ Of(i) \in Seq(S)
             /\ ~N[i].skip => Has(Of(i), N[i].ip)
  <2>1. N[i].ip \in Args(c)
    BY <1>2 DEF NodemgrType, Args
  <2>2. ~N[i].skip => Stmt("delete_rows", N[i].ip) \in S
    <3>1. Stmt("delete_rows", N[i].ip) \in StmtsOf(c, {"delete_rows"})
      BY <2>1, StmtTyped
    <3>2. ~N[i].skip => N[i].ip \in Owns(c)
      BY <1>2, OwnElement
    <3> QED
      BY <3>1, <3>2 DEF Stmt
  <2> HIDE DEF S
  <2>3. Of(i) \in Seq(S)
    BY <2>2, SmallSeqs
  <2>4. \A x : Len(<<x>>) = 1 /\ <<x>>[1] = x
    OBVIOUS
  <2> QED
    BY <2>3, <2>4
<1> HIDE DEF S
<1>4. \A a, b \in Seq(S) : \A m : Has(a, m) \/ Has(b, m) => Has(a \o b, m)
  <2> TAKE a, b \in Seq(S)
  <2> TAKE m
  <2>1. Len(a) \in Nat /\ Len(b) \in Nat /\ Len(a \o b) = Len(a) + Len(b)
    OBVIOUS
  <2>2. ASSUME NEW q \in 1..Len(a) PROVE q \in 1..Len(a \o b) /\ (a \o b)[q] = a[q]
    BY <2>1
  <2>3. ASSUME NEW q \in 1..Len(b)
        PROVE  Len(a) + q \in 1..Len(a \o b) /\ (a \o b)[Len(a) + q] = b[q]
    BY <2>1
  <2> QED
    BY <2>2, <2>3
<1> HIDE DEF Has, N, Of
<1>5. Len(ss) = Len(N) /\ ss \in Seq(Seq(S)) /\ \A i \in 1..Len(N) : ss[i] = Of(i)
  BY <1>2, <1>3
<1> HIDE DEF ss
<1>6. <<>> \in Upto[0]
  OBVIOUS
<1>7. ASSUME NEW k \in 1..Len(ss), NEW a \in Upto[k - 1] PROVE a \o ss[k] \in Upto[k]
  <2>1. k \in Nat /\ k - 1 \in Nat /\ \A i \in 1..k : i # k => i \in 1..(k - 1)
    BY <1>2, <1>5
  <2>2. a \in Seq(S) /\ ss[k] \in Seq(S) /\ \A i \in 1..(k - 1) : ~N[i].skip => Has(a, N[i].ip)
    BY <1>5, <2>1
  <2>3. a \o ss[k] \in Seq(S)
    BY <2>2
  <2>4. \A i \in 1..k : ~N[i].skip => Has(a \o ss[k], N[i].ip)
    BY <1>3, <1>4, <1>5, <2>1, <2>2
  <2> QED
    BY <2>1, <2>3, <2>4
<1>8. FlattenSeq(ss) \in Upto[Len(ss)]
  <2>1. Len(ss) \in Nat /\ (Len(ss) = 0 => ss = <<>>) /\ \A i \in 1..Len(ss) : ss[i] \in Seq(S)
    BY <1>5
  <2> HIDE DEF Upto
  <2> QED
    BY <1>6, <1>7, <2>1, FlattenInduction
<1>9. \A m \in Owns(c) : \E i \in 1..Len(N) : ~N[i].skip /\ N[i].ip = m
  BY <1>2 DEF Owns, Uses, Skips, ToSet, N, Nodes
<1>10. /\ RemoveRows(c) \in Seq(S)
       /\ \A i \in 1..Len(N) : ~N[i].skip => Has(RemoveRows(c), N[i].ip)
  BY <1>1, <1>2, <1>5, <1>8
<1>11. /\ RemoveRows(c) \in Seq(StmtsOf(c, {"delete_rows"}))
       /\ \A q \in 1..Len(RemoveRows(c)) : RemoveRows(c)[q].arg \in Owns(c)
  BY <1>10 DEF S
<1>12. \A m \in Owns(c) : Has(RemoveRows(c), m)
  BY <1>9, <1>10
<1> QED
  BY <1>11, <1>12 DEF Has

\* What a statement about a row is in c: a new row on a machine that c sets up, or
\* more ports on one that it skips.
IsRowStmt(c, st) ==
    \E i \in DOMAIN Nodes(c) : \E t \in Types :
        \/ /\ st = Stmt("insert_row", RowOf(c, i, t))
           /\ ~Nodes(c)[i].skip /\ t \in Fresh(c)[i]
        \/ /\ st = Stmt("update_row", RowOf(c, i, t))
           /\ Nodes(c)[i].skip /\ Nodes(c)[i].ports[t] > 0

\* The statement that c has for instances of type t on its element i, if it has one.
Wanted(c, i) == Fresh(c)[i] \cup More(c)[i]
RowStmt(c, i, t) ==
    Stmt(IF Nodes(c)[i].skip THEN "update_row" ELSE "insert_row", RowOf(c, i, t))

SameKey(st, other) == st.arg.ip = other.arg.ip /\ st.arg.type = other.arg.type

LEMMA RowsListed ==
    ASSUME NEW c \in Config
    PROVE  LET rows == Inserts(c) \o Updates(c) IN
           /\ rows \in Seq(StmtsOf(c, RowOps))
           /\ \A q \in 1..Len(rows) : IsRowStmt(c, rows[q])
           /\ \A p, q \in 1..Len(rows) : SameKey(rows[p], rows[q]) => p = q
           /\ \A i \in DOMAIN Nodes(c) : \A t \in Wanted(c, i) :
                 \E q \in 1..Len(rows) : rows[q] = RowStmt(c, i, t)
<1> DEFINE a == Inserts(c)
           b == Updates(c)
           s == a \o b
           N == Nodes(c)
<1>1. DOMAIN N = 1..Len(N) /\ Len(N) \in Nat /\ \A i \in 1..Len(N) : N[i] \in NodemgrType
  BY ContentTyped
<1>2. /\ a \in Seq(StmtsOf(c, RowOps)) /\ IsListing(a, "insert_row", c, Len(N), Fresh(c))
      /\ b \in Seq(StmtsOf(c, RowOps)) /\ IsListing(b, "update_row", c, Len(N), More(c))
  BY InsertsListed, UpdatesListed, MoreOps DEF RowOps
<1>3. \A i \in 1..Len(N) : \A t \in Fresh(c)[i] : t \in Types /\ ~N[i].skip
  <2> TAKE i \in 1..Len(N)
  <2>1. ToSet(TypesOf(N[i].nodetype)) \subseteq Types
    BY DEF TypesOf, ToSet, Types
  <2> QED
    BY <1>1, <2>1 DEF Fresh
<1>4. \A i \in 1..Len(N) : \A t \in More(c)[i] : t \in Types /\ N[i].skip /\ N[i].ports[t] > 0
  BY <1>1 DEF More
<1> HIDE DEF a, b
<1>5. /\ Len(a) \in Nat /\ Len(b) \in Nat /\ Len(s) = Len(a) + Len(b) /\ s \in Seq(StmtsOf(c, RowOps))
      /\ \A q \in 1..Len(a) : s[q] = a[q]
      /\ \A k \in 1..Len(b) : s[Len(a) + k] = b[k]
  BY <1>2
<1>6. \A q \in 1..Len(s) : q \in 1..Len(a) \/ \E k \in 1..Len(b) : q = Len(a) + k
  <2> TAKE q \in 1..Len(s)
  <2>1. q \notin 1..Len(a) => q - Len(a) \in 1..Len(b) /\ q = Len(a) + (q - Len(a))
    BY <1>5
  <2> QED
    BY <2>1
<1> HIDE DEF s
<1>7. \A q \in 1..Len(a) : \E i \in 1..Len(N) : \E t \in Types :
          a[q] = Stmt("insert_row", RowOf(c, i, t)) /\ ~N[i].skip /\ t \in Fresh(c)[i]
  <2> TAKE q \in 1..Len(a)
  <2>1. PICK i \in 1..Len(N) : \E t \in Fresh(c)[i] : a[q] = Stmt("insert_row", RowOf(c, i, t))
    BY <1>2, Zenon DEF IsListing
  <2> QED
    BY <1>3, <2>1, Zenon
<1>8. \A k \in 1..Len(b) : \E i \in 1..Len(N) : \E t \in Types :
          b[k] = Stmt("update_row", RowOf(c, i, t)) /\ N[i].skip /\ N[i].ports[t] > 0
  <2> TAKE k \in 1..Len(b)
  <2>1. PICK i \in 1..Len(N) : \E t \in More(c)[i] : b[k] = Stmt("update_row", RowOf(c, i, t))
    BY <1>2, Zenon DEF IsListing
  <2> QED
    BY <1>4, <2>1, Zenon
<1>9. \A q \in 1..Len(s) : IsRowStmt(c, s[q])
  <2>1. \A q \in 1..Len(a) : IsRowStmt(c, a[q])
    BY <1>1, <1>7, Zenon DEF IsRowStmt
  <2>2. \A k \in 1..Len(b) : IsRowStmt(c, b[k])
    BY <1>1, <1>8, Zenon DEF IsRowStmt
  <2> QED
    BY <1>5, <1>6, <2>1, <2>2
<1>10. ASSUME NEW q \in 1..Len(a), NEW k \in 1..Len(b) PROVE a[q].arg.ip # b[k].arg.ip
  <2> HIDE DEF N
  <2>0. \A i, t, op : Stmt(op, RowOf(c, i, t)).arg.ip = N[i].ip
    BY RowOfIs DEF Stmt, N
  <2>1. PICK i \in 1..Len(N), t \in Types : a[q] = Stmt("insert_row", RowOf(c, i, t)) /\ ~N[i].skip
    BY <1>7, Zenon
  <2>2. PICK j \in 1..Len(N), u \in Types : b[k] = Stmt("update_row", RowOf(c, j, u)) /\ N[j].skip
    BY <1>8, Zenon
  <2>3. \A x, y \in DOMAIN N : N[x].ip = N[y].ip => x = y
    BY MetadataAssumption DEF Validated, Nodes, N
  <2> QED
    BY <1>1, <2>0, <2>1, <2>2, <2>3
<1>11. ASSUME NEW p \in 1..Len(s), NEW q \in 1..Len(s), SameKey(s[p], s[q]) PROVE p = q
  <2>1. CASE p \in 1..Len(a) /\ q \in 1..Len(a)
    BY <1>2, <1>5, <1>11, <2>1 DEF IsListing, SameKey
  <2>2. ASSUME NEW k \in 1..Len(b), p = Len(a) + k, NEW l \in 1..Len(b), q = Len(a) + l
        PROVE  p = q
    BY <1>2, <1>5, <1>11, <2>2 DEF IsListing, SameKey
  <2>3. ASSUME p \in 1..Len(a), NEW k \in 1..Len(b), q = Len(a) + k PROVE FALSE
    BY <1>5, <1>10, <1>11, <2>3 DEF SameKey
  <2>4. ASSUME q \in 1..Len(a), NEW k \in 1..Len(b), p = Len(a) + k PROVE FALSE
    BY <1>5, <1>10, <1>11, <2>4 DEF SameKey
  <2> QED
    BY <1>6, <2>1, <2>2, <2>3, <2>4
<1>12. ASSUME NEW i \in 1..Len(N), NEW t \in Wanted(c, i)
       PROVE  \E q \in 1..Len(s) : s[q] = RowStmt(c, i, t)
  <2>1. CASE t \in More(c)[i]
    <3>1. RowStmt(c, i, t) = Stmt("update_row", RowOf(c, i, t))
      BY <1>4, <2>1 DEF RowStmt
    <3>2. PICK k \in 1..Len(b) : b[k] = Stmt("update_row", RowOf(c, i, t))
      BY <1>2, <2>1 DEF IsListing
    <3>3. Len(a) + k \in 1..Len(s)
      BY <1>5
    <3> QED
      BY <1>5, <3>1, <3>2, <3>3
  <2>2. CASE t \in Fresh(c)[i]
    <3>1. RowStmt(c, i, t) = Stmt("insert_row", RowOf(c, i, t))
      BY <1>3, <2>2 DEF RowStmt
    <3>2. PICK q \in 1..Len(a) : a[q] = Stmt("insert_row", RowOf(c, i, t))
      BY <1>2, <2>2 DEF IsListing
    <3>3. q \in 1..Len(s)
      BY <1>5
    <3> QED
      BY <1>5, <3>1, <3>2, <3>3
  <2> QED
    BY <2>1, <2>2 DEF Wanted
<1> QED
  BY <1>1, <1>5, <1>9, <1>11, <1>12 DEF a, b, s

-----------------------------------------------------------------------------
(* The order of the statements of an installation.                         *)

AddOps == RowOps \cup QuietOps
Resets == {"connect", "start"}  \* after these, what was not committed is gone

InOrder(c, s) ==
    /\ s \in Seq(StmtsOf(c, AddOps))
    /\ \A q \in 1..Len(s) : s[q].op \in RowOps => IsRowStmt(c, s[q])
    /\ \A p, q \in 1..Len(s) :
          s[p].op \in RowOps /\ s[q].op \in RowOps /\ SameKey(s[p], s[q]) => p = q
    /\ \A q \in 1..Len(s) : s[q].op \in RowOps =>
          \A p \in (q + 1)..(Len(s) + 1) : p = Len(s) + 1 \/ s[p].op \in Resets =>
              \E k \in (q + 1)..(p - 1) : s[k].op = "commit"
    /\ \A i \in DOMAIN Nodes(c) : \A t \in Wanted(c, i) :
          \E q \in 1..Len(s) : s[q].op \in RowOps /\ s[q] = RowStmt(c, i, t)

LEMMA QuietSuffix ==
    ASSUME NEW c \in Config, NEW s, InOrder(c, s), NEW z \in Seq(StmtsOf(c, QuietOps))
    PROVE  InOrder(c, s \o z)
<1> DEFINE all == s \o z
<1>1. s \in Seq(StmtsOf(c, AddOps)) /\ z \in Seq(StmtsOf(c, AddOps))
  BY MoreOps DEF InOrder, AddOps
<1>2. /\ Len(s) \in Nat /\ Len(z) \in Nat /\ Len(all) = Len(s) + Len(z)
      /\ all \in Seq(StmtsOf(c, AddOps))
      /\ \A q \in 1..Len(s) : q \in 1..Len(all) /\ all[q] = s[q]
      /\ \A q \in 1..Len(all) : q \notin 1..Len(s) =>
            q - Len(s) \in 1..Len(z) /\ all[q] = z[q - Len(s)]
  BY <1>1
<1> HIDE DEF all
<1>3. \A q \in 1..Len(all) : all[q].op \in RowOps => q \in 1..Len(s)
  <2>1. \A k \in 1..Len(z) : z[k].op \notin RowOps
    BY OpsOf DEF RowOps, QuietOps
  <2> QED
    BY <1>2, <2>1
<1>4. ASSUME NEW q \in 1..Len(all), all[q].op \in RowOps,
             NEW p \in (q + 1)..(Len(all) + 1), p = Len(all) + 1 \/ all[p].op \in Resets
      PROVE  \E k \in (q + 1)..(p - 1) : all[k].op = "commit"
  <2>1. q \in 1..Len(s) /\ s[q].op \in RowOps
    BY <1>2, <1>3, <1>4
  <2>2. CASE p \in 1..Len(s)
    <3>1. p \in (q + 1)..(Len(s) + 1) /\ s[p].op \in Resets
      BY <1>2, <1>4, <2>2
    <3>2. PICK k \in (q + 1)..(p - 1) : s[k].op = "commit"
      BY <2>1, <3>1 DEF InOrder
    <3>3. k \in 1..Len(s)
      BY <1>2, <2>1, <2>2
    <3> QED
      BY <1>2, <3>2, <3>3
  <2>3. CASE p \notin 1..Len(s)
    <3>1. Len(s) + 1 \in (q + 1)..(Len(s) + 1) /\ Len(s) + 1 <= p
      BY <1>2, <2>1, <2>3
    <3>2. PICK k \in (q + 1)..(Len(s) + 1 - 1) : s[k].op = "commit"
      BY <2>1, <3>1 DEF InOrder
    <3>3. k \in 1..Len(s) /\ k \in (q + 1)..(p - 1)
      BY <1>2, <2>1, <3>1
    <3> QED
      BY <1>2, <3>2, <3>3
  <2> QED
    BY <2>2, <2>3
<1>5. \A q \in 1..Len(all) : all[q].op \in RowOps => IsRowStmt(c, all[q])
  BY <1>2, <1>3 DEF InOrder
<1>6. \A p, q \in 1..Len(all) :
          all[p].op \in RowOps /\ all[q].op \in RowOps /\ SameKey(all[p], all[q]) => p = q
  BY <1>2, <1>3 DEF InOrder
<1>7. \A i \in DOMAIN Nodes(c) : \A t \in Wanted(c, i) :
          \E q \in 1..Len(all) : all[q].op \in RowOps /\ all[q] = RowStmt(c, i, t)
  <2> TAKE i \in DOMAIN Nodes(c)
  <2> TAKE t \in Wanted(c, i)
  <2>1. PICK q \in 1..Len(s) : s[q].op \in RowOps /\ s[q] = RowStmt(c, i, t)
    BY DEF InOrder
  <2> QED
    BY <1>2, <2>1
<1> QED
  BY <1>2, <1>4, <1>5, <1>6, <1>7 DEF InOrder, all

LEMMA RowsInOrder ==
    ASSUME NEW c \in Config, NEW a \in Seq(StmtsOf(c, QuietOps))
    PROVE  InOrder(c, a \o Section(Inserts(c) \o Updates(c)))
<1> DEFINE rows == Inserts(c) \o Updates(c)
           sec == Section(rows)
           all == a \o sec
<1>1. /\ rows \in Seq(StmtsOf(c, RowOps))
      /\ \A q \in 1..Len(rows) : IsRowStmt(c, rows[q])
      /\ \A p, q \in 1..Len(rows) : SameKey(rows[p], rows[q]) => p = q
      /\ \A i \in DOMAIN Nodes(c) : \A t \in Wanted(c, i) :
            \E q \in 1..Len(rows) : rows[q] = RowStmt(c, i, t)
  BY RowsListed
<1> HIDE DEF rows
<1>2. rows \in Seq(StmtsOf(c, AddOps)) /\ a \in Seq(StmtsOf(c, AddOps)) /\ "start" \in AddOps /\ "commit" \in AddOps
  BY <1>1, MoreOps DEF AddOps, QuietOps
<1>3. /\ sec \in Seq(StmtsOf(c, AddOps))
      /\ \/ rows = <<>> /\ sec = <<>>
         \/ /\ Len(rows) \in Nat /\ Len(sec) = Len(rows) + 2
            /\ sec[1] = Stmt("start", "") /\ sec[Len(rows) + 2] = Stmt("commit", "")
            /\ \A q \in 1..Len(rows) : sec[q + 1] = rows[q]
  <2> DEFINE ops == AddOps
  <2>1. "start" \in ops /\ "commit" \in ops /\ rows \in Seq(StmtsOf(c, ops))
    BY <1>2
  <2> HIDE DEF ops
  <2>2. Section(rows) \in Seq(StmtsOf(c, ops))
    BY <2>1, SectionTyped
  <2>3. \/ rows = <<>> /\ sec = <<>>
        \/ /\ Len(rows) \in Nat /\ Len(sec) = Len(rows) + 2
           /\ sec[1] = Stmt("start", "") /\ sec[Len(rows) + 2] = Stmt("commit", "")
           /\ \A q \in 1..Len(rows) : sec[q + 1] = rows[q]
    BY <2>1, SectionIs
  <2> QED
    BY <2>2, <2>3 DEF ops
<1>4. \A q \in 1..Len(a) : a[q].op \notin RowOps
  BY OpsOf DEF RowOps, QuietOps
<1>5. \A q \in 1..Len(rows) : rows[q].op \in RowOps
  BY <1>1, OpsOf
<1>6. Stmt("start", "").op = "start" /\ Stmt("commit", "").op = "commit"
  BY DEF Stmt
<1>7. CASE rows = <<>> /\ sec = <<>>
  <2>1. all = a
    BY <1>7
  <2>2. \A i \in DOMAIN Nodes(c) : \A t \in Wanted(c, i) : FALSE
    BY <1>1, <1>7
  <2> QED
    BY <1>2, <1>4, <2>1, <2>2 DEF InOrder, rows
<1>8. CASE /\ Len(rows) \in Nat /\ Len(sec) = Len(rows) + 2
           /\ sec[1] = Stmt("start", "") /\ sec[Len(rows) + 2] = Stmt("commit", "")
           /\ \A q \in 1..Len(rows) : sec[q + 1] = rows[q]
  <2> DEFINE first == Len(a) + 1
             last == Len(a) + Len(rows) + 2
  <2> HIDE DEF sec
  <2>1. /\ Len(a) \in Nat /\ Len(sec) \in Nat /\ Len(all) = Len(a) + Len(sec) /\ all \in Seq(StmtsOf(c, AddOps))
        /\ \A q \in 1..Len(a) : all[q] = a[q]
        /\ \A k \in 1..Len(sec) : all[Len(a) + k] = sec[k]
    <3>1. a \in Seq(StmtsOf(c, AddOps)) /\ sec \in Seq(StmtsOf(c, AddOps))
      BY <1>2, <1>3
    <3> DEFINE S == StmtsOf(c, AddOps)
    <3>2. a \in Seq(S) /\ sec \in Seq(S)
      BY <3>1
    <3> HIDE DEF S
    <3>3. /\ Len(a) \in Nat /\ Len(sec) \in Nat /\ Len(all) = Len(a) + Len(sec) /\ all \in Seq(S)
          /\ \A q \in 1..Len(a) : all[q] = a[q]
          /\ \A k \in 1..Len(sec) : all[Len(a) + k] = sec[k]
      BY <3>2, Joined
    <3> QED
      BY <3>3 DEF S
  <2>5. Len(rows) \in Nat /\ Len(a) \in Nat /\ first \in Nat /\ last = first + Len(rows) + 1 /\ Len(all) = last
    <3>1. Len(rows) \in Nat /\ Len(sec) = Len(rows) + 2
      BY <1>8
    <3>2. Len(a) \in Nat /\ Len(all) = Len(a) + Len(sec)
      BY <2>1
    <3> QED
      BY <3>1, <3>2
  <2> HIDE DEF all
  <2>2. all[first].op = "start" /\ all[last].op = "commit"
    <3>1. 1 \in 1..(Len(rows) + 2) /\ Len(rows) + 2 \in 1..(Len(rows) + 2) /\ last = Len(a) + (Len(rows) + 2)
      BY <2>5
    <3> QED
      BY <1>6, <1>8, <2>1, <3>1
  <2>3. \A k \in 1..Len(rows) : first + k \in 1..Len(all) /\ all[first + k] = rows[k]
    <3> TAKE k \in 1..Len(rows)
    <3>1. k + 1 \in 1..(Len(rows) + 2) /\ first + k = Len(a) + (k + 1) /\ first + k \in 1..Len(all)
      BY <2>5
    <3> QED
      BY <1>8, <2>1, <3>1
  <2>4. \A q \in 1..Len(all) : all[q].op \in RowOps => \E k \in 1..Len(rows) : q = first + k
    <3> TAKE q \in 1..Len(all)
    <3> HAVE all[q].op \in RowOps
    <3>1. q \notin 1..Len(a)
      BY <1>4, <2>1
    <3>2. q # first /\ q # last
      BY <2>2 DEF RowOps
    <3>3. q - first \in 1..Len(rows) /\ q = first + (q - first)
      BY <2>5, <3>1, <3>2
    <3> QED
      BY <3>3
  <2> HIDE DEF first, last
  <2>6. ASSUME NEW q \in 1..Len(all), all[q].op \in RowOps,
               NEW p \in (q + 1)..(Len(all) + 1), p = Len(all) + 1 \/ all[p].op \in Resets
        PROVE  \E k \in (q + 1)..(p - 1) : all[k].op = "commit"
    <3>1. PICK k \in 1..Len(rows) : q = first + k
      BY <2>4, <2>6
    <3>2. p = Len(all) + 1
      <4>1. SUFFICES ASSUME p # Len(all) + 1 PROVE FALSE
        OBVIOUS
      <4>2. all[p].op \in Resets
        BY <2>6, <4>1
      <4>3. p # last
        BY <2>2, <4>2 DEF Resets
      <4>4. p - first \in 1..Len(rows) /\ p = first + (p - first)
        BY <2>5, <3>1, <4>1, <4>3
      <4>5. all[p].op \in RowOps
        BY <1>5, <2>3, <4>4
      <4> QED
        BY <4>2, <4>5 DEF RowOps, Resets
    <3>3. last \in (q + 1)..(p - 1)
      BY <2>5, <3>1, <3>2
    <3> QED
      BY <2>2, <3>3
  <2>7. \A q \in 1..Len(all) : all[q].op \in RowOps => IsRowStmt(c, all[q])
    BY <1>1, <2>3, <2>4
  <2>8. \A p, q \in 1..Len(all) :
            all[p].op \in RowOps /\ all[q].op \in RowOps /\ SameKey(all[p], all[q]) => p = q
    BY <1>1, <2>3, <2>4
  <2>9. \A i \in DOMAIN Nodes(c) : \A t \in Wanted(c, i) :
            \E q \in 1..Len(all) : all[q].op \in RowOps /\ all[q] = RowStmt(c, i, t)
    <3> TAKE i \in DOMAIN Nodes(c)
    <3> TAKE t \in Wanted(c, i)
    <3>1. PICK k \in 1..Len(rows) : rows[k] = RowStmt(c, i, t)
      BY <1>1
    <3> QED
      BY <1>5, <2>3, <3>1
  <2>10. InOrder(c, all)
    BY <2>1, <2>6, <2>7, <2>8, <2>9 DEF InOrder
  <2> QED
    BY <2>10 DEF all, sec, rows
<1> QED
  BY <1>3, <1>7, <1>8

\* A node that is no meta node is mapped right after it was looked up and its master
\* was asked.
MappedAt(s, q) ==
    /\ q - 1 \in 1..Len(s) /\ s[q - 1] = Stmt("uuid", s[q].arg)
    /\ q - 2 \in 1..Len(s) /\ s[q - 2] = Stmt("lookup", s[q].arg)
WellMapped(s) ==
    \A q \in 1..Len(s) : s[q].op = "map" /\ s[q].arg \notin MetaNode => MappedAt(s, q)

LEMMA WellMappedJoin ==
    ASSUME NEW S, NEW a \in Seq(S), NEW b \in Seq(S), WellMapped(a), WellMapped(b)
    PROVE  WellMapped(a \o b)
<1> DEFINE s == a \o b
<1> SUFFICES ASSUME NEW q \in 1..Len(s), s[q].op = "map", s[q].arg \notin MetaNode
             PROVE  MappedAt(s, q)
  BY DEF WellMapped
<1>1. /\ Len(a) \in Nat /\ Len(b) \in Nat /\ Len(s) = Len(a) + Len(b)
      /\ \A p \in 1..Len(a) : p \in 1..Len(s) /\ s[p] = a[p]
      /\ \A k \in 1..Len(b) : Len(a) + k \in 1..Len(s) /\ s[Len(a) + k] = b[k]
      /\ \A p \in 1..Len(s) : p \notin 1..Len(a) =>
            p - Len(a) \in 1..Len(b) /\ p = Len(a) + (p - Len(a))
  BY Joined
<1> HIDE DEF s
<1>2. CASE q \in 1..Len(a)
  <2>1. MappedAt(a, q)
    BY <1>1, <1>2 DEF WellMapped
  <2> QED
    BY <1>1, <1>2, <2>1 DEF MappedAt
<1>3. ASSUME NEW k \in 1..Len(b), q = Len(a) + k
      PROVE  MappedAt(s, q)
  <2>1. MappedAt(b, k)
    BY <1>1, <1>3 DEF WellMapped
  <2>2. q - 1 = Len(a) + (k - 1) /\ q - 2 = Len(a) + (k - 2)
    BY <1>1, <1>3
  <2> QED
    BY <1>1, <1>3, <2>1, <2>2 DEF MappedAt
<1> QED
  BY <1>1, <1>2, <1>3

LEMMA WithoutMaps ==
    ASSUME NEW c, NEW ops, "map" \notin ops, NEW s \in Seq(StmtsOf(c, ops))
    PROVE  WellMapped(s)
  BY OpsOf DEF WellMapped

\* All nodes that a configuration maps.
LEMMA MapsListed ==
    ASSUME NEW c \in Config
    PROVE  LET maps == FlattenSeq([i \in DOMAIN Content[c].pairs |-> MapNode(Content[c].pairs[i])]) IN
           maps \in Seq(StmtsOf(c, QuietOps)) /\ WellMapped(maps)
<1> DEFINE S == StmtsOf(c, QuietOps)
           P == Content[c].pairs
           ss == [i \in DOMAIN P |-> MapNode(P[i])]
           Upto == [k \in Nat |-> {a \in Seq(S) : WellMapped(a)}]
<1>1. DOMAIN P = 1..Len(P) /\ Len(P) \in Nat /\ \A i \in 1..Len(P) : P[i] \in Node
  BY ContentTyped
<1>2. ASSUME NEW n \in Node PROVE MapNode(n) \in Seq(S) /\ WellMapped(MapNode(n))
  <2>1. n \in Args(c)
    BY DEF Args
  <2> DEFINE l == Stmt("lookup", n)
             u == Stmt("uuid", n)
             m == Stmt("map", n)
  <2>2. /\ l \in S /\ u \in S /\ m \in S
        /\ l.op = "lookup" /\ u.op = "uuid" /\ m.op = "map" /\ m.arg = n
    BY <2>1, StmtTyped DEF QuietOps
  <2>3. MapNode(n) = IF n \in MetaNode THEN <<u, m>> ELSE <<l, u, m>>
    BY SmallJoins, Zenon DEF MapNode
  <2>4. l = Stmt("lookup", m.arg) /\ u = Stmt("uuid", m.arg)
    BY <2>2
  <2> HIDE DEF S, l, u, m
  <2>5. MapNode(n) \in Seq(S)
    BY <2>2, <2>3, SmallSeqs
  <2>6. CASE n \in MetaNode
    BY <2>2, <2>3, <2>6 DEF WellMapped
  <2>7. CASE n \notin MetaNode
    <3> DEFINE s == <<l, u, m>>
    <3>1. Len(s) = 3 /\ s[1] = l /\ s[2] = u /\ s[3] = m
      OBVIOUS
    <3>2. MapNode(n) = s
      BY <2>3, <2>7
    <3> HIDE DEF s
    <3>3. WellMapped(s)
      BY <2>2, <2>4, <3>1 DEF WellMapped, MappedAt
    <3> QED
      BY <2>5, <3>2, <3>3
  <2> QED
    BY <2>5, <2>6, <2>7
<1> HIDE DEF S, P
<1>3. Len(ss) \in Nat /\ (Len(ss) = 0 => ss = <<>>) /\ Len(ss) = Len(P)
      /\ \A i \in 1..Len(ss) : ss[i] \in Seq(S) /\ WellMapped(ss[i])
  <2>1. Len(ss) = Len(P) /\ \A i \in 1..Len(ss) : ss[i] = MapNode(P[i]) /\ P[i] \in Node
    BY <1>1
  <2>2. Len(ss) = 0 => ss = <<>>
    BY <1>1
  <2> HIDE DEF ss
  <2> QED
    BY <1>1, <1>2, <2>1, <2>2
<1> HIDE DEF ss
<1>4. <<>> \in Upto[0]
  BY DEF WellMapped
<1>5. ASSUME NEW i \in 1..Len(ss), NEW a \in Upto[i - 1] PROVE a \o ss[i] \in Upto[i]
  <2>1. i \in Nat /\ i - 1 \in Nat
    BY <1>3
  <2>2. a \in Seq(S) /\ ss[i] \in Seq(S) /\ WellMapped(a) /\ WellMapped(ss[i])
    BY <1>3, <2>1
  <2>3. a \o ss[i] \in Seq(S) /\ WellMapped(a \o ss[i])
    BY <2>2, WellMappedJoin
  <2> QED
    BY <2>1, <2>3
<1>6. FlattenSeq(ss) \in Upto[Len(ss)]
  <2> HIDE DEF Upto
  <2> QED
    BY <1>3, <1>4, <1>5, FlattenInduction
<1>7. FlattenSeq(ss) \in Seq(S) /\ WellMapped(FlattenSeq(ss))
  BY <1>3, <1>6
<1> QED
  BY <1>7 DEF ss, S, P

LEMMA SectionMapped ==
    ASSUME NEW S, NEW s \in Seq(S), WellMapped(s)
    PROVE  WellMapped(Section(s))
<1> DEFINE sec == Section(s)
<1>1. CASE s = <<>> /\ sec = <<>>
  BY <1>1 DEF WellMapped
<1>2. CASE /\ Len(s) \in Nat /\ Len(sec) = Len(s) + 2
           /\ sec[1] = Stmt("start", "") /\ sec[Len(s) + 2] = Stmt("commit", "")
           /\ \A q \in 1..Len(s) : sec[q + 1] = s[q]
  <2> HIDE DEF sec
  <2> SUFFICES ASSUME NEW q \in 1..Len(sec), sec[q].op = "map", sec[q].arg \notin MetaNode
               PROVE  MappedAt(sec, q)
    BY DEF WellMapped, sec
  <2>1. Len(s) \in Nat /\ Len(sec) = Len(s) + 2
    BY <1>2
  <2>2. q # 1 /\ q # Len(s) + 2
    <3>1. Stmt("start", "").op # "map" /\ Stmt("commit", "").op # "map"
      BY DEF Stmt
    <3>2. sec[1].op # "map" /\ sec[Len(s) + 2].op # "map"
      BY <1>2, <3>1, Zenon
    <3> QED
      BY <3>2
  <2>3. q - 1 \in 1..Len(s) /\ (q - 1) + 1 = q
    BY <2>1, <2>2
  <2>4. sec[q] = s[q - 1]
    BY <1>2, <2>3
  <2>5. MappedAt(s, q - 1)
    BY <2>3, <2>4 DEF WellMapped
  <2>6. /\ sec[((q - 1) - 1) + 1] = s[(q - 1) - 1]
        /\ sec[((q - 1) - 2) + 1] = s[(q - 1) - 2]
    BY <1>2, <2>5 DEF MappedAt
  <2>7. /\ ((q - 1) - 1) + 1 = q - 1 /\ q - 1 \in 1..Len(sec)
        /\ ((q - 1) - 2) + 1 = q - 2
    BY <2>1, <2>3
  <2>8. q - 2 \in 1..Len(sec)
    BY <2>1, <2>3, <2>5 DEF MappedAt
  <2> QED
    BY <2>4, <2>5, <2>6, <2>7, <2>8 DEF MappedAt
<1> QED
  BY <1>1, <1>2, SectionIs

\* Elements that get a section each.
LEMMA EachAloneIs ==
    ASSUME NEW c, NEW op \in QuietOps \ {"map"}, NEW A, A \subseteq Args(c), NEW s \in Seq(A)
    PROVE  EachAlone(op, s) \in Seq(StmtsOf(c, QuietOps)) /\ WellMapped(EachAlone(op, s))
<1> DEFINE S == StmtsOf(c, QuietOps)
           alone(i) == Section(<<Stmt(op, s[i])>>)
           ss == [i \in DOMAIN s |-> alone(i)]
           Upto == [k \in Nat |-> {a \in Seq(S) : WellMapped(a)}]
<1>1. DOMAIN s = 1..Len(s) /\ Len(s) \in Nat /\ \A i \in 1..Len(s) : s[i] \in Args(c)
  OBVIOUS
<1>2. ASSUME NEW i \in 1..Len(s) PROVE alone(i) \in Seq(S) /\ WellMapped(alone(i))
  <2>1. Stmt(op, s[i]) \in S /\ Stmt(op, s[i]).op = op
    BY <1>1, StmtTyped
  <2>2. "start" \in QuietOps /\ "commit" \in QuietOps
    BY DEF QuietOps
  <2> DEFINE x == <<Stmt(op, s[i])>>
  <2>3. Len(x) = 1 /\ x[1] = Stmt(op, s[i])
    OBVIOUS
  <2> HIDE DEF S
  <2>4. x \in Seq(S)
    BY <2>1, SmallSeqs
  <2> HIDE DEF x
  <2>5. WellMapped(x)
    BY <2>1, <2>3 DEF WellMapped
  <2>6. Section(x) \in Seq(S) /\ WellMapped(Section(x))
    BY <2>2, <2>4, <2>5, SectionTyped, SectionMapped DEF S
  <2> QED
    BY <2>6 DEF x
<1> HIDE DEF alone, S
<1>3. /\ Len(ss) \in Nat /\ (Len(ss) = 0 => ss = <<>>)
      /\ \A i \in 1..Len(ss) : ss[i] = alone(i) /\ i \in 1..Len(s)
  BY <1>1
<1> HIDE DEF ss
<1>4. \A i \in 1..Len(ss) : ss[i] \in Seq(S) /\ WellMapped(ss[i])
  BY <1>2, <1>3
<1>5. <<>> \in Upto[0]
  BY DEF WellMapped
<1>6. ASSUME NEW i \in 1..Len(ss), NEW a \in Upto[i - 1] PROVE a \o ss[i] \in Upto[i]
  <2>1. i \in Nat /\ i - 1 \in Nat
    BY <1>3
  <2>2. a \in Seq(S) /\ ss[i] \in Seq(S) /\ WellMapped(a) /\ WellMapped(ss[i])
    BY <1>4, <2>1
  <2>3. a \o ss[i] \in Seq(S) /\ WellMapped(a \o ss[i])
    BY <2>2, WellMappedJoin
  <2> QED
    BY <2>1, <2>3
<1>7. FlattenSeq(ss) \in Upto[Len(ss)]
  <2> HIDE DEF Upto
  <2> QED
    BY <1>3, <1>4, <1>5, <1>6, FlattenInduction
<1>8. FlattenSeq(ss) \in Seq(S) /\ WellMapped(FlattenSeq(ss))
  BY <1>3, <1>7
<1> QED
  BY <1>8 DEF ss, S, alone, EachAlone

\* The statements of an installation, and what their order ensures.
LEMMA AddInOrder ==
    ASSUME NEW c \in Config
    PROVE  InOrder(c, AddStatements(c)) /\ WellMapped(AddStatements(c))
<1> DEFINE S == StmtsOf(c, QuietOps)
           cf == Content[c]
           rows == Inserts(c) \o Updates(c)
           maps == FlattenSeq([i \in DOMAIN cf.pairs |-> MapNode(cf.pairs[i])])
           V == Stmts("variable", cf.vars)
           K == <<Stmt("connect", "")>>
           D == Section(Stmts("insert_dc", cf.dcs))
           R == Section(rows)
           M == Section(maps)
           B == EachAlone("backup", cf.backups)
           W == EachAlone("memo", cf.clusters)
<1>1. AddStatements(c) = (((((V \o K) \o D) \o R) \o M) \o B) \o W
  BY DEF AddStatements
<1>2. Node \subseteq Args(c) /\ Dc \subseteq Args(c) /\ Cluster \subseteq Args(c)
      /\ Backups \subseteq Args(c) /\ "" \in Args(c)
  <2>1. "" \in {""}
    OBVIOUS
  <2> QED
    BY <2>1 DEF Args
<1>3. \A op \in QuietOps : \A x \in Args(c) : Stmt(op, x) \in S
  BY StmtTyped
<1> HIDE DEF S
<1>4. \A st \in S : <<st>> \in Seq(S)
  BY SmallSeqs
<1>5. V \in Seq(S) /\ WellMapped(V)
  <2>1. "variable" \in {"variable"} /\ {"variable"} \subseteq QuietOps /\ "map" \notin {"variable"}
    BY DEF QuietOps
  <2>2. V \in Seq(StmtsOf(c, {"variable"}))
    BY <1>2, <2>1, StmtsTyped, ContentTyped
  <2> QED
    BY <2>1, <2>2, MoreOps, WithoutMaps DEF S
<1>6. K \in Seq(S) /\ WellMapped(K)
  <2>1. K \in Seq(S)
    BY <1>2, <1>3, <1>4 DEF QuietOps
  <2>2. K[1].op # "map" /\ Len(K) = 1
    BY DEF Stmt
  <2> HIDE DEF K
  <2>3. WellMapped(K)
    BY <2>2 DEF WellMapped
  <2> QED
    BY <2>1, <2>3
<1>7. D \in Seq(S) /\ WellMapped(D)
  <2>1. "insert_dc" \in {"insert_dc"} /\ {"insert_dc"} \subseteq QuietOps /\ "map" \notin {"insert_dc"}
        /\ "start" \in QuietOps /\ "commit" \in QuietOps
    BY DEF QuietOps
  <2> DEFINE d == Stmts("insert_dc", cf.dcs)
  <2>2. d \in Seq(StmtsOf(c, {"insert_dc"}))
    BY <1>2, <2>1, StmtsTyped, ContentTyped
  <2> HIDE DEF d
  <2>3. d \in Seq(StmtsOf(c, QuietOps)) /\ WellMapped(d)
    BY <2>1, <2>2, MoreOps, WithoutMaps
  <2>4. Section(d) \in Seq(StmtsOf(c, QuietOps)) /\ WellMapped(Section(d))
    BY <2>1, <2>3, SectionTyped, SectionMapped
  <2> QED
    BY <2>4 DEF S, d
<1>8. WellMapped(R) /\ R \in Seq(StmtsOf(c, AddOps))
  <2>1. "map" \notin RowOps /\ RowOps \subseteq AddOps /\ "start" \in AddOps /\ "commit" \in AddOps
    BY DEF RowOps, AddOps, QuietOps
  <2>2. rows \in Seq(StmtsOf(c, RowOps))
    BY RowsListed
  <2> HIDE DEF rows
  <2>3. rows \in Seq(StmtsOf(c, AddOps)) /\ WellMapped(rows)
    BY <2>1, <2>2, MoreOps, WithoutMaps
  <2> QED
    BY <2>1, <2>3, SectionTyped, SectionMapped
<1>9. M \in Seq(S) /\ WellMapped(M)
  <2>1. "start" \in QuietOps /\ "commit" \in QuietOps
    BY DEF QuietOps
  <2>2. maps \in Seq(StmtsOf(c, QuietOps)) /\ WellMapped(maps)
    BY MapsListed
  <2> HIDE DEF maps
  <2> QED
    BY <2>1, <2>2, SectionTyped, SectionMapped DEF S
<1>10. cf.backups \in Seq(Backups) /\ cf.clusters \in Seq(Cluster)
  BY ContentTyped
<1>11. B \in Seq(S) /\ WellMapped(B)
  BY <1>2, <1>10, EachAloneIs DEF S, QuietOps
<1>12. W \in Seq(S) /\ WellMapped(W)
  BY <1>2, <1>10, EachAloneIs DEF S, QuietOps
<1> HIDE DEF V, K, D, M, B, W, cf
<1>13. (V \o K) \o D \in Seq(S)
  BY <1>5, <1>6, <1>7
<1>14. InOrder(c, ((((((V \o K) \o D) \o R) \o M) \o B) \o W))
  <2>1. InOrder(c, ((V \o K) \o D) \o R)
    BY <1>13, RowsInOrder DEF S
  <2>2. InOrder(c, (((V \o K) \o D) \o R) \o M)
    BY <1>9, <2>1, QuietSuffix DEF S
  <2>3. InOrder(c, ((((V \o K) \o D) \o R) \o M) \o B)
    BY <1>11, <2>2, QuietSuffix DEF S
  <2> QED
    BY <1>12, <2>3, QuietSuffix DEF S
<1>15. WellMapped((((((V \o K) \o D) \o R) \o M) \o B) \o W)
  <2> DEFINE T == StmtsOf(c, AddOps)
  <2>1. \A s \in Seq(S) : s \in Seq(T)
    BY MoreOps DEF S, AddOps
  <2>2. R \in Seq(T)
    BY <1>8
  <2> HIDE DEF T, R
  <2>3. \A a, b \in Seq(T) : WellMapped(a) /\ WellMapped(b) => a \o b \in Seq(T) /\ WellMapped(a \o b)
    BY WellMappedJoin
  <2>4. (V \o K) \o D \in Seq(T) /\ WellMapped((V \o K) \o D)
    BY <1>5, <1>6, <1>7, <2>1, <2>3
  <2>5. ((V \o K) \o D) \o R \in Seq(T) /\ WellMapped(((V \o K) \o D) \o R)
    BY <1>8, <2>2, <2>3, <2>4 DEF R
  <2> QED
    BY <1>9, <1>11, <1>12, <2>1, <2>3, <2>5
<1> QED
  BY <1>1, <1>14, <1>15

\* The statements of a clean: the rows of all machines are deleted after the last
\* reset and committed, before a cluster is deleted.
RemoveOps == {"connect", "start", "delete_rows", "commit", "delete_cluster"}

RemovesAll(c, s) ==
    /\ s \in Seq(StmtsOf(c, RemoveOps))
    /\ \A m \in Owns(c) : \E q \in 1..Len(s) : s[q] = Stmt("delete_rows", m)
    /\ \A q \in 1..Len(s) : s[q].op = "delete_rows" => s[q].arg \in Owns(c)
    /\ \A p, q \in 1..Len(s) : s[p].op \in Resets /\ s[q].op = "delete_rows" => p < q
    /\ \A q \in 1..Len(s) : s[q].op = "delete_rows" => \E k \in (q + 1)..Len(s) : s[k].op = "commit"
    /\ \A k, p \in 1..Len(s) : s[k].op = "commit" /\ s[p].op = "delete_cluster" => k < p

LEMMA RemoveInOrder ==
    ASSUME NEW c \in Config
    PROVE  RemovesAll(c, RemoveStatements(c))
<1> DEFINE S == StmtsOf(c, RemoveOps)
           rows == RemoveRows(c)
           K == <<Stmt("connect", "")>>
           R == Section(rows)
           D == Stmts("delete_cluster", Content[c].clusters)
           s == (K \o R) \o D
<1>1. RemoveStatements(c) = s
  BY DEF RemoveStatements
<1>2. /\ rows \in Seq(StmtsOf(c, {"delete_rows"}))
      /\ \A q \in 1..Len(rows) : rows[q].arg \in Owns(c)
      /\ \A m \in Owns(c) : \E q \in 1..Len(rows) : rows[q] = Stmt("delete_rows", m)
  BY RemoveRowsListed
<1> HIDE DEF rows
<1>3. rows \in Seq(S) /\ \A q \in 1..Len(rows) : rows[q].op = "delete_rows"
  BY <1>2, MoreOps, OpsOf DEF RemoveOps
<1>4. D \in Seq(S) /\ \A q \in 1..Len(D) : D[q].op = "delete_cluster"
  <2>1. D \in Seq(StmtsOf(c, {"delete_cluster"}))
    <3>1. Cluster \subseteq Args(c) /\ "delete_cluster" \in {"delete_cluster"}
      BY DEF Args
    <3> QED
      BY <3>1, ContentTyped, StmtsTyped
  <2> HIDE DEF D
  <2> QED
    BY <2>1, MoreOps, OpsOf DEF RemoveOps
<1>5. K \in Seq(S) /\ Len(K) = 1 /\ K[1].op = "connect"
  <2>1. "" \in Args(c)
    <3>1. "" \in {""}
      OBVIOUS
    <3> QED
      BY <3>1 DEF Args
  <2>2. Stmt("connect", "") \in S /\ Stmt("connect", "").op = "connect"
    <3>1. "connect" \in RemoveOps
      BY DEF RemoveOps
    <3>2. \A op \in RemoveOps : \A x \in Args(c) : Stmt(op, x) \in S
      BY StmtTyped
    <3>3. Stmt("connect", "").op = "connect"
      BY DEF Stmt
    <3> HIDE DEF S
    <3> QED
      BY <2>1, <3>1, <3>2, <3>3
  <2> HIDE DEF S
  <2> QED
    BY <2>2, SmallSeqs
<1>6. R \in Seq(S)
  BY <1>3, SectionTyped DEF RemoveOps
<1> HIDE DEF S, K, D, R
<1>7. /\ K \o R \in Seq(S) /\ Len(K \o R) = 1 + Len(R) /\ Len(R) \in Nat
      /\ (K \o R)[1].op = "connect"
      /\ \A k \in 1..Len(R) : (K \o R)[1 + k] = R[k]
  <2>1. /\ K \o R \in Seq(S) /\ Len(K) \in Nat /\ Len(R) \in Nat /\ Len(K \o R) = Len(K) + Len(R)
        /\ \A q \in 1..Len(K) : q \in 1..Len(K \o R) /\ (K \o R)[q] = K[q]
        /\ \A k \in 1..Len(R) : Len(K) + k \in 1..Len(K \o R) /\ (K \o R)[Len(K) + k] = R[k]
    <3>1. K \in Seq(S) /\ R \in Seq(S)
      BY <1>5, <1>6
    <3> QED
      BY <3>1, Joined
  <2> DEFINE X == K \o R
  <2>2. X[1] = K[1]
    BY <1>5, <2>1
  <2> QED
    BY <1>5, <2>1, <2>2
<1> DEFINE X == K \o R
<1> HIDE DEF X
<1>8. /\ s \in Seq(S) /\ Len(X) \in Nat /\ Len(D) \in Nat /\ Len(s) = Len(X) + Len(D)
      /\ \A q \in 1..Len(X) : q \in 1..Len(s) /\ s[q] = X[q]
      /\ \A q \in 1..Len(s) : q \notin 1..Len(X) => s[q].op = "delete_cluster"
  <2>1. /\ X \o D \in Seq(S) /\ Len(X) \in Nat /\ Len(D) \in Nat /\ Len(X \o D) = Len(X) + Len(D)
        /\ \A q \in 1..Len(X) : q \in 1..Len(X \o D) /\ (X \o D)[q] = X[q]
        /\ \A k \in 1..Len(D) : (X \o D)[Len(X) + k] = D[k]
        /\ \A q \in 1..Len(X \o D) : q \notin 1..Len(X) =>
              q - Len(X) \in 1..Len(D) /\ q = Len(X) + (q - Len(X))
    <3>1. X \in Seq(S) /\ D \in Seq(S)
      BY <1>4, <1>7 DEF X
    <3> QED
      BY <3>1, Joined
  <2>2. s = X \o D
    BY DEF X
  <2> HIDE DEF s
  <2> QED
    BY <1>4, <2>1, <2>2
<1> HIDE DEF s
<1>9. CASE rows = <<>> /\ R = <<>>
  <2>1. Len(X) = 1 /\ X[1].op = "connect"
    BY <1>7, <1>9 DEF X
  <2>2. \A q \in 1..Len(s) : s[q].op \in {"connect", "delete_cluster"}
    BY <1>8, <2>1
  <2>3. Owns(c) = {}
    BY <1>2, <1>9
  <2> QED
    BY <1>1, <1>8, <2>2, <2>3 DEF RemovesAll, S
<1>10. CASE /\ Len(rows) \in Nat /\ Len(R) = Len(rows) + 2
            /\ R[1] = Stmt("start", "") /\ R[Len(rows) + 2] = Stmt("commit", "")
            /\ \A q \in 1..Len(rows) : R[q + 1] = rows[q]
  <2> DEFINE n == Len(rows)
  <2>0. n \in Nat /\ Len(R) = n + 2
    BY <1>10
  <2>1. n \in Nat /\ Len(X) = n + 3
    <3>1. Len(X) = 1 + Len(R)
      BY <1>7 DEF X
    <3> QED
      BY <2>0, <3>1
  <2>2. s[1].op = "connect" /\ s[2].op = "start" /\ s[n + 3].op = "commit"
    <3>1. X[1].op = "connect"
      BY <1>7 DEF X
    <3>2. X[1 + 1] = R[1] /\ X[1 + (n + 2)] = R[n + 2]
      <4>1. 1 \in 1..Len(R) /\ n + 2 \in 1..Len(R)
        BY <2>0
      <4>2. \A k \in 1..Len(R) : X[1 + k] = R[k]
        BY <1>7 DEF X
      <4> QED
        BY <4>1, <4>2
    <3>3. R[1].op = "start" /\ R[n + 2].op = "commit"
      <4>1. Stmt("start", "").op = "start" /\ Stmt("commit", "").op = "commit"
        BY DEF Stmt
      <4> QED
        BY <1>10, <4>1, Zenon
    <3>4. 1 \in 1..Len(X) /\ 1 + 1 \in 1..Len(X) /\ 1 + (n + 2) \in 1..Len(X) /\ 1 + (n + 2) = n + 3
      BY <2>1
    <3> QED
      BY <1>8, <3>1, <3>2, <3>3, <3>4
  <2>3. \A k \in 1..n : k + 2 \in 1..Len(s) /\ s[k + 2] = rows[k]
    <3> TAKE k \in 1..n
    <3>1. k + 1 \in 1..Len(R) /\ 1 + (k + 1) = k + 2 /\ k + 2 \in 1..Len(X)
      BY <2>0, <2>1
    <3>2. X[1 + (k + 1)] = R[k + 1]
      BY <1>7, <3>1 DEF X
    <3>3. R[k + 1] = rows[k]
      BY <1>10
    <3> QED
      BY <1>8, <3>1, <3>2, <3>3
  <2>4. Len(s) \in Nat /\ Len(s) >= n + 3
    BY <1>8, <2>1
  <2>5. \A q \in 1..Len(s) :
            \/ q \in {1, 2, n + 3}
            \/ q \in 3..(n + 2) /\ s[q].op = "delete_rows"
            \/ q > n + 3 /\ s[q].op = "delete_cluster"
    <3> TAKE q \in 1..Len(s)
    <3>1. CASE q \in 3..(n + 2)
      <4>1. q - 2 \in 1..n /\ (q - 2) + 2 = q
        BY <2>1, <3>1
      <4> QED
        BY <1>3, <2>3, <3>1, <4>1
    <3>2. CASE q > n + 3
      BY <1>8, <2>1, <3>2
    <3> QED
      BY <2>1, <3>1, <3>2
  <2> HIDE DEF n
  <2>6. \A m \in Owns(c) : \E q \in 1..Len(s) : s[q] = Stmt("delete_rows", m)
    BY <1>2, <2>3 DEF n
  <2>7. \A p, q \in 1..Len(s) : s[p].op \in Resets /\ s[q].op = "delete_rows" => p < q
    BY <2>1, <2>2, <2>5 DEF Resets
  <2>8. \A q \in 1..Len(s) : s[q].op = "delete_rows" => \E k \in (q + 1)..Len(s) : s[k].op = "commit"
    <3> TAKE q \in 1..Len(s)
    <3> HAVE s[q].op = "delete_rows"
    <3>1. q \in 3..(n + 2)
      BY <2>1, <2>2, <2>5
    <3>2. n + 3 \in (q + 1)..Len(s)
      BY <2>1, <2>4, <3>1
    <3> QED
      BY <2>2, <3>2
  <2>9. \A k, p \in 1..Len(s) : s[k].op = "commit" /\ s[p].op = "delete_cluster" => k < p
    BY <2>1, <2>2, <2>5
  <2>10. \A q \in 1..Len(s) : s[q].op = "delete_rows" => s[q].arg \in Owns(c)
    <3> TAKE q \in 1..Len(s)
    <3> HAVE s[q].op = "delete_rows"
    <3>1. q \in 3..(n + 2)
      BY <2>1, <2>2, <2>5
    <3>2. q - 2 \in 1..n /\ (q - 2) + 2 = q
      BY <2>1, <3>1
    <3> QED
      BY <1>2, <2>3, <3>2 DEF n
  <2> QED
    BY <1>1, <1>8, <2>6, <2>7, <2>8, <2>9, <2>10 DEF RemovesAll, S
<1>11. \/ rows = <<>> /\ R = <<>>
       \/ /\ Len(rows) \in Nat /\ Len(R) = Len(rows) + 2
          /\ R[1] = Stmt("start", "") /\ R[Len(rows) + 2] = Stmt("commit", "")
          /\ \A q \in 1..Len(rows) : R[q + 1] = rows[q]
  BY <1>3, SectionIs DEF R
<1> QED
  BY <1>9, <1>10, <1>11

\* What the order of the statements is in the change that runs.
Ordered ==
    /\ change.op = "add" => InOrder(change.config, Statements) /\ WellMapped(Statements)
    /\ change.op = "remove" => RemovesAll(change.config, Statements)

LEMMA OrderedNow == ASSUME TypeOK PROVE Ordered
<1>1. CASE change = NoChange
  BY <1>1 DEF NoChange, Ordered
<1>2. CASE change \in [config : Config, op : {"add", "remove"}]
  <2>1. change.config \in Config
    BY <1>2
  <2>2. CASE change.op = "add"
    BY <2>1, <2>2, AddInOrder DEF Ordered, Statements
  <2>3. CASE change.op = "remove"
    BY <2>1, <2>3, RemoveInOrder DEF Ordered, Statements
  <2> QED
    BY <1>2, <2>2, <2>3
<1> QED
  BY <1>1, <1>2 DEF TypeOK

\* It is so in the state after a step as well.
LEMMA OrderedNext == TypeOK' => Ordered'
<1>1. TypeOK => Ordered
  BY OrderedNow
<1> QED
  BY <1>1, PTL

LEMMA SameStatements ==
    ASSUME change' = change, plans' = plans
    PROVE  Statements' = Statements
<1>1. ASSUME NEW c, NEW i, NEW t PROVE RowOf(c, i, t)' = RowOf(c, i, t)
  BY DEF RowOf
<1>2. ASSUME NEW c PROVE Inserts(c)' = Inserts(c)
  BY <1>1 DEF Inserts
<1>3. ASSUME NEW c PROVE Updates(c)' = Updates(c)
  BY <1>1 DEF Updates, UpdateOf
<1> QED
  BY <1>2, <1>3 DEF Statements, AddStatements, RemoveStatements

-----------------------------------------------------------------------------
(* What holds of the rows in every reachable state: d is db or draft.      *)

IsRow(r) ==
    r = [id |-> r.id, ip |-> r.ip, type |-> r.type, pos |-> r.pos, used |-> r.used]
IsDb(d) ==
    /\ d = [rows |-> d.rows, gone |-> d.gone, dcs |-> d.dcs, map |-> d.map,
            backups |-> d.backups, memos |-> d.memos, clusters |-> d.clusters]
    /\ \A r \in d.rows : IsRow(r)

Stands(c) == standing[c] # "out"
LEMMA SetsUpIs ==
    /\ \A c \in Config : \A m, t : SetsUp(c, m, t) => m \in Owns(c)
    /\ \A c, m, t : SetsUp(c, m, t)' = SetsUp(c, m, t)
<1>1. ASSUME NEW c \in Config, NEW m, NEW t, SetsUp(c, m, t) PROVE m \in Owns(c)
  <2>1. PICK n \in ToSet(Nodes(c)) : n.ip = m /\ ~n.skip
    BY <1>1, Zenon DEF SetsUp, Nodes
  <2>2. \A x, y \in ToSet(Nodes(c)) : x.ip = y.ip => x = y
    BY MetadataAssumption DEF Validated, Nodes, ToSet
  <2>3. m \in Uses(c)
    BY <2>1, Zenon DEF Uses, Nodes
  <2>4. ASSUME m \in Skips(c) PROVE FALSE
    <3>1. PICK x \in ToSet(Nodes(c)) : x.skip /\ m = x.ip
      BY <2>4, Zenon DEF Skips, Nodes
    <3> QED
      BY <2>1, <2>2, <3>1, Zenon
  <2> QED
    BY <2>3, <2>4 DEF Owns
<1>2. ASSUME NEW c, NEW m, NEW t PROVE SetsUp(c, m, t)' = SetsUp(c, m, t)
  BY DEF SetsUp, TypesOf, ToSet
<1> QED
  BY <1>1, <1>2

OneOwner == \A c, o \in Config : Stands(c) /\ Stands(o) /\ Owns(c) \cap Owns(o) # {} => c = o
Underway == change # NoChange => standing[change.config] = "unsure"

\* A row is one that somebody has set up, and the only one of its kind.
Owned(d) == \A r \in d.rows : \E c \in Config : Stands(c) /\ SetsUp(c, r.ip, r.type)
Once(d) == keyed \/ ~repeated => \A r, s \in d.rows : r.ip = s.ip /\ r.type = s.type => r = s

\* The statements of the change from the next on.
Ahead(op) == {q \in 1..Len(Statements) : q >= pc /\ Statements[q].op = op}

\* An installation comes to no row that there is, unless it comes to its own again.
NotYet(d) ==
    change.op = "add" /\ ~repeated =>
        \A q \in Ahead("insert_row") :
            RowsFor(d, Statements[q].arg.ip, Statements[q].arg.type) = {}

\* A clean has still to delete, and to commit, what there is of its rows.
ToDelete ==
    change.op = "remove" =>
        \A r \in draft.rows : r.ip \in Owns(change.config) =>
            \E q \in Ahead("delete_rows") : Statements[q].arg = r.ip
ToCommit ==
    change.op = "remove" =>
        \A r \in db.rows : r.ip \in Owns(change.config) => Ahead("commit") # {}

OnceInv ==
    /\ IsDb(db) /\ IsDb(draft) /\ OneOwner /\ Underway
    /\ Owned(db) /\ Owned(draft) /\ Once(db) /\ Once(draft)
    /\ NotYet(db) /\ NotYet(draft) /\ ToDelete /\ ToCommit

\* What is skipped belongs to a configuration that stays.
SkipsOwned ==
    \A c \in Config : Stands(c) =>
        \A m \in Skips(c) : \E o \in Config : standing[o] = "in" /\ m \in Owns(o)

\* What statement st is to leave behind.
Recorded(d, st) ==
    /\ \A r \in RowsFor(d, st.arg.ip, st.arg.type) : st.arg.used \subseteq r.used
    /\ st.op = "insert_row" => RowsFor(d, st.arg.ip, st.arg.type) # {}

\* Of the statements that were run the rows are there, and the ports are in them.
RunInDraft ==
    change.op = "add" =>
        \A q \in 1..Len(Statements) : q < pc /\ Statements[q].op \in RowOps =>
            Recorded(draft, Statements[q])
RunInDb ==
    change.op = "add" =>
        \A q \in 1..Len(Statements) : Statements[q].op \in RowOps =>
            \A k \in (q + 1)..(pc - 1) : Statements[k].op = "commit" =>
                Recorded(db, Statements[q])
PlansTyped ==
    /\ DOMAIN plans = Config
    /\ change.op = "add" =>
        \A i \in DOMAIN Nodes(change.config) : \A t \in Types :
            /\ plans[change.config][i][t].start \in Nat
            /\ plans[change.config][i][t].count = Nodes(change.config)[i].ports[t]
            /\ ~Nodes(change.config)[i].skip => plans[change.config][i][t].start = First
Counted(d) == \A r \in d.rows : r.pos \in Nat
AllRecorded(d) ==
    \A c \in Config : standing[c] = "in" =>
        \A i \in DOMAIN Nodes(c) : \A t \in Wanted(c, i) : Recorded(d, RowStmt(c, i, t))

\* A row on a machine that c sets up has the ports that c gives there from the first
\* addition on, so that another addition finds them.
Own(c, i, t) == {<<port, c>> : port \in First..(First + Nodes(c)[i].ports[t] - 1)}
HasOwn(c, rows) ==
    \A i \in DOMAIN Nodes(c) : ~Nodes(c)[i].skip => \A t \in Types : \A r \in rows :
        r.ip = Nodes(c)[i].ip /\ r.type = t => Own(c, i, t) \subseteq r.used
OwnPorts == \A c \in Config : Stands(c) => HasOwn(c, db.rows \cup draft.rows)

RecordInv ==
    /\ SkipsOwned /\ RunInDraft /\ RunInDb /\ PlansTyped /\ Counted(db) /\ Counted(draft)
    /\ AllRecorded(db) /\ AllRecorded(draft) /\ OwnPorts

\* Unless a counter was missed, a row has no port twice, and those that it is to get
\* are at its counter or after it.
Below(d) == ~raced => \A r \in d.rows : \A p \in r.used : p[1] \in Nat /\ p[1] < r.pos
Single(d) == ~raced => \A r \in d.rows : \A p, q \in r.used : p[1] = q[1] => p = q
NewPorts(d) ==
    ~raced /\ change.op = "add" =>
        \A q \in Ahead("update_row") :
            \A r \in RowsFor(d, Statements[q].arg.ip, Statements[q].arg.type) :
                \A p \in Statements[q].arg.used : r.pos <= p[1]
PortsGiven(d) == Below(d) /\ Single(d) /\ NewPorts(d)
OnceGivenInv == PortsGiven(db) /\ PortsGiven(draft)

\* What is looked up over a connection that lives is a cluster.
Known(d) == \A x \in d.map : x.cluster = MetaShard => x.node \in MetaNode
Answered ==
    change # NoChange /\ conn = "up" =>
        \A q \in Ahead("map") :
            q \in {pc, pc + 1} /\ Statements[q].arg \notin MetaNode => found \in Cluster
MapInv == Known(db) /\ Known(draft) /\ Answered

-----------------------------------------------------------------------------
(* The kinds of steps, as far as the rows are concerned.                   *)

Runs(st) ==
    /\ change # NoChange /\ st \in Upcoming /\ pc' = pc + 1
    /\ UNCHANGED <<change, plans, standing, keyed, past>>
Keeps(st) ==
    /\ Runs(st) /\ st.op \notin RowOps \cup Resets \cup {"delete_rows", "commit"}
    /\ db' = db /\ (IsDb(draft) => draft'.rows = draft.rows /\ IsDb(draft)')
GoesBack(st) == Runs(st) /\ st.op \in Resets /\ db' = db /\ draft' = db

Closes ==
    /\ change # NoChange /\ change' = NoChange /\ draft' = db'
    /\ UNCHANGED <<plans, keyed, past>>
Breaks == Closes /\ standing' = standing /\ db' \in {db, draft}
Settles(x) ==
    /\ Closes /\ db' = db /\ standing' = [standing EXCEPT ![change.config] = x]
    /\ \/ x = "unsure"
       \/ x = "in" /\ change.op = "add" /\ pc > Len(Statements)
       \/ x = "out" /\ change.op = "remove" /\ Ahead("commit") = {}

\* What is known of a change that runs.
LEMMA Running ==
    ASSUME TypeOK, change # NoChange
    PROVE  /\ change.config \in Config /\ change.op \in {"add", "remove"}
           /\ Len(Statements) \in Nat /\ DOMAIN Statements = 1..Len(Statements)
           /\ pc \in Nat \ {0}
           /\ \A st \in Upcoming : pc \in 1..Len(Statements) /\ st = Statements[pc]
           /\ Upcoming = {} => pc > Len(Statements)
<1>1. change \in [config : Config, op : {"add", "remove"}] /\ pc \in Nat \ {0}
  BY DEF TypeOK
<1>2. \E ops : Statements \in Seq(StmtsOf(change.config, ops))
  BY <1>1, OrderedNow DEF Ordered, InOrder, RemovesAll
<1>3. Len(Statements) \in Nat /\ DOMAIN Statements = 1..Len(Statements)
  BY <1>2
<1>4. \A st \in Upcoming : pc \in 1..Len(Statements) /\ st = Statements[pc]
  BY <1>3 DEF Upcoming
<1>5. pc \in 1..Len(Statements) => Upcoming # {}
  BY <1>3 DEF Upcoming
<1> QED
  BY <1>1, <1>3, <1>4, <1>5

\* Which statements there are in an installation and in a clean.
LEMMA OpsOfChange ==
    ASSUME TypeOK, NEW q \in 1..Len(Statements)
    PROVE  /\ change.op = "add" => Statements[q].op \in AddOps
           /\ change.op = "remove" => Statements[q].op \in RemoveOps
<1>1. CASE change.op = "add"
  BY <1>1, OrderedNow, OpsOf DEF Ordered, InOrder
<1>2. CASE change.op = "remove"
  BY <1>2, OrderedNow, OpsOf DEF Ordered, RemovesAll
<1> QED
  BY <1>1, <1>2, Zenon DEF AddOps, RemoveOps

LEMMA Kinds ==
    ASSUME TypeOK, [Next]_vars
    PROVE  \/ \E c \in Config : IssueAdd(c) \/ IssueRemove(c) \/ RemoveShard(c)
           \/ \E st \in Upcoming : Keeps(st) \/ GoesBack(st)
           \/ \E st \in Upcoming : Runs(st) /\ (InsertRow(st) \/ UpdateRow(st))
           \/ \E st \in Upcoming : Runs(st) /\ (DeleteRows(st) \/ Commit(st))
           \/ Breaks \/ \E x : Settles(x)
           \/ \E r \in db.rows : Allocate(r)
           \/ UNCHANGED vars
<1>0. \A st \in Upcoming : change # NoChange
  BY DEF Upcoming, Statements, NoChange
<1>1. ASSUME NEW st \in Upcoming, NEW n \in Node, SetVariable(n, st) PROVE Keeps(st)
  BY <1>0, <1>1 DEF SetVariable, In, Keeps, Runs, RowOps, Resets, IsDb
<1>2. ASSUME NEW st \in Upcoming, NEW n \in Node, LookUp(n, st) PROVE Keeps(st)
  BY <1>0, <1>2 DEF LookUp, In, Keeps, Runs, RowOps, Resets, IsDb
<1>11. ASSUME NEW st \in Upcoming, AskMaster(st) PROVE Keeps(st)
  BY <1>0, <1>11 DEF AskMaster, In, Keeps, Runs, RowOps, Resets, IsDb
<1>3. ASSUME NEW st \in Upcoming, Connect(st) \/ Start(st) PROVE GoesBack(st)
  BY <1>0, <1>3 DEF Connect, Start, Write, In, GoesBack, Runs, Resets
<1>4. ASSUME NEW st \in Upcoming, Commit(st) PROVE Runs(st)
  BY <1>0, <1>4 DEF Commit, In, Runs
<1>5. ASSUME NEW st \in Upcoming, NEW op, NEW d, Write(op, st, d)
      PROVE  Runs(st) /\ st.op = op /\ db' = db /\ draft' = d
  BY <1>0, <1>5 DEF Write, In, Runs
<1>6. ASSUME NEW st \in Upcoming, InsertDc(st) \/ MapIt(st) \/ Backup(st) \/ Memo(st)
      PROVE  Keeps(st)
  <2>1. /\ Runs(st) /\ db' = db
        /\ st.op \in {"insert_dc", "map", "backup", "memo"}
    BY <1>5, <1>6 DEF InsertDc, MapIt, Backup, Memo
  <2>2. PICK dcs, map, backups, memos :
           draft' = [draft EXCEPT !.dcs = dcs] \/ draft' = [draft EXCEPT !.map = map]
           \/ draft' = [draft EXCEPT !.backups = backups] \/ draft' = [draft EXCEPT !.memos = memos]
    BY <1>5, <1>6 DEF InsertDc, MapIt, Backup, Memo
  <2>3. IsDb(draft) => draft'.rows = draft.rows /\ IsDb(draft')
    BY <2>2 DEF IsDb
  <2> QED
    BY <2>1, <2>3 DEF Keeps, RowOps, Resets, IsDb
<1>7. ASSUME NEW st \in Upcoming, InsertRow(st) \/ UpdateRow(st) \/ DeleteRows(st) PROVE Runs(st)
  BY <1>5, <1>7 DEF InsertRow, UpdateRow, DeleteRows
<1>8. ASSUME NEW st \in Upcoming, StatementFails(st) PROVE Breaks \/ \E x : Settles(x)
  <2>1. CASE st.op # "delete_cluster"
    BY <1>0, <1>8, <2>1 DEF StatementFails, Abort, Breaks, Closes
  <2>2. CASE st.op = "delete_cluster"
    <3>1. pc \in 1..Len(Statements) /\ st = Statements[pc] /\ change.op \in {"add", "remove"}
          /\ Len(Statements) \in Nat
      BY <1>0, Running
    <3>2. change.op = "remove"
      BY <2>2, <3>1, OpsOfChange DEF AddOps, RowOps, QuietOps
    <3>3. \A k, p \in 1..Len(Statements) :
             Statements[k].op = "commit" /\ Statements[p].op = "delete_cluster" => k < p
      BY <3>2, OrderedNow DEF Ordered, RemovesAll
    <3>4. Ahead("commit") = {}
      BY <2>2, <3>1, <3>3 DEF Ahead
    <3>5. Settles("out")
      BY <1>0, <1>8, <2>2, <3>2, <3>4 DEF StatementFails, Abort, Settles, Closes
    <3> QED
      BY <3>5
  <2> QED
    BY <2>1, <2>2
<1>9. ASSUME NEW st \in Upcoming, StatementFaults(st) PROVE Breaks
  BY <1>0, <1>9 DEF StatementFaults, Abort, Breaks, Closes
<1>10. CASE Finish
  <2>1. change # NoChange /\ Upcoming = {} /\ Closes /\ db' = db
    BY <1>10 DEF Finish, Abort, Closes
  <2>2. pc > Len(Statements) /\ change.op \in {"add", "remove"} /\ pc \in Nat /\ Len(Statements) \in Nat
    BY <2>1, Running
  <2>3. Ahead("commit") = {}
    BY <2>2 DEF Ahead
  <2>4. PICK x : /\ x = CASE conn = "none"      -> "unsure"
                          [] change.op = "add"  -> "in"
                          [] OTHER              -> "out"
                 /\ standing' = [standing EXCEPT ![change.config] = x]
    BY <1>10 DEF Finish
  <2>5. \/ x = "unsure"
        \/ x = "in" /\ change.op = "add"
        \/ x = "out" /\ change.op = "remove"
    BY <2>2, <2>4
  <2>6. Settles(x)
    BY <2>1, <2>2, <2>3, <2>4, <2>5 DEF Settles
  <2> QED
    BY <2>6
<1> QED
  BY <1>1, <1>2, <1>3, <1>4, <1>6, <1>7, <1>8, <1>9, <1>10, <1>11 DEF Next, Run

-----------------------------------------------------------------------------
(* RowsOnce.                                                               *)

\* The statements do not change while they run, and the next is no longer ahead.
LEMMA AheadMoves ==
    ASSUME TypeOK, NEW st \in Upcoming, Runs(st), NEW op
    PROVE  /\ Statements' = Statements /\ pc \in 1..Len(Statements) /\ st = Statements[pc]
           /\ change.config \in Config /\ change.op \in {"add", "remove"} /\ Len(Statements) \in Nat
           /\ Ahead(op)' = Ahead(op) \ {pc}
           /\ Ahead(op) \subseteq pc..Len(Statements)
           /\ st.op # op => Ahead(op)' = Ahead(op)
           /\ st.op = op => pc \in Ahead(op)
<1>1. /\ change.config \in Config /\ change.op \in {"add", "remove"} /\ Len(Statements) \in Nat
      /\ pc \in 1..Len(Statements) /\ st = Statements[pc]
  BY Running DEF Runs
<1>2. Statements' = Statements /\ pc' = pc + 1
  BY SameStatements DEF Runs
<1>3. Ahead(op)' = Ahead(op) \ {pc}
  BY <1>1, <1>2 DEF Ahead
<1> QED
  BY <1>1, <1>2, <1>3 DEF Ahead

\* What a statement that is still ahead of an installation writes is in c.
LEMMA RowStmtIs ==
    ASSUME TypeOK, change.op = "add", NEW q \in 1..Len(Statements), Statements[q].op \in RowOps
    PROVE  LET st == Statements[q]  c == change.config IN
           \E i \in DOMAIN Nodes(c) : \E t \in Types :
              /\ st.arg = RowOf(c, i, t) /\ st.arg.ip = Nodes(c)[i].ip /\ st.arg.type = t
              /\ st.op = "insert_row" =>
                    ~Nodes(c)[i].skip /\ SetsUp(c, st.arg.ip, t) /\ st.arg.ip \in Owns(c)
              /\ st.op = "update_row" =>
                    Nodes(c)[i].skip /\ Nodes(c)[i].ports[t] > 0 /\ st.arg.ip \in Skips(c)
<1> DEFINE c == change.config
           st == Statements[q]
           N == Nodes(c)
<1>1. c \in Config
  BY DEF TypeOK, NoChange
<1>2. IsRowStmt(c, st)
  BY OrderedNow DEF Ordered, InOrder
<1> HIDE DEF c, st
<1>3. PICK i \in DOMAIN N : \E t \in Types :
        \/ st = Stmt("insert_row", RowOf(c, i, t)) /\ ~N[i].skip /\ t \in Fresh(c)[i]
        \/ /\ st = Stmt("update_row", RowOf(c, i, t))
           /\ N[i].skip /\ N[i].ports[t] > 0
  BY <1>2, Zenon DEF IsRowStmt
<1>4. PICK t \in Types :
        \/ st = Stmt("insert_row", RowOf(c, i, t)) /\ ~N[i].skip /\ t \in Fresh(c)[i]
        \/ /\ st = Stmt("update_row", RowOf(c, i, t))
           /\ N[i].skip /\ N[i].ports[t] > 0
  BY <1>3, Zenon
<1>5. \A op, x : Stmt(op, x).op = op /\ Stmt(op, x).arg = x
  BY DEF Stmt
<1>6. st.arg = RowOf(c, i, t) /\ st.arg.ip = N[i].ip /\ st.arg.type = t
  BY <1>4, <1>5, RowOfIs
<1>7. /\ st.op = "insert_row" => ~N[i].skip /\ t \in Fresh(c)[i]
      /\ st.op = "update_row" => N[i].skip /\ N[i].ports[t] > 0
  <2>1. CASE st = Stmt("insert_row", RowOf(c, i, t)) /\ ~N[i].skip /\ t \in Fresh(c)[i]
    <3>1. st.op = "insert_row"
      BY <2>1, <1>5
    <3>2. st.op # "update_row"
      BY <3>1
    <3> QED
      BY <2>1, <3>1, <3>2, Zenon
  <2>2. CASE st = Stmt("update_row", RowOf(c, i, t)) /\ N[i].skip /\ N[i].ports[t] > 0
    <3>1. st.op = "update_row"
      BY <2>2, <1>5
    <3>2. st.op # "insert_row"
      BY <3>1
    <3> QED
      BY <2>2, <3>1, <3>2, Zenon
  <2> QED
    BY <1>4, <2>1, <2>2, Zenon
<1>8. ToSet(N) = {N[x] : x \in DOMAIN N} /\ N[i] \in ToSet(N) /\ N = Content[c].nodes
  BY DEF ToSet, Nodes
<1>9. ASSUME ~N[i].skip, t \in Fresh(c)[i] PROVE SetsUp(c, N[i].ip, t)
  <2>1. t \in ToSet(TypesOf(N[i].nodetype))
    BY <1>9 DEF Fresh
  <2> QED
    BY <1>8, <1>9, <2>1, Zenon DEF SetsUp
<1>10. N[i].skip => N[i].ip \in Skips(c)
  BY <1>8, Zenon DEF Skips
<1> QED
  BY <1>1, <1>6, <1>7, <1>9, <1>10, SetsUpIs, Zenon DEF c, st

\* Two statements about rows of an installation are about different rows.
LEMMA OtherRows ==
    ASSUME TypeOK, change.op = "add",
           NEW p \in 1..Len(Statements), Statements[p].op \in RowOps,
           NEW q \in 1..Len(Statements), Statements[q].op \in RowOps,
           SameKey(Statements[p], Statements[q])
    PROVE  p = q
  BY OrderedNow DEF Ordered, InOrder

\* A change goes on.
LEMMA OnceKept ==
    ASSUME TypeOK, OnceInv, NEW st \in Upcoming, Keeps(st)
    PROVE  OnceInv'
<1>1. Runs(st) /\ db' = db /\ draft'.rows = draft.rows /\ IsDb(draft)'
  BY DEF Keeps, OnceInv
<1>2. OneOwner' /\ Underway'
  BY <1>1 DEF Runs, OnceInv, OneOwner, Underway, Stands
<1>3. Owned(db)' /\ Owned(draft)' /\ Once(db)' /\ Once(draft)' /\ IsDb(db)'
  BY <1>1, SetsUpIs DEF Runs, OnceInv, Owned, Once, Stands, IsDb, IsRow, past
<1>4. /\ Statements' = Statements /\ change' = change
      /\ Ahead("insert_row")' = Ahead("insert_row") /\ Ahead("delete_rows")' = Ahead("delete_rows")
      /\ Ahead("commit")' = Ahead("commit")
  BY <1>1, AheadMoves DEF Keeps, Runs, RowOps
<1>5. NotYet(db)' /\ NotYet(draft)' /\ ToDelete' /\ ToCommit'
  BY <1>1, <1>4 DEF OnceInv, NotYet, ToDelete, ToCommit, RowsFor, Runs, past
<1> QED
  BY <1>1, <1>2, <1>3, <1>5 DEF OnceInv

LEMMA OnceBack ==
    ASSUME TypeOK, OnceInv, NEW st \in Upcoming, GoesBack(st)
    PROVE  OnceInv'
<1>1. Runs(st) /\ db' = db /\ draft' = db /\ st.op \in Resets
  BY DEF GoesBack
<1>2. OneOwner' /\ Underway'
  BY <1>1 DEF Runs, OnceInv, OneOwner, Underway, Stands
<1>3. /\ Owned(db)' /\ Owned(draft)' /\ Once(db)' /\ Once(draft)' /\ IsDb(db)' /\ IsDb(draft)'
  BY <1>1, SetsUpIs DEF Runs, OnceInv, Owned, Once, Stands, IsDb, IsRow, past
<1>4. /\ Statements' = Statements /\ change' = change /\ pc \in 1..Len(Statements) /\ st = Statements[pc]
      /\ Ahead("insert_row")' = Ahead("insert_row") /\ Ahead("delete_rows")' = Ahead("delete_rows")
      /\ Ahead("commit")' = Ahead("commit")
      /\ change.config \in Config /\ Len(Statements) \in Nat
  BY <1>1, AheadMoves DEF Runs, Resets
<1>5. NotYet(db)' /\ NotYet(draft)' /\ ToCommit'
  BY <1>1, <1>4 DEF OnceInv, NotYet, ToCommit, RowsFor, Runs, past
<1>6. ToDelete'
  <2> SUFFICES ASSUME change.op = "remove", NEW r \in db.rows, r.ip \in Owns(change.config)
               PROVE  \E q \in Ahead("delete_rows") : Statements[q].arg = r.ip
    BY <1>1, <1>4 DEF ToDelete, Owns, Uses, Skips
  <2>1. RemovesAll(change.config, Statements)
    BY OrderedNow DEF Ordered
  <2>2. PICK q \in 1..Len(Statements) : Statements[q] = Stmt("delete_rows", r.ip)
    BY <2>1 DEF RemovesAll
  <2>3. Statements[q].op = "delete_rows" /\ Statements[q].arg = r.ip
    BY <2>2 DEF Stmt
  <2>4. pc < q
    BY <1>1, <1>4, <2>1, <2>3 DEF RemovesAll
  <2> QED
    BY <1>4, <2>3, <2>4 DEF Ahead
<1> QED
  BY <1>2, <1>3, <1>5, <1>6 DEF OnceInv

LEMMA OnceInserted ==
    ASSUME TypeOK, OnceInv, NEW st \in Upcoming, Runs(st), InsertRow(st)
    PROVE  OnceInv'
<1> DEFINE a == st.arg
           new == [id |-> NextId(draft), ip |-> a.ip, type |-> a.type, pos |-> a.pos, used |-> a.used]
<1>1. /\ db' = db /\ draft' = [draft EXCEPT !.rows = @ \cup {new}] /\ st.op = "insert_row"
      /\ change' = change /\ standing' = standing /\ keyed' = keyed /\ repeated' = repeated
      /\ keyed => RowsFor(draft, a.ip, a.type) = {}
  <2>1. CanRun(st) /\ st.op = "insert_row"
    BY DEF InsertRow, Write, In
  <2>2. keyed => RowsFor(draft, a.ip, a.type) = {}
    BY <2>1 DEF CanRun, Unique
  <2> QED
    BY <2>2 DEF InsertRow, Write, In, Runs, past
<1>2. OneOwner' /\ Underway'
  BY <1>1 DEF Runs, OnceInv, OneOwner, Underway, Stands
<1>3. /\ Statements' = Statements /\ pc \in 1..Len(Statements) /\ st = Statements[pc]
      /\ Ahead("insert_row")' = Ahead("insert_row") \ {pc} /\ pc \in Ahead("insert_row")
      /\ Ahead("insert_row") \subseteq 1..Len(Statements)
      /\ change.config \in Config /\ change.op \in {"add", "remove"} /\ change # NoChange
  BY <1>1, AheadMoves DEF Runs
<1>4. change.op = "add"
  BY <1>1, <1>3, OpsOfChange DEF RemoveOps
<1>5. SetsUp(change.config, new.ip, new.type) /\ new.ip = a.ip /\ new.type = a.type
  BY <1>1, <1>3, <1>4, RowStmtIs DEF RowOps
<1>6. Stands(change.config)
  BY <1>3 DEF OnceInv, Underway, Stands
<1>7. keyed \/ ~repeated => RowsFor(draft, a.ip, a.type) = {}
  BY <1>1, <1>3, <1>4 DEF OnceInv, NotYet
<1> HIDE DEF new
<1>8. draft'.rows = draft.rows \cup {new}
  BY <1>1 DEF OnceInv, IsDb
<1>9. IsDb(draft)' /\ IsDb(db)'
  <2>1. IsRow(new)
    BY DEF new, IsRow
  <2> QED
    BY <1>1, <1>8, <2>1 DEF OnceInv, IsDb, IsRow
<1>10. Owned(db)' /\ Once(db)'
  BY <1>1, SetsUpIs DEF OnceInv, Owned, Once, Stands
<1>11. Owned(draft)'
  BY <1>1, <1>3, <1>5, <1>6, <1>8, SetsUpIs DEF OnceInv, Owned, Stands
<1>12. Once(draft)'
  BY <1>1, <1>5, <1>7, <1>8 DEF OnceInv, Once, RowsFor
<1>13. NotYet(db)'
  BY <1>1, <1>3 DEF OnceInv, NotYet, RowsFor
<1>14. NotYet(draft)'
  <2> SUFFICES ASSUME ~repeated,
                      NEW q \in Ahead("insert_row") \ {pc}, NEW r \in draft.rows \cup {new},
                      r.ip = Statements[q].arg.ip, r.type = Statements[q].arg.type
               PROVE  FALSE
    BY <1>1, <1>3, <1>8 DEF NotYet, RowsFor
  <2>1. r \notin draft.rows
    BY <1>4 DEF OnceInv, NotYet, RowsFor
  <2>2. SameKey(Statements[q], st)
    BY <1>5, <2>1 DEF SameKey
  <2>3. Statements[q].op \in RowOps /\ st.op \in RowOps
    BY <1>1 DEF Ahead, RowOps
  <2> QED
    BY <1>3, <1>4, <2>2, <2>3, OtherRows
<1>15. ToDelete' /\ ToCommit'
  BY <1>1, <1>4 DEF ToDelete, ToCommit
<1> QED
  BY <1>2, <1>9, <1>10, <1>11, <1>12, <1>13, <1>14, <1>15 DEF OnceInv

\* What an update makes of a row.
Updated(r, a) ==
    IF r.ip = a.ip /\ r.type = a.type
    THEN [r EXCEPT !.pos = a.pos, !.used = @ \cup a.used] ELSE r

LEMMA UpdatedIs ==
    ASSUME IsDb(draft), NEW st, UpdateRow(st)
    PROVE  /\ draft'.rows = {Updated(r, st.arg) : r \in draft.rows} /\ db' = db /\ st.op = "update_row"
           /\ IsDb(draft)'
           /\ \A r \in draft.rows :
                 /\ Updated(r, st.arg).ip = r.ip /\ Updated(r, st.arg).type = r.type
                 /\ IF r.ip = st.arg.ip /\ r.type = st.arg.type
                    THEN /\ Updated(r, st.arg).pos = st.arg.pos
                         /\ Updated(r, st.arg).used = r.used \cup st.arg.used
                    ELSE Updated(r, st.arg) = r
<1>1. /\ draft' = [draft EXCEPT !.rows = {Updated(r, st.arg) : r \in @}]
      /\ db' = db /\ st.op = "update_row"
  BY DEF UpdateRow, Write, In, Updated
<1>2. draft'.rows = {Updated(r, st.arg) : r \in draft.rows}
  BY <1>1 DEF IsDb
<1>3. ASSUME NEW r \in draft.rows
      PROVE  /\ Updated(r, st.arg).ip = r.ip /\ Updated(r, st.arg).type = r.type
             /\ IsRow(Updated(r, st.arg))
             /\ IF r.ip = st.arg.ip /\ r.type = st.arg.type
                THEN /\ Updated(r, st.arg).pos = st.arg.pos
                     /\ Updated(r, st.arg).used = r.used \cup st.arg.used
                ELSE Updated(r, st.arg) = r
  <2>1. r = [id |-> r.id, ip |-> r.ip, type |-> r.type, pos |-> r.pos, used |-> r.used]
    BY DEF IsDb, IsRow
  <2>2. CASE r.ip = st.arg.ip /\ r.type = st.arg.type
    <3>1. Updated(r, st.arg) = [id |-> r.id, ip |-> r.ip, type |-> r.type, pos |-> st.arg.pos,
                                used |-> r.used \cup st.arg.used]
      BY <2>1, <2>2 DEF Updated
    <3> HIDE DEF Updated
    <3> QED
      BY <2>2, <3>1 DEF IsRow
  <2>3. CASE ~(r.ip = st.arg.ip /\ r.type = st.arg.type)
    <3>1. Updated(r, st.arg) = r
      BY <2>3, Zenon DEF Updated
    <3> QED
      BY <2>1, <2>3, <3>1 DEF IsRow
  <2> QED
    BY <2>2, <2>3
<1>4. IsDb(draft)'
  <2>1. \A r \in draft'.rows : IsRow(r)
    BY <1>2, <1>3
  <2>2. PICK rows : draft' = [draft EXCEPT !.rows = rows]
    BY <1>1
  <2> QED
    BY <2>1, <2>2 DEF IsDb, IsRow
<1> QED
  BY <1>1, <1>2, <1>3, <1>4

LEMMA OnceUpdated ==
    ASSUME TypeOK, OnceInv, NEW st \in Upcoming, Runs(st), UpdateRow(st)
    PROVE  OnceInv'
<1> DEFINE U(r) == Updated(r, st.arg)
<1>1. /\ draft'.rows = {U(r) : r \in draft.rows} /\ db' = db /\ st.op = "update_row"
      /\ IsDb(draft)'
      /\ \A r \in draft.rows : U(r).ip = r.ip /\ U(r).type = r.type
      /\ change' = change /\ standing' = standing /\ keyed' = keyed /\ repeated' = repeated
  BY UpdatedIs DEF OnceInv, Runs, past
<1>2. OneOwner' /\ Underway'
  BY <1>1 DEF Runs, OnceInv, OneOwner, Underway, Stands
<1>3. /\ Statements' = Statements /\ pc \in 1..Len(Statements) /\ st = Statements[pc]
      /\ Ahead("insert_row")' = Ahead("insert_row")
      /\ change.config \in Config /\ change.op \in {"add", "remove"}
  BY <1>1, AheadMoves DEF Runs
<1>4. change.op = "add"
  BY <1>1, <1>3, OpsOfChange DEF RemoveOps
<1> HIDE DEF U
<1>5. Owned(db)' /\ Once(db)' /\ IsDb(db)' /\ NotYet(db)'
  BY <1>1, <1>3, SetsUpIs DEF OnceInv, Owned, Once, Stands, IsDb, IsRow, NotYet, RowsFor
<1>6. Owned(draft)'
  BY <1>1, SetsUpIs DEF OnceInv, Owned, Stands
<1>7. Once(draft)'
  BY <1>1 DEF OnceInv, Once
<1>8. NotYet(draft)'
  BY <1>1, <1>3 DEF OnceInv, NotYet, RowsFor
<1>9. ToDelete' /\ ToCommit'
  BY <1>1, <1>4 DEF ToDelete, ToCommit
<1> QED
  BY <1>1, <1>2, <1>5, <1>6, <1>7, <1>8, <1>9 DEF OnceInv

LEMMA OnceDeleted ==
    ASSUME TypeOK, OnceInv, NEW st \in Upcoming, Runs(st), DeleteRows(st)
    PROVE  OnceInv'
<1>1. /\ draft'.rows = draft.rows \ {r \in draft.rows : r.ip = st.arg}
      /\ db' = db /\ st.op = "delete_rows" /\ change' = change /\ standing' = standing
      /\ IsDb(draft)' /\ keyed' = keyed /\ repeated' = repeated
  <2>1. PICK gone : draft' = [draft EXCEPT !.rows = @ \ {r \in draft.rows : r.ip = st.arg}, !.gone = gone]
    BY DEF DeleteRows, Write, In, OnceInv, IsDb
  <2>2. draft'.rows = draft.rows \ {r \in draft.rows : r.ip = st.arg}
    BY <2>1 DEF OnceInv, IsDb
  <2>3. IsDb(draft)'
    BY <2>1, <2>2 DEF OnceInv, IsDb, IsRow
  <2> QED
    BY <2>2, <2>3 DEF Runs, DeleteRows, Write, In, past
<1>2. OneOwner' /\ Underway'
  BY <1>1 DEF Runs, OnceInv, OneOwner, Underway, Stands
<1>3. /\ Statements' = Statements /\ pc \in 1..Len(Statements) /\ st = Statements[pc]
      /\ Ahead("insert_row")' = Ahead("insert_row") /\ Ahead("commit")' = Ahead("commit")
      /\ Ahead("delete_rows")' = Ahead("delete_rows") \ {pc}
  BY <1>1, AheadMoves DEF Runs
<1>4. Owned(db)' /\ Once(db)' /\ IsDb(db)' /\ NotYet(db)' /\ ToCommit'
  BY <1>1, <1>3, SetsUpIs
  DEF OnceInv, Owned, Once, Stands, IsDb, IsRow, NotYet, ToCommit, RowsFor, Owns, Uses, Skips
<1>5. Owned(draft)' /\ Once(draft)' /\ NotYet(draft)'
  BY <1>1, <1>3, SetsUpIs DEF OnceInv, Owned, Once, Stands, NotYet, RowsFor
<1>6. ToDelete'
  BY <1>1, <1>3 DEF OnceInv, ToDelete, Owns, Uses, Skips
<1> QED
  BY <1>1, <1>2, <1>4, <1>5, <1>6 DEF OnceInv

LEMMA OnceCommitted ==
    ASSUME TypeOK, OnceInv, NEW st \in Upcoming, Runs(st), Commit(st)
    PROVE  OnceInv'
<1>1. /\ draft' = draft /\ db' = draft /\ st.op = "commit"
      /\ change' = change /\ standing' = standing /\ keyed' = keyed /\ repeated' = repeated
  BY DEF Commit, In, Runs, past
<1>2. OneOwner' /\ Underway'
  BY <1>1 DEF Runs, OnceInv, OneOwner, Underway, Stands
<1>3. /\ Statements' = Statements /\ pc \in 1..Len(Statements) /\ st = Statements[pc]
      /\ Ahead("insert_row")' = Ahead("insert_row") /\ Ahead("commit")' = Ahead("commit") \ {pc}
      /\ Ahead("delete_rows")' = Ahead("delete_rows") /\ Len(Statements) \in Nat
  BY <1>1, AheadMoves DEF Runs
<1>4. /\ Owned(db)' /\ Once(db)' /\ IsDb(db)' /\ NotYet(db)'
      /\ Owned(draft)' /\ Once(draft)' /\ IsDb(draft)' /\ NotYet(draft)' /\ ToDelete'
  BY <1>1, <1>3, SetsUpIs
  DEF OnceInv, Owned, Once, Stands, IsDb, IsRow, NotYet, ToDelete, RowsFor, Owns, Uses, Skips
<1>5. ToCommit'
  <2> SUFFICES ASSUME change.op = "remove", NEW r \in draft.rows, r.ip \in Owns(change.config)
               PROVE  Ahead("commit") \ {pc} # {}
    BY <1>1, <1>3 DEF ToCommit, Owns, Uses, Skips
  <2>1. PICK q \in Ahead("delete_rows") : TRUE
    BY DEF OnceInv, ToDelete
  <2>2. q \in 1..Len(Statements) /\ Statements[q].op = "delete_rows" /\ pc <= q /\ q # pc
    BY <1>1, <1>3, <2>1 DEF Ahead
  <2>3. PICK k \in (q + 1)..Len(Statements) : Statements[k].op = "commit"
    BY <2>2, OrderedNow DEF Ordered, RemovesAll
  <2>4. k \in 1..Len(Statements) /\ k >= pc /\ k # pc
    BY <1>3, <2>2
  <2> QED
    BY <2>3, <2>4 DEF Ahead
<1> QED
  BY <1>2, <1>4, <1>5 DEF OnceInv

\* Without a change there is nothing ahead.
LEMMA NothingAhead ==
    ASSUME NEW d, change = NoChange
    PROVE  NotYet(d) /\ ToDelete /\ ToCommit
  BY DEF NoChange, NotYet, ToDelete, ToCommit

LEMMA OnceBroken ==
    ASSUME OnceInv, Breaks
    PROVE  OnceInv'
<1>1. /\ change' = NoChange /\ draft' = db' /\ standing' = standing
      /\ keyed' = keyed /\ repeated' = repeated
      /\ db' = db \/ db' = draft
  BY DEF Breaks, Closes, past
<1>2. OneOwner' /\ Underway'
  BY <1>1 DEF OnceInv, OneOwner, Underway, Stands, Owns, Uses, Skips
<1>3. Owned(db)' /\ Once(db)' /\ IsDb(db)'
  <2>1. CASE db' = db
    BY <1>1, <2>1, SetsUpIs DEF OnceInv, Owned, Once, Stands, IsDb, IsRow
  <2>2. CASE db' = draft
    BY <1>1, <2>2, SetsUpIs DEF OnceInv, Owned, Once, Stands, IsDb, IsRow
  <2> QED
    BY <1>1, <2>1, <2>2
<1>4. Owned(draft)' /\ Once(draft)' /\ IsDb(draft)'
  BY <1>1, <1>3 DEF Owned, Once, IsDb, IsRow
<1>5. NotYet(db)' /\ NotYet(draft)' /\ ToDelete' /\ ToCommit'
  BY <1>1 DEF NoChange, NotYet, ToDelete, ToCommit
<1> QED
  BY <1>2, <1>3, <1>4, <1>5 DEF OnceInv

LEMMA OnceSettled ==
    ASSUME TypeOK, OnceInv, NEW x, Settles(x)
    PROVE  OnceInv'
<1> DEFINE c == change.config
<1>1. /\ change # NoChange /\ change' = NoChange /\ draft' = db /\ db' = db
      /\ standing' = [standing EXCEPT ![c] = x] /\ keyed' = keyed /\ repeated' = repeated
  BY DEF Settles, Closes, past
<1>2. c \in Config /\ standing \in [Config -> {"out", "in", "unsure"}] /\ standing[c] = "unsure"
  BY <1>1, Running DEF TypeOK, OnceInv, Underway
<1>3. \A o \in Config : Stands(o)' => Stands(o)
  BY <1>1, <1>2 DEF Stands
<1>4. OneOwner' /\ Underway'
  <2>1. OneOwner'
    BY <1>3 DEF OnceInv, OneOwner, Owns, Uses, Skips
  <2> QED
    BY <1>1, <2>1 DEF Underway
<1>5. Once(db)' /\ IsDb(db)' /\ Once(draft)' /\ IsDb(draft)'
  BY <1>1 DEF OnceInv, Once, IsDb, IsRow
<1>6. ASSUME NEW r \in db.rows, NEW o \in Config, Stands(o), r.ip \in Owns(o) PROVE Stands(o)'
  <2>1. CASE o # c
    BY <1>1, <1>2, <1>6, <2>1 DEF Stands
  <2>2. CASE o = c /\ x # "out"
    BY <1>1, <1>2, <2>2 DEF Stands
  <2>3. CASE o = c /\ x = "out"
    BY <1>6, <2>3 DEF Settles, OnceInv, ToCommit
  <2> QED
    BY <2>1, <2>2, <2>3
<1>7. Owned(db)' /\ Owned(draft)'
  <2> SUFFICES ASSUME NEW r \in db.rows
               PROVE  \E o \in Config : Stands(o)' /\ SetsUp(o, r.ip, r.type)
    BY <1>1, SetsUpIs DEF Owned
  <2>1. PICK o \in Config : Stands(o) /\ SetsUp(o, r.ip, r.type)
    BY DEF OnceInv, Owned
  <2> QED
    BY <1>6, <2>1, SetsUpIs
<1>8. NotYet(db)' /\ NotYet(draft)' /\ ToDelete' /\ ToCommit'
  BY <1>1 DEF NoChange, NotYet, ToDelete, ToCommit
<1> QED
  BY <1>4, <1>5, <1>7, <1>8 DEF OnceInv

\* An installation makes rows only for machines that it sets up itself.
LEMMA IssuedOwns ==
    (TypeOK /\ change.op = "add" =>
        \A q \in 1..Len(Statements) : Statements[q].op = "insert_row" =>
            Statements[q].arg.ip \in Owns(change.config))'
<1>1. TypeOK /\ change.op = "add" =>
        \A q \in 1..Len(Statements) : Statements[q].op = "insert_row" =>
            Statements[q].arg.ip \in Owns(change.config)
  BY RowStmtIs DEF RowOps
<1> QED
  BY <1>1, PTL

LEMMA OnceIssuedAdd ==
    ASSUME TypeOK, TypeOK', OnceInv, NEW c \in Config, IssueAdd(c)
    PROVE  OnceInv'
<1>1. /\ change = NoChange /\ draft = db /\ draft' = draft /\ db'.rows = db.rows /\ pc' = 1
      /\ change' = [config |-> c, op |-> "add"]
      /\ standing' = [standing EXCEPT ![c] = "unsure"]
      /\ standing \in [Config -> {"out", "in", "unsure"}]
  BY DEF IssueAdd, Issue, TypeOK, OnceInv, IsDb
<1>2. \A o \in Config \ {c} : Stands(o) => Owns(o) \cap Owns(c) = {}
  BY DEF IssueAdd, MayAdd, Stands
<1>3. \A o \in Config : Stands(o)' <=> Stands(o) \/ o = c
  BY <1>1 DEF Stands
<1>4. OneOwner' /\ Underway'
  <2>1. OneOwner'
    BY <1>2, <1>3 DEF OnceInv, OneOwner, Owns, Uses, Skips
  <2> QED
    BY <1>1, <2>1 DEF Underway
<1>5. IsDb(db)' /\ IsDb(draft)'
  BY <1>1 DEF IssueAdd, OnceInv, IsDb, IsRow
<1>6. keyed' = keyed /\ (~repeated' => ~repeated /\ (Stands(c) => \A r \in db.rows : r.ip \notin Owns(c)))
  <2>1. repeated' = (repeated \/ /\ standing[c] # "out"
                                 /\ \E r \in db.rows : r.ip \in Owns(c))
    BY DEF IssueAdd
  <2> QED
    BY <2>1, Zenon DEF IssueAdd, Issue, Stands
<1>7. Once(db)' /\ Once(draft)' /\ Owned(db)' /\ Owned(draft)'
  BY <1>1, <1>3, <1>6, SetsUpIs DEF OnceInv, Once, Owned
<1>8. ~repeated' => \A r \in db.rows : r.ip \notin Owns(c)
  <2> SUFFICES ASSUME ~repeated', ~Stands(c), NEW r \in db.rows PROVE r.ip \notin Owns(c)
    BY <1>6
  <2>1. PICK o \in Config : Stands(o) /\ SetsUp(o, r.ip, r.type)
    BY DEF OnceInv, Owned
  <2>2. o # c /\ r.ip \in Owns(o)
    BY <2>1, SetsUpIs
  <2> QED
    BY <1>2, <2>1, <2>2
<1>9. NotYet(db)' /\ NotYet(draft)'
  <2>1. (TypeOK /\ change.op = "add" =>
            \A q \in 1..Len(Statements) : Statements[q].op = "insert_row" =>
                Statements[q].arg.ip \in Owns(change.config))'
    BY IssuedOwns
  <2>2. \A q \in 1..Len(Statements') :
           Statements'[q].op = "insert_row" => Statements'[q].arg.ip \in Owns(c)
    BY <1>1, <2>1 DEF Owns, Uses, Skips
  <2> QED
    BY <1>1, <1>8, <2>2 DEF NotYet, Ahead, RowsFor
<1>10. ToDelete' /\ ToCommit'
  BY <1>1 DEF ToDelete, ToCommit
<1> QED
  BY <1>4, <1>5, <1>7, <1>9, <1>10 DEF OnceInv

LEMMA OnceIssuedRemove ==
    ASSUME TypeOK, TypeOK', OnceInv, NEW c \in Config, IssueRemove(c)
    PROVE  OnceInv'
<1>1. /\ change = NoChange /\ draft = db /\ draft' = draft /\ db' = db /\ pc' = 1
      /\ change' = [config |-> c, op |-> "remove"]
      /\ standing' = [standing EXCEPT ![c] = "unsure"]
      /\ standing \in [Config -> {"out", "in", "unsure"}]
      /\ standing[c] # "out" /\ keyed' = keyed /\ repeated' = repeated
  BY DEF IssueRemove, Issue, TypeOK, MayRemove, past
<1>2. \A o \in Config : Stands(o)' <=> Stands(o)
  BY <1>1 DEF Stands
<1>3. OneOwner' /\ Underway'
  <2>1. OneOwner'
    BY <1>2 DEF OnceInv, OneOwner, Owns, Uses, Skips
  <2> QED
    BY <1>1, <2>1 DEF Underway
<1>4. /\ IsDb(db)' /\ IsDb(draft)' /\ Once(db)' /\ Once(draft)' /\ Owned(db)' /\ Owned(draft)'
  BY <1>1, <1>2, SetsUpIs DEF OnceInv, IsDb, IsRow, Once, Owned
<1>5. NotYet(db)' /\ NotYet(draft)'
  BY <1>1 DEF NotYet
<1>6. PICK s : s = Statements'
  OBVIOUS
<1>7. \A m \in Owns(c) : \E q \in 1..Len(s) :
         /\ s[q].op = "delete_rows" /\ s[q].arg = m /\ q >= 1
         /\ \E k \in (q + 1)..Len(s) : s[k].op = "commit"
  <2>1. (change.op = "remove" => RemovesAll(change.config, Statements))'
    BY OrderedNext DEF Ordered
  <2>2. \A m \in Owns(c) : \E q \in 1..Len(s) : s[q] = Stmt("delete_rows", m)
    BY <1>1, <1>6, <2>1 DEF RemovesAll, Owns, Uses, Skips
  <2>3. \A q \in 1..Len(s) : s[q].op = "delete_rows" => \E k \in (q + 1)..Len(s) : s[k].op = "commit"
    BY <1>1, <1>6, <2>1 DEF RemovesAll
  <2>4. \A m : Stmt("delete_rows", m).op = "delete_rows" /\ Stmt("delete_rows", m).arg = m
    BY DEF Stmt
  <2> QED
    BY <2>2, <2>3, <2>4
<1>8. ToDelete'
  <2>1. Ahead("delete_rows")' = {q \in 1..Len(s) : q >= 1 /\ s[q].op = "delete_rows"}
    BY <1>1, <1>6 DEF Ahead
  <2>2. \A m \in Owns(c) : \E q \in Ahead("delete_rows")' : s[q].arg = m
    BY <1>7, <2>1
  <2> QED
    BY <1>1, <1>6, <2>2 DEF ToDelete, Owns, Uses, Skips
<1>9. ToCommit'
  <2>1. \A m \in Owns(c) : \E k \in 1..Len(s) : k >= 1 /\ s[k].op = "commit"
    <3> TAKE m \in Owns(c)
    <3>1. PICK q \in 1..Len(s) : \E k \in (q + 1)..Len(s) : s[k].op = "commit"
      BY <1>7
    <3>2. PICK k \in (q + 1)..Len(s) : s[k].op = "commit"
      BY <3>1
    <3>3. k \in 1..Len(s) /\ k >= 1
      BY <3>2
    <3> QED
      BY <3>2, <3>3
  <2> QED
    BY <1>1, <1>6, <2>1 DEF ToCommit, Ahead, Owns, Uses, Skips
<1> QED
  BY <1>3, <1>4, <1>5, <1>8, <1>9 DEF OnceInv

LEMMA OnceShardRemoved ==
    ASSUME TypeOK, OnceInv, NEW c \in Config, RemoveShard(c)
    PROVE  OnceInv'
<1>1. /\ change = NoChange /\ change' = change /\ db' = Empty /\ draft' = Empty
      /\ standing' = [standing EXCEPT ![c] = "out"] /\ standing \in [Config -> {"out", "in", "unsure"}]
  BY DEF RemoveShard, TypeOK
<1>2. OneOwner'
  BY <1>1 DEF OnceInv, OneOwner, Stands, Owns, Uses, Skips
<1>3. Underway' /\ NotYet(db)' /\ NotYet(draft)' /\ ToDelete' /\ ToCommit'
  BY <1>1 DEF Underway, NotYet, ToDelete, ToCommit, NoChange
<1>4. db'.rows = {} /\ draft'.rows = {} /\ IsDb(db)' /\ IsDb(draft)'
  BY <1>1 DEF Empty, IsDb
<1>5. Owned(db)' /\ Owned(draft)' /\ Once(db)' /\ Once(draft)'
  BY <1>4 DEF Owned, Once
<1> QED
  BY <1>2, <1>3, <1>4, <1>5 DEF OnceInv

\* What a cluster manager makes of a row, and of a database.
Given(r) == [r EXCEPT !.pos = @ + 1, !.used = @ \cup {<<r.pos, "manager">>}]
Giving(d, r) == IF r \in d.rows THEN (d.rows \ {r}) \cup {Given(r)} ELSE d.rows

LEMMA GivenIs ==
    ASSUME IsDb(db), IsDb(draft), NEW r \in db.rows, Allocate(r)
    PROVE  /\ db'.rows = Giving(db, r) /\ draft'.rows = Giving(draft, r)
           /\ IsDb(db)' /\ IsDb(draft)'
           /\ Given(r).ip = r.ip /\ Given(r).type = r.type /\ Given(r).pos = r.pos + 1
           /\ Given(r).used = r.used \cup {<<r.pos, "manager">>}
           /\ change' = change /\ plans' = plans /\ pc' = pc /\ standing' = standing
           /\ Statements' = Statements /\ keyed' = keyed /\ repeated' = repeated
<1>1. IsRow(r)
  BY DEF IsDb
<1>2. Given(r) = [id |-> r.id, ip |-> r.ip, type |-> r.type, pos |-> r.pos + 1,
                  used |-> r.used \cup {<<r.pos, "manager">>}]
  <2> DEFINE s == Given(r)
  <2>1. s = [r EXCEPT !.pos = r.pos + 1, !.used = r.used \cup {<<r.pos, "manager">>}]
    BY DEF Given
  <2> HIDE DEF s
  <2> QED
    BY <1>1, <2>1 DEF IsRow, s
<1>3. /\ db' = [db EXCEPT !.rows = IF r \in @ THEN (@ \ {r}) \cup {Given(r)} ELSE @]
      /\ draft' = [draft EXCEPT !.rows = IF r \in @ THEN (@ \ {r}) \cup {Given(r)} ELSE @]
      /\ change' = change /\ plans' = plans /\ pc' = pc /\ standing' = standing
      /\ keyed' = keyed /\ repeated' = repeated
  BY DEF Allocate, Given
<1> HIDE DEF Given
<1>4. /\ Given(r).ip = r.ip /\ Given(r).type = r.type /\ Given(r).pos = r.pos + 1
      /\ Given(r).used = r.used \cup {<<r.pos, "manager">>} /\ IsRow(Given(r))
  BY <1>2 DEF IsRow
<1>5. db'.rows = Giving(db, r) /\ draft'.rows = Giving(draft, r)
  BY <1>3 DEF IsDb, Giving
<1>6. IsDb(db)'
  BY <1>3, <1>4, <1>5 DEF IsDb, Giving, IsRow
<1>7. IsDb(draft)'
  BY <1>3, <1>4, <1>5 DEF IsDb, Giving, IsRow
<1> QED
  BY <1>3, <1>4, <1>5, <1>6, <1>7, SameStatements

LEMMA OnceGiven ==
    ASSUME TypeOK, OnceInv, NEW r \in db.rows, Allocate(r)
    PROVE  OnceInv'
<1> DEFINE s == Given(r)
<1>1. /\ db'.rows = Giving(db, r) /\ draft'.rows = Giving(draft, r)
      /\ IsDb(db)' /\ IsDb(draft)' /\ s.ip = r.ip /\ s.type = r.type
      /\ change' = change /\ pc' = pc /\ standing' = standing /\ Statements' = Statements
      /\ keyed' = keyed /\ repeated' = repeated
  BY GivenIs DEF OnceInv
<1>2. OneOwner' /\ Underway'
  BY <1>1 DEF OnceInv, OneOwner, Underway, Stands, Owns, Uses, Skips
<1> HIDE DEF s
<1>3. Giving(db, r) = (db.rows \ {r}) \cup {s}
      /\ \/ r \in draft.rows /\ Giving(draft, r) = (draft.rows \ {r}) \cup {s}
         \/ Giving(draft, r) = draft.rows
  BY DEF Giving, s
<1>4. Owned(db)' /\ Once(db)' /\ NotYet(db)' /\ ToCommit'
  BY <1>1, <1>3, SetsUpIs
  DEF OnceInv, Owned, Once, NotYet, ToCommit, Stands, RowsFor, Ahead, Owns, Uses, Skips
<1>5. CASE draft'.rows = (draft.rows \ {r}) \cup {s} /\ r \in draft.rows
  <2>1. Owned(draft)' /\ Once(draft)' /\ NotYet(draft)' /\ ToDelete'
    BY <1>1, <1>5, SetsUpIs
    DEF OnceInv, Owned, Once, NotYet, ToDelete, Stands, RowsFor, Ahead, Owns, Uses, Skips
  <2> QED
    BY <1>1, <1>2, <1>4, <2>1 DEF OnceInv
<1>6. CASE draft'.rows = draft.rows
  <2>1. Owned(draft)' /\ Once(draft)' /\ NotYet(draft)' /\ ToDelete'
    BY <1>1, <1>6, SetsUpIs
    DEF OnceInv, Owned, Once, NotYet, ToDelete, Stands, RowsFor, Ahead, Owns, Uses, Skips
  <2> QED
    BY <1>1, <1>2, <1>4, <2>1 DEF OnceInv
<1> QED
  BY <1>1, <1>3, <1>5, <1>6

LEMMA OnceStays ==
    ASSUME OnceInv, UNCHANGED vars
    PROVE  OnceInv'
<1>1. /\ db' = db /\ draft' = draft /\ change' = change /\ pc' = pc /\ standing' = standing
      /\ Statements' = Statements /\ keyed' = keyed /\ repeated' = repeated
  BY SameStatements DEF vars, work, past
<1>2. OneOwner' /\ Underway' /\ Owned(db)' /\ Owned(draft)' /\ Once(db)' /\ Once(draft)'
  BY <1>1, SetsUpIs DEF OnceInv, OneOwner, Underway, Owned, Once, Stands, Owns, Uses, Skips
<1>3. Ahead("insert_row")' = Ahead("insert_row") /\ Ahead("delete_rows")' = Ahead("delete_rows")
      /\ Ahead("commit")' = Ahead("commit")
  BY <1>1 DEF Ahead
<1>4. NotYet(db)' /\ NotYet(draft)' /\ ToDelete' /\ ToCommit'
  BY <1>1, <1>3 DEF OnceInv, NotYet, ToDelete, ToCommit, RowsFor, Owns, Uses, Skips
<1> QED
  BY <1>1, <1>2, <1>4 DEF OnceInv, IsDb, IsRow

LEMMA OnceStep ==
    ASSUME TypeOK, TypeOK', OnceInv, [Next]_vars
    PROVE  OnceInv'
  BY Kinds, OnceKept, OnceBack, OnceInserted, OnceUpdated, OnceDeleted, OnceCommitted, OnceBroken,
     OnceSettled, OnceIssuedAdd, OnceIssuedRemove, OnceShardRemoved, OnceGiven, OnceStays

-----------------------------------------------------------------------------
(* PortsRecorded.                                                          *)

LEMMA SameWanted == \A c, i : Wanted(c, i)' = Wanted(c, i)
  BY DEF Wanted, Fresh, More, Nodes, TypesOf, ToSet

LEMMA SamePlan ==
    ASSUME NEW c, plans'[c] = plans[c], NEW i, NEW t
    PROVE  RowStmt(c, i, t)' = RowStmt(c, i, t) /\ Wanted(c, i)' = Wanted(c, i)
<1>1. RowOf(c, i, t)' = RowOf(c, i, t)
  BY DEF RowOf
<1>2. Stmt("insert_row", RowOf(c, i, t))' = Stmt("insert_row", RowOf(c, i, t))
      /\ Stmt("update_row", RowOf(c, i, t))' = Stmt("update_row", RowOf(c, i, t))
  BY <1>1 DEF Stmt
<1>3. RowStmt(c, i, t)' = RowStmt(c, i, t)
  BY <1>2 DEF RowStmt, Nodes, Stmt
<1> QED
  BY <1>3, SameWanted

\* The row that the running installation is to have for the ports of type t.
LEMMA PlannedRow ==
    ASSUME TypeOK, PlansTyped, change.op = "add", NEW i \in DOMAIN Nodes(change.config), NEW t \in Types
    PROVE  LET c == change.config
               start == plans[c][i][t].start  count == Nodes(c)[i].ports[t] IN
           /\ start \in Nat /\ count \in Nat
           /\ RowOf(c, i, t).pos = start + count /\ RowOf(c, i, t).pos \in Nat
           /\ RowOf(c, i, t).used = {<<port, c>> : port \in start..(start + count - 1)}
           /\ ~Nodes(c)[i].skip => RowOf(c, i, t).used = Own(c, i, t)
<1> DEFINE c == change.config
<1>1. c \in Config
  BY DEF TypeOK, NoChange
<1>2. Nodes(c)[i] \in NodemgrType
  BY <1>1, ContentTyped
<1>3. Nodes(c)[i].ports[t] \in Nat
  BY <1>2 DEF NodemgrType
<1>4. /\ plans[c][i][t].start \in Nat /\ plans[c][i][t].count = Nodes(c)[i].ports[t]
      /\ ~Nodes(c)[i].skip => plans[c][i][t].start = First
  BY DEF PlansTyped
<1>5. /\ RowOf(c, i, t).pos = plans[c][i][t].start + plans[c][i][t].count
      /\ RowOf(c, i, t).used = {<<port, c>> :
            port \in plans[c][i][t].start..(plans[c][i][t].start + plans[c][i][t].count - 1)}
  BY DEF RowOf
<1>6. ~Nodes(c)[i].skip => RowOf(c, i, t).used = Own(c, i, t)
  BY <1>4, <1>5 DEF Own
<1> QED
  BY <1>3, <1>4, <1>5, <1>6

\* Rows that have more ports than before record no less.
LEMMA MoreRecorded ==
    ASSUME NEW d, NEW e,
           \A r \in e.rows : \E s \in d.rows : s.ip = r.ip /\ s.type = r.type /\ s.used \subseteq r.used,
           \A s \in d.rows : \E r \in e.rows : s.ip = r.ip /\ s.type = r.type
    PROVE  \A st : Recorded(d, st) => Recorded(e, st)
<1> SUFFICES ASSUME NEW st, Recorded(d, st) PROVE Recorded(e, st)
  OBVIOUS
<1>1. \A r \in RowsFor(e, st.arg.ip, st.arg.type) : st.arg.used \subseteq r.used
  BY DEF Recorded, RowsFor
<1>2. RowsFor(d, st.arg.ip, st.arg.type) # {} => RowsFor(e, st.arg.ip, st.arg.type) # {}
  BY DEF RowsFor
<1> QED
  BY <1>1, <1>2 DEF Recorded

LEMMA OwnNext ==
    ASSUME \A c \in Config : Stands(c)' => HasOwn(c, db'.rows \cup draft'.rows)
    PROVE  OwnPorts'
  BY DEF OwnPorts, HasOwn, Own, Nodes

\* Nobody gets a machine, and the ports stay in the rows.
LEMMA OwnKept ==
    ASSUME OwnPorts, \A c \in Config : Stands(c)' => Stands(c),
           \A r \in db'.rows \cup draft'.rows : \E s \in db.rows \cup draft.rows :
               s.ip = r.ip /\ s.type = r.type /\ s.used \subseteq r.used
    PROVE  OwnPorts'
<1>1. ASSUME NEW c \in Config, Stands(c)' PROVE HasOwn(c, db'.rows \cup draft'.rows)
  <2>1. HasOwn(c, db.rows \cup draft.rows)
    BY <1>1 DEF OwnPorts
  <2> QED
    BY <2>1 DEF HasOwn
<1> QED
  BY <1>1, OwnNext

LEMMA WantedOwns ==
    ASSUME NEW c \in Config, NEW i \in DOMAIN Nodes(c), NEW t \in Wanted(c, i),
           RowStmt(c, i, t).op = "insert_row"
    PROVE  Nodes(c)[i].ip \in Owns(c)
<1>1. ~Nodes(c)[i].skip
  BY DEF RowStmt, Stmt
<1> QED
  BY <1>1, OwnElement

\* A clean deletes rows of machines that its configuration set up.
LEMMA DeletesOwn ==
    ASSUME TypeOK, change.op = "remove", NEW q \in 1..Len(Statements),
           Statements[q].op = "delete_rows"
    PROVE  Statements[q].arg \in Owns(change.config)
  BY OrderedNow DEF Ordered, RemovesAll

\* What a statement leaves alone.
LEMMA RecordRuns ==
    ASSUME RecordInv, NEW st, Runs(st)
    PROVE  /\ SkipsOwned' /\ PlansTyped'
           /\ \A c \in Config : Stands(c)' => Stands(c)
           /\ AllRecorded(db) => \A c \in Config : standing'[c] = "in" =>
                 \A i \in DOMAIN Nodes(c) : \A t \in Wanted(c, i)' : Recorded(db, RowStmt(c, i, t)')
           /\ AllRecorded(draft) => \A c \in Config : standing'[c] = "in" =>
                 \A i \in DOMAIN Nodes(c) : \A t \in Wanted(c, i)' : Recorded(draft, RowStmt(c, i, t)')
<1>1. change' = change /\ plans' = plans /\ standing' = standing
  BY DEF Runs
<1>2. SkipsOwned'
  BY <1>1 DEF RecordInv, SkipsOwned, Stands, Skips, Owns, Uses
<1>3. PlansTyped'
  BY <1>1 DEF RecordInv, PlansTyped, Nodes
<1>4. \A c, i, t : RowStmt(c, i, t)' = RowStmt(c, i, t) /\ Wanted(c, i)' = Wanted(c, i)
  BY <1>1, SamePlan
<1> QED
  BY <1>1, <1>2, <1>3, <1>4 DEF AllRecorded, Stands

\* What was committed of the statements stays so while there is no new commit.
LEMMA CommittedStays ==
    ASSUME TypeOK, RecordInv, NEW st \in Upcoming, Runs(st), st.op # "commit", db' = db
    PROVE  /\ RunInDb' /\ AllRecorded(db)' /\ Counted(db)'
<1>1. /\ Statements' = Statements /\ change' = change /\ pc' = pc + 1
      /\ pc \in 1..Len(Statements) /\ st = Statements[pc] /\ Len(Statements) \in Nat
  BY AheadMoves DEF Runs
<1>2. RunInDb'
  <2> SUFFICES ASSUME change.op = "add", NEW q \in 1..Len(Statements), Statements[q].op \in RowOps,
                      NEW k \in (q + 1)..pc, Statements[k].op = "commit"
               PROVE  Recorded(db, Statements[q])
    BY <1>1 DEF RunInDb, Recorded, RowsFor
  <2>1. k # pc
    BY <1>1
  <2>2. k \in (q + 1)..(pc - 1)
    BY <1>1, <2>1
  <2> QED
    BY <2>2 DEF RecordInv, RunInDb
<1>3. AllRecorded(db)'
  BY RecordRuns DEF RecordInv, AllRecorded, Recorded, RowsFor, Nodes
<1> QED
  BY <1>2, <1>3 DEF RecordInv, Counted

LEMMA RecordKept ==
    ASSUME TypeOK, OnceInv, RecordInv, NEW st \in Upcoming, Keeps(st)
    PROVE  RecordInv'
<1>1. /\ Runs(st) /\ db' = db /\ draft'.rows = draft.rows
      /\ st.op # "commit" /\ st.op \notin RowOps
  BY DEF Keeps, OnceInv
<1>2. RunInDb' /\ AllRecorded(db)' /\ Counted(db)' /\ SkipsOwned' /\ PlansTyped'
  BY <1>1, CommittedStays, RecordRuns
<1>3. /\ Statements' = Statements /\ change' = change /\ pc' = pc + 1
      /\ pc \in 1..Len(Statements) /\ st = Statements[pc] /\ Len(Statements) \in Nat
  BY <1>1, AheadMoves DEF Runs
<1>4. RunInDraft'
  <2> SUFFICES ASSUME change.op = "add", NEW q \in 1..Len(Statements), q < pc + 1,
                      Statements[q].op \in RowOps
               PROVE  Recorded(draft, Statements[q])
    BY <1>1, <1>3 DEF RunInDraft, Recorded, RowsFor
  <2>1. q # pc
    BY <1>1, <1>3
  <2>2. q < pc
    BY <1>3, <2>1
  <2> QED
    BY <2>2 DEF RecordInv, RunInDraft
<1>5. AllRecorded(draft)' /\ Counted(draft)'
  BY <1>1, RecordRuns DEF RecordInv, AllRecorded, Recorded, RowsFor, Nodes, Counted
<1>6. OwnPorts'
  BY <1>1, RecordRuns, OwnKept DEF RecordInv
<1> QED
  BY <1>2, <1>4, <1>5, <1>6 DEF RecordInv

LEMMA RecordBack ==
    ASSUME TypeOK, RecordInv, NEW st \in Upcoming, GoesBack(st)
    PROVE  RecordInv'
<1>1. /\ Runs(st) /\ db' = db /\ draft' = db /\ st.op \in Resets /\ st.op # "commit" /\ st.op \notin RowOps
  BY DEF GoesBack, Resets, RowOps
<1>2. RunInDb' /\ AllRecorded(db)' /\ Counted(db)' /\ SkipsOwned' /\ PlansTyped'
  BY <1>1, CommittedStays, RecordRuns
<1>3. /\ Statements' = Statements /\ change' = change /\ pc' = pc + 1
      /\ pc \in 1..Len(Statements) /\ st = Statements[pc] /\ Len(Statements) \in Nat
  BY <1>1, AheadMoves DEF Runs
<1>4. RunInDraft'
  <2> SUFFICES ASSUME change.op = "add", NEW q \in 1..Len(Statements), q < pc + 1,
                      Statements[q].op \in RowOps
               PROVE  Recorded(db, Statements[q])
    BY <1>1, <1>3 DEF RunInDraft, Recorded, RowsFor
  <2>1. q # pc
    BY <1>1, <1>3
  <2>2. pc \in (q + 1)..(Len(Statements) + 1) /\ Statements[pc].op \in Resets
    BY <1>1, <1>3, <2>1
  <2>3. PICK k \in (q + 1)..(pc - 1) : Statements[k].op = "commit"
    BY <2>2, OrderedNow DEF Ordered, InOrder
  <2> QED
    BY <2>3 DEF RecordInv, RunInDb
<1>5. AllRecorded(draft)' /\ Counted(draft)'
  BY <1>1, <1>2 DEF AllRecorded, Recorded, RowsFor, Counted
<1>6. OwnPorts'
  BY <1>1, RecordRuns, OwnKept DEF RecordInv
<1> QED
  BY <1>2, <1>4, <1>5, <1>6 DEF RecordInv

LEMMA RecordCommitted ==
    ASSUME TypeOK, RecordInv, NEW st \in Upcoming, Runs(st), Commit(st)
    PROVE  RecordInv'
<1>1. draft' = draft /\ db' = draft /\ st.op = "commit" /\ st.op \notin RowOps
  BY DEF Commit, In, RowOps
<1>2. /\ Statements' = Statements /\ change' = change /\ pc' = pc + 1
      /\ pc \in 1..Len(Statements) /\ st = Statements[pc] /\ Len(Statements) \in Nat
  BY AheadMoves DEF Runs
<1>3. SkipsOwned' /\ PlansTyped'
  BY RecordRuns
<1>4. ASSUME change.op = "add", NEW q \in 1..Len(Statements), q < pc + 1, Statements[q].op \in RowOps
      PROVE  Recorded(draft, Statements[q])
  <2>1. q # pc
    BY <1>1, <1>2, <1>4
  <2>2. q < pc
    BY <1>2, <1>4, <2>1
  <2> QED
    BY <1>4, <2>2 DEF RecordInv, RunInDraft
<1>5. RunInDraft'
  BY <1>1, <1>2, <1>4 DEF RunInDraft, Recorded, RowsFor
<1>6. RunInDb'
  <2> SUFFICES ASSUME change.op = "add", NEW q \in 1..Len(Statements), Statements[q].op \in RowOps,
                      NEW k \in (q + 1)..pc
               PROVE  Recorded(draft, Statements[q])
    BY <1>1, <1>2 DEF RunInDb, Recorded, RowsFor
  <2>1. q < pc + 1
    BY <1>2
  <2> QED
    BY <1>4, <2>1
<1>7. AllRecorded(draft)' /\ AllRecorded(db)' /\ Counted(draft)' /\ Counted(db)'
  BY <1>1, RecordRuns DEF RecordInv, AllRecorded, Recorded, RowsFor, Nodes, Counted
<1>8. OwnPorts'
  BY <1>1, RecordRuns, OwnKept DEF RecordInv
<1> QED
  BY <1>3, <1>5, <1>6, <1>7, <1>8 DEF RecordInv

LEMMA RecordUpdated ==
    ASSUME TypeOK, OnceInv, RecordInv, NEW st \in Upcoming, Runs(st), UpdateRow(st)
    PROVE  RecordInv'
<1> DEFINE U(r) == Updated(r, st.arg)
<1>1. /\ draft'.rows = {U(r) : r \in draft.rows} /\ db' = db /\ st.op = "update_row"
      /\ \A r \in draft.rows :
            /\ U(r).ip = r.ip /\ U(r).type = r.type
            /\ IF r.ip = st.arg.ip /\ r.type = st.arg.type
               THEN U(r).pos = st.arg.pos /\ U(r).used = r.used \cup st.arg.used
               ELSE U(r) = r
  BY UpdatedIs DEF OnceInv
<1> HIDE DEF U
<1>2. RunInDb' /\ AllRecorded(db)' /\ Counted(db)' /\ SkipsOwned' /\ PlansTyped'
  BY <1>1, CommittedStays, RecordRuns
<1>3. /\ Statements' = Statements /\ change' = change /\ pc' = pc + 1
      /\ pc \in 1..Len(Statements) /\ st = Statements[pc] /\ Len(Statements) \in Nat
      /\ change.op \in {"add", "remove"}
  BY <1>1, AheadMoves DEF Runs
<1>4. change.op = "add"
  BY <1>1, <1>3, OpsOfChange DEF RemoveOps
<1>5. \A r \in draft'.rows : \E s \in draft.rows : s.ip = r.ip /\ s.type = r.type /\ s.used \subseteq r.used
  BY <1>1
<1>6. \A x : Recorded(draft, x) => Recorded(draft', x)
  <2>1. \A s \in draft.rows : \E r \in draft'.rows : s.ip = r.ip /\ s.type = r.type
    BY <1>1
  <2> QED
    BY <1>5, <2>1, MoreRecorded
<1>7. Recorded(draft', st)
  BY <1>1 DEF Recorded, RowsFor
<1>8. RunInDraft'
  <2> SUFFICES ASSUME NEW q \in 1..Len(Statements), q < pc + 1, Statements[q].op \in RowOps
               PROVE  Recorded(draft', Statements[q])
    BY <1>3, Zenon DEF RunInDraft, Recorded, RowsFor
  <2>1. q = pc \/ q < pc
    BY <1>3
  <2> QED
    BY <1>3, <1>4, <1>6, <1>7, <2>1 DEF RecordInv, RunInDraft
<1>9. AllRecorded(draft)'
  BY <1>6, RecordRuns DEF RecordInv, AllRecorded, Recorded, RowsFor, Nodes
<1>10. Counted(draft)'
  <2>1. st.arg.pos \in Nat
    BY <1>1, <1>3, <1>4, RowStmtIs, PlannedRow DEF RecordInv, RowOps
  <2> QED
    BY <1>1, <2>1 DEF RecordInv, Counted
<1>11. OwnPorts'
  BY <1>1, <1>5, RecordRuns, OwnKept DEF RecordInv
<1> QED
  BY <1>2, <1>8, <1>9, <1>10, <1>11 DEF RecordInv

LEMMA RecordDeleted ==
    ASSUME TypeOK, OnceInv, RecordInv, NEW st \in Upcoming, Runs(st), DeleteRows(st)
    PROVE  RecordInv'
<1> DEFINE c == change.config
<1>1. /\ draft'.rows = draft.rows \ {r \in draft.rows : r.ip = st.arg}
      /\ db' = db /\ st.op = "delete_rows"
  BY DEF DeleteRows, Write, In, OnceInv, IsDb
<1>2. RunInDb' /\ AllRecorded(db)' /\ Counted(db)' /\ SkipsOwned' /\ PlansTyped'
  BY <1>1, CommittedStays, RecordRuns
<1>3. /\ change' = change /\ change.op \in {"add", "remove"} /\ change # NoChange
      /\ plans' = plans /\ standing' = standing
      /\ pc \in 1..Len(Statements) /\ st = Statements[pc]
  BY AheadMoves DEF Runs
<1>4. change.op = "remove"
  BY <1>1, <1>3, OpsOfChange DEF AddOps, RowOps, QuietOps
<1>5. RunInDraft'
  BY <1>3, <1>4 DEF RunInDraft
<1>6. ASSUME NEW o \in Config, standing[o] = "in", NEW i \in DOMAIN Nodes(o), NEW t \in Wanted(o, i),
             RowStmt(o, i, t).op = "insert_row"
      PROVE  Nodes(o)[i].ip # st.arg
  <2>1. c \in Config /\ standing[c] = "unsure" /\ st.arg \in Owns(c)
    BY <1>1, <1>3, <1>4, Running, DeletesOwn DEF OnceInv, Underway
  <2>2. Nodes(o)[i].ip \in Owns(o)
    BY <1>6, WantedOwns
  <2>3. Stands(o) /\ Stands(c) /\ o # c
    BY <1>6, <2>1 DEF Stands
  <2> QED
    BY <2>1, <2>2, <2>3 DEF OnceInv, OneOwner
<1>7. AllRecorded(draft)'
  <2> SUFFICES ASSUME NEW o \in Config, standing[o] = "in", NEW i \in DOMAIN Nodes(o),
                      NEW t \in Wanted(o, i)
               PROVE  Recorded(draft', RowStmt(o, i, t)')
    BY <1>3, SameWanted DEF AllRecorded, Recorded, RowsFor, Nodes
  <2>1. Recorded(draft, RowStmt(o, i, t)) /\ RowStmt(o, i, t)' = RowStmt(o, i, t)
    BY <1>3, SamePlan DEF RecordInv, AllRecorded
  <2>2. PICK x : x = RowStmt(o, i, t)
    OBVIOUS
  <2>3. x.arg.ip = Nodes(o)[i].ip
    BY <2>2, RowOfIs DEF RowStmt, Stmt
  <2>4. x.op = "insert_row" => RowsFor(draft', x.arg.ip, x.arg.type) = RowsFor(draft, x.arg.ip, x.arg.type)
    BY <1>1, <1>6, <2>2, <2>3 DEF RowsFor
  <2> QED
    BY <1>1, <2>1, <2>2, <2>4 DEF Recorded, RowsFor
<1>8. Counted(draft)'
  BY <1>1 DEF RecordInv, Counted
<1>9. OwnPorts'
  BY <1>1, RecordRuns, OwnKept DEF RecordInv
<1> QED
  BY <1>2, <1>5, <1>7, <1>8, <1>9 DEF RecordInv

LEMMA RecordInserted ==
    ASSUME TypeOK, OnceInv, RecordInv, NEW st \in Upcoming, Runs(st), InsertRow(st)
    PROVE  RecordInv'
<1> DEFINE a == st.arg
           c == change.config
           new == [id |-> NextId(draft), ip |-> a.ip, type |-> a.type, pos |-> a.pos, used |-> a.used]
<1>1. /\ db' = db /\ draft' = [draft EXCEPT !.rows = @ \cup {new}] /\ st.op = "insert_row"
      /\ change' = change /\ standing' = standing /\ plans' = plans
  BY DEF InsertRow, Write, In, Runs
<1>2. new.ip = a.ip /\ new.type = a.type /\ new.pos = a.pos /\ new.used = a.used
  OBVIOUS
<1> HIDE DEF new
<1>3. draft'.rows = draft.rows \cup {new}
  BY <1>1 DEF OnceInv, IsDb
<1>4. RunInDb' /\ AllRecorded(db)' /\ Counted(db)' /\ SkipsOwned' /\ PlansTyped'
  BY <1>1, CommittedStays, RecordRuns
<1>5. /\ Statements' = Statements /\ pc' = pc + 1
      /\ pc \in 1..Len(Statements) /\ st = Statements[pc] /\ Len(Statements) \in Nat
      /\ c \in Config /\ change.op \in {"add", "remove"} /\ pc \in Ahead("insert_row")
      /\ change # NoChange
  BY <1>1, AheadMoves DEF Runs
<1>6. change.op = "add"
  BY <1>1, <1>5, OpsOfChange DEF RemoveOps
<1>7. PICK i \in DOMAIN Nodes(c), t \in Types :
        /\ a.ip = Nodes(c)[i].ip /\ a.type = t /\ ~Nodes(c)[i].skip /\ a.ip \in Owns(c)
        /\ a.used = Own(c, i, t) /\ a.pos \in Nat
  <2>1. PICK i \in DOMAIN Nodes(c) : \E t \in Types :
          /\ a = RowOf(c, i, t) /\ a.ip = Nodes(c)[i].ip /\ a.type = t
          /\ ~Nodes(c)[i].skip /\ a.ip \in Owns(c)
    BY <1>1, <1>5, <1>6, RowStmtIs DEF RowOps
  <2>2. PICK t \in Types :
          /\ a = RowOf(c, i, t) /\ a.ip = Nodes(c)[i].ip /\ a.type = t
          /\ ~Nodes(c)[i].skip /\ a.ip \in Owns(c)
    BY <2>1
  <2>3. a.used = Own(c, i, t) /\ a.pos \in Nat
    BY <1>6, <2>2, PlannedRow DEF RecordInv
  <2> QED
    BY <2>2, <2>3
\* The rows that an earlier addition has left have the ports already.
<1>8. \A r \in RowsFor(draft, a.ip, a.type) : a.used \subseteq r.used
  <2>1. HasOwn(c, db.rows \cup draft.rows)
    BY <1>5 DEF RecordInv, OwnPorts, OnceInv, Underway, Stands
  <2> QED
    BY <1>7, <2>1 DEF HasOwn, RowsFor
<1>9. Recorded(draft', st)
  BY <1>2, <1>3, <1>8 DEF Recorded, RowsFor
<1>10. ASSUME NEW x, Recorded(draft, x), ~(x.arg.ip = a.ip /\ x.arg.type = a.type)
       PROVE  Recorded(draft', x)
  <2>1. RowsFor(draft', x.arg.ip, x.arg.type) = RowsFor(draft, x.arg.ip, x.arg.type)
    BY <1>2, <1>3, <1>10 DEF RowsFor
  <2> QED
    BY <1>10, <2>1 DEF Recorded
<1>11. RunInDraft'
  <2> SUFFICES ASSUME NEW q \in 1..Len(Statements), q < pc + 1, Statements[q].op \in RowOps
               PROVE  Recorded(draft', Statements[q])
    BY <1>5, Zenon DEF RunInDraft, Recorded, RowsFor
  <2>1. CASE q = pc
    BY <1>5, <1>9, <2>1
  <2>2. CASE q # pc
    <3>1. q < pc
      BY <1>5, <2>2
    <3>2. Recorded(draft, Statements[q])
      BY <1>6, <3>1 DEF RecordInv, RunInDraft
    <3>3. ~SameKey(Statements[q], st)
      BY <1>1, <1>5, <1>6, <2>2, OtherRows DEF RowOps
    <3> QED
      BY <1>10, <3>2, <3>3 DEF SameKey
  <2> QED
    BY <2>1, <2>2
\* Nobody else uses a machine that is being set up.
<1>12. ASSUME NEW o \in Config, standing[o] = "in", NEW j \in DOMAIN Nodes(o)
       PROVE  Nodes(o)[j].ip # a.ip
  <2> SUFFICES ASSUME Nodes(o)[j].ip = a.ip PROVE FALSE
    OBVIOUS
  <2>1. standing[c] = "unsure"
    BY <1>5 DEF OnceInv, Underway
  <2>2. Stands(o) /\ Stands(c) /\ o # c
    BY <1>12, <2>1 DEF Stands
  <2>3. a.ip \in Uses(o)
    <3>1. Nodes(o)[j] \in ToSet(Nodes(o))
      BY DEF ToSet
    <3> QED
      BY <3>1, Zenon DEF Uses, Nodes
  <2>4. CASE a.ip \in Skips(o)
    <3>1. PICK u \in Config : standing[u] = "in" /\ a.ip \in Owns(u)
      BY <2>2, <2>4 DEF RecordInv, SkipsOwned
    <3>2. u # c /\ Stands(u)
      BY <2>1, <3>1 DEF Stands
    <3> QED
      BY <1>5, <1>7, <2>2, <3>1, <3>2 DEF OnceInv, OneOwner
  <2>5. CASE a.ip \notin Skips(o)
    <3>1. a.ip \in Owns(o)
      BY <2>3, <2>5 DEF Owns
    <3> QED
      BY <1>5, <1>7, <2>2, <3>1 DEF OnceInv, OneOwner
  <2> QED
    BY <2>4, <2>5
<1>13. AllRecorded(draft)'
  <2> SUFFICES ASSUME NEW o \in Config, standing[o] = "in", NEW j \in DOMAIN Nodes(o),
                      NEW u \in Wanted(o, j)
               PROVE  Recorded(draft', RowStmt(o, j, u)')
    BY <1>1, SameWanted DEF AllRecorded, Recorded, RowsFor, Nodes
  <2>1. Recorded(draft, RowStmt(o, j, u)) /\ RowStmt(o, j, u)' = RowStmt(o, j, u)
    BY <1>1, SamePlan DEF RecordInv, AllRecorded
  <2>2. PICK x : x = RowStmt(o, j, u)
    OBVIOUS
  <2>3. x.arg.ip = Nodes(o)[j].ip
    BY <2>2, RowOfIs DEF RowStmt, Stmt
  <2> QED
    BY <1>10, <1>12, <2>1, <2>2, <2>3
<1>14. Counted(draft)'
  BY <1>2, <1>3, <1>7 DEF RecordInv, Counted
<1>15. OwnPorts'
  <2>1. ASSUME NEW o \in Config, Stands(o), NEW j \in DOMAIN Nodes(o), ~Nodes(o)[j].skip,
               a.ip = Nodes(o)[j].ip
        PROVE  o = c /\ j = i
    <3>1. a.ip \in Owns(o)
      BY <2>1, OwnElement
    <3>2. o = c
      BY <1>5, <1>7, <2>1, <3>1 DEF OnceInv, OneOwner, Underway, Stands
    <3>3. \A x, y \in DOMAIN Nodes(c) : Nodes(c)[x].ip = Nodes(c)[y].ip => x = y
      BY <1>5, MetadataAssumption DEF Validated, Nodes
    <3> QED
      BY <1>7, <2>1, <3>2, <3>3
  <2>2. ASSUME NEW o \in Config, Stands(o) PROVE HasOwn(o, db'.rows \cup draft'.rows)
    <3>1. HasOwn(o, db.rows \cup draft.rows)
      BY <2>2 DEF RecordInv, OwnPorts
    <3>2. db'.rows \cup draft'.rows = (db.rows \cup draft.rows) \cup {new}
      BY <1>1, <1>3
    <3> SUFFICES ASSUME NEW j \in DOMAIN Nodes(o), ~Nodes(o)[j].skip, NEW u \in Types,
                        NEW r \in (db.rows \cup draft.rows) \cup {new},
                        r.ip = Nodes(o)[j].ip, r.type = u
                 PROVE  Own(o, j, u) \subseteq r.used
      BY <3>2 DEF HasOwn
    <3>3. CASE r = new
      BY <1>2, <1>7, <2>1, <2>2, <3>3
    <3>4. CASE r \in db.rows \cup draft.rows
      BY <3>1, <3>4 DEF HasOwn
    <3> QED
      BY <3>3, <3>4
  <2> QED
    BY <1>1, <2>2, OwnNext DEF Stands
<1> QED
  BY <1>4, <1>11, <1>13, <1>14, <1>15 DEF RecordInv

\* Without an installation there is nothing that was run.
LEMMA NothingRun ==
    ASSUME change'.op # "add"
    PROVE  RunInDraft' /\ RunInDb' /\ (DOMAIN plans' = Config => PlansTyped')
  BY DEF RunInDraft, RunInDb, PlansTyped

\* The statements of the others are what they were.
LEMMA SameRecords ==
    ASSUME NEW d, NEW e, AllRecorded(d), \A st : Recorded(d, st) => Recorded(e, st),
           \A c \in Config : standing'[c] = "in" => standing[c] = "in" /\ plans'[c] = plans[c]
    PROVE  \A c \in Config : standing'[c] = "in" =>
               \A i \in DOMAIN Nodes(c) : \A t \in Wanted(c, i)' : Recorded(e, RowStmt(c, i, t)')
  BY SamePlan, SameWanted DEF AllRecorded

LEMMA RecordBroken ==
    ASSUME RecordInv, Breaks
    PROVE  RecordInv'
<1>1. /\ change' = NoChange /\ draft' = db' /\ standing' = standing /\ plans' = plans
      /\ db' = db \/ db' = draft
  BY DEF Breaks, Closes
<1>2. RunInDraft' /\ RunInDb' /\ PlansTyped'
  BY <1>1, NothingRun DEF NoChange, RecordInv, PlansTyped
<1>3. SkipsOwned'
  BY <1>1 DEF RecordInv, SkipsOwned, Stands, Skips, Owns, Uses
<1>4. \A c \in Config : standing'[c] = "in" =>
         \A i \in DOMAIN Nodes(c) : \A t \in Wanted(c, i)' : Recorded(db', RowStmt(c, i, t)')
  <2>1. CASE db' = db
    BY <1>1, <2>1, SameRecords DEF RecordInv
  <2>2. CASE db' = draft
    BY <1>1, <2>2, SameRecords DEF RecordInv
  <2> QED
    BY <1>1, <2>1, <2>2
<1>5. AllRecorded(db)' /\ AllRecorded(draft)' /\ Counted(db)' /\ Counted(draft)'
  BY <1>1, <1>4 DEF RecordInv, AllRecorded, Recorded, RowsFor, Nodes, Counted
<1>6. OwnPorts'
  BY <1>1, OwnKept DEF RecordInv, Stands
<1> QED
  BY <1>2, <1>3, <1>5, <1>6 DEF RecordInv

LEMMA RecordSettled ==
    ASSUME TypeOK, OnceInv, RecordInv, NEW x, Settles(x)
    PROVE  RecordInv'
<1> DEFINE c == change.config
<1>1. /\ change # NoChange /\ change' = NoChange /\ draft' = db /\ db' = db /\ plans' = plans
      /\ standing' = [standing EXCEPT ![c] = x]
  BY DEF Settles, Closes
<1>2. /\ c \in Config /\ standing \in [Config -> {"out", "in", "unsure"}] /\ standing[c] = "unsure"
      /\ Len(Statements) \in Nat /\ pc \in Nat
  BY <1>1, Running DEF TypeOK, OnceInv, Underway
<1>3. RunInDraft' /\ RunInDb' /\ PlansTyped'
  BY <1>1, NothingRun DEF NoChange, RecordInv, PlansTyped
<1>4. /\ \A o \in Config : o # c => standing'[o] = standing[o]
      /\ standing'[c] = x
  BY <1>1, <1>2
<1>5. SkipsOwned'
  BY <1>2, <1>4 DEF RecordInv, SkipsOwned, Stands, Skips, Owns, Uses
<1>6. ASSUME x = "in", NEW i \in DOMAIN Nodes(c), NEW t \in Wanted(c, i)
      PROVE  Recorded(db, RowStmt(c, i, t))
  <2>1. change.op = "add" /\ pc > Len(Statements)
    BY <1>6 DEF Settles
  <2>2. PICK q \in 1..Len(Statements) : Statements[q] = RowStmt(c, i, t)
    BY <2>1, OrderedNow DEF Ordered, InOrder
  <2>3. Statements[q].op \in RowOps
    BY <2>2 DEF RowStmt, Stmt, RowOps
  <2>4. Len(Statements) + 1 \in (q + 1)..(Len(Statements) + 1)
    BY <1>2
  <2>5. PICK k \in (q + 1)..(Len(Statements) + 1 - 1) : Statements[k].op = "commit"
    BY <2>1, <2>3, <2>4, OrderedNow DEF Ordered, InOrder
  <2>6. k \in (q + 1)..(pc - 1)
    BY <1>2, <2>1
  <2> QED
    BY <2>1, <2>2, <2>3, <2>5, <2>6 DEF RecordInv, RunInDb
<1>7. \A o, i, t : RowStmt(o, i, t)' = RowStmt(o, i, t) /\ Wanted(o, i)' = Wanted(o, i)
  BY <1>1, SamePlan
<1>8. AllRecorded(db)' /\ AllRecorded(draft)'
  <2>1. \A o \in Config : standing'[o] = "in" =>
           \A i \in DOMAIN Nodes(o) : \A t \in Wanted(o, i) : Recorded(db, RowStmt(o, i, t))
    BY <1>4, <1>6 DEF RecordInv, AllRecorded
  <2> QED
    BY <1>1, <1>7, <2>1 DEF AllRecorded, Recorded, RowsFor, Nodes
<1>9. OwnPorts'
  <2>1. \A o \in Config : Stands(o)' => Stands(o)
    BY <1>2, <1>4 DEF Stands
  <2> QED
    BY <1>1, <2>1, OwnKept DEF RecordInv
<1> QED
  BY <1>1, <1>3, <1>5, <1>8, <1>9 DEF RecordInv, Counted

\* What an installation starts from.
LEMMA PlansOfAdd ==
    ASSUME TypeOK, OnceInv, RecordInv, NEW c \in Config, IssueAdd(c)
    PROVE  /\ DOMAIN plans' = Config
           /\ \A o \in Config : o # c => plans'[o] = plans[o]
           /\ \A i \in DOMAIN Nodes(c) : \A t \in Types :
                 /\ plans'[c][i][t].start \in Nat
                 /\ plans'[c][i][t].count = Nodes(c)[i].ports[t]
                 /\ ~Nodes(c)[i].skip => plans'[c][i][t].start = First
                 /\ ~raced' /\ Nodes(c)[i].skip /\ Nodes(c)[i].ports[t] > 0 =>
                       \A r \in RowsFor(db, Nodes(c)[i].ip, t) : r.pos <= plans'[c][i][t].start
           /\ ~raced' => ~raced
<1> DEFINE nodes == Nodes(c)
<1>1. PICK start \in [DOMAIN nodes -> [Types -> Counters]] :
        /\ \A i \in DOMAIN nodes : \A t \in Types : start[i][t] \in Starts(nodes[i], t)
        /\ plans' = [plans EXCEPT ![c] = [i \in DOMAIN nodes |->
                        [t \in Types |-> [start |-> start[i][t], count |-> nodes[i].ports[t]]]]]
        /\ raced' = (raced \/ \E i \in DOMAIN nodes : \E t \in Types :
                        nodes[i].ports[t] > 0 /\ Behind(nodes[i], t, start[i][t]))
  BY Zenon DEF IssueAdd, Nodes
<1>2. DOMAIN plans = Config
  BY DEF RecordInv, PlansTyped
<1> HIDE DEF nodes
<1>3. /\ DOMAIN plans' = Config
      /\ \A o \in Config : o # c => plans'[o] = plans[o]
      /\ plans'[c] = [i \in DOMAIN nodes |->
                        [t \in Types |-> [start |-> start[i][t], count |-> nodes[i].ports[t]]]]
  BY <1>1, <1>2
<1>4. Counters \subseteq Nat
  BY MetadataAssumption DEF RecordInv, Counted, Counters
<1>5. \A i \in DOMAIN nodes : \A t \in Types :
         /\ plans'[c][i][t].start = start[i][t] /\ start[i][t] \in Nat
         /\ plans'[c][i][t].count = nodes[i].ports[t]
  BY <1>1, <1>3, <1>4
<1>9. \A i \in DOMAIN nodes : \A t \in Types : ~nodes[i].skip => start[i][t] = First
  BY <1>1 DEF Starts
<1>6. ASSUME NEW i \in DOMAIN nodes, NEW t \in Types, ~raced', nodes[i].skip, nodes[i].ports[t] > 0,
             NEW r \in RowsFor(db, nodes[i].ip, t)
      PROVE  r.pos <= start[i][t]
  <2>1. ~Behind(nodes[i], t, start[i][t])
    BY <1>1, <1>6, Zenon
  <2>2. ~(start[i][t] < r.pos)
    BY <1>6, <2>1, Zenon DEF Behind
  <2>3. r.pos \in Nat
    BY DEF RecordInv, Counted, RowsFor
  <2> QED
    BY <1>5, <2>2, <2>3
<1>7. ~raced' => ~raced
  BY <1>1, Zenon
<1>8. \A i \in DOMAIN nodes : \A t \in Types :
         /\ plans'[c][i][t].start \in Nat
         /\ plans'[c][i][t].count = nodes[i].ports[t]
         /\ ~nodes[i].skip => plans'[c][i][t].start = First
         /\ ~raced' /\ nodes[i].skip /\ nodes[i].ports[t] > 0 =>
               \A r \in RowsFor(db, nodes[i].ip, t) : r.pos <= plans'[c][i][t].start
  <2> TAKE i \in DOMAIN nodes
  <2> TAKE t \in Types
  <2>1. /\ plans'[c][i][t].start = start[i][t] /\ plans'[c][i][t].start \in Nat
        /\ plans'[c][i][t].count = nodes[i].ports[t]
        /\ ~nodes[i].skip => plans'[c][i][t].start = First
    BY <1>5, <1>9
  <2>2. ~raced' /\ nodes[i].skip /\ nodes[i].ports[t] > 0 =>
           \A r \in RowsFor(db, nodes[i].ip, t) : r.pos <= start[i][t]
    BY <1>6, Zenon
  <2> QED
    BY <2>1, <2>2, Zenon
<1> QED
  BY <1>3, <1>7, <1>8, Zenon DEF nodes

LEMMA RecordIssuedAdd ==
    ASSUME TypeOK, OnceInv, RecordInv, NEW c \in Config, IssueAdd(c)
    PROVE  RecordInv'
<1>1. /\ draft' = draft /\ db'.rows = db.rows /\ draft = db /\ pc' = 1 /\ standing[c] # "in"
      /\ change' = [config |-> c, op |-> "add"]
      /\ standing' = [standing EXCEPT ![c] = "unsure"]
      /\ standing \in [Config -> {"out", "in", "unsure"}]
  BY DEF IssueAdd, Issue, TypeOK, OnceInv, IsDb, MayAdd
<1>2. /\ DOMAIN plans' = Config
      /\ \A o \in Config : o # c => plans'[o] = plans[o]
      /\ \A i \in DOMAIN Nodes(c) : \A t \in Types :
            /\ plans'[c][i][t].start \in Nat /\ plans'[c][i][t].count = Nodes(c)[i].ports[t]
            /\ ~Nodes(c)[i].skip => plans'[c][i][t].start = First
  BY PlansOfAdd
<1>3. PlansTyped'
  BY <1>1, <1>2 DEF PlansTyped, Nodes
<1>4. SkipsOwned'
  <2>1. \A m \in Skips(c) : \E o \in Config : standing[o] = "in" /\ m \in Owns(o)
    BY DEF IssueAdd, MayAdd
  <2>2. /\ \A o \in Config : standing[o] = "in" => standing'[o] = "in"
        /\ \A o \in Config : standing'[o] # "out" => o = c \/ standing[o] # "out"
    BY <1>1
  <2>3. \A o \in Config : standing'[o] # "out" =>
           \A m \in Skips(o) : \E u \in Config : standing'[u] = "in" /\ m \in Owns(u)
    BY <2>1, <2>2 DEF RecordInv, SkipsOwned, Stands
  <2> QED
    BY <2>3 DEF SkipsOwned, Stands, Skips, Owns, Uses
<1>5. RunInDraft'
  BY <1>1 DEF RunInDraft
<1>6. RunInDb'
  BY <1>1 DEF RunInDb
<1>7. AllRecorded(db)' /\ AllRecorded(draft)'
  <2>1. \A o \in Config : standing'[o] = "in" => standing[o] = "in" /\ plans'[o] = plans[o]
    BY <1>1, <1>2
  <2>2. \A st : Recorded(db, st) => Recorded(db', st)
    BY <1>1 DEF Recorded, RowsFor
  <2>3. \A o \in Config : standing'[o] = "in" =>
           \A i \in DOMAIN Nodes(o) : \A t \in Wanted(o, i)' : Recorded(db', RowStmt(o, i, t)')
    BY <2>1, <2>2, SameRecords DEF RecordInv
  <2> QED
    BY <1>1, <2>3 DEF AllRecorded, Recorded, RowsFor, Nodes
<1>8. Counted(db)' /\ Counted(draft)'
  BY <1>1 DEF RecordInv, Counted
\* An operator who adds what is out finds no rows on the machines that are set up.
<1>9. OwnPorts'
  <2>1. ASSUME NEW o \in Config, Stands(o)' PROVE HasOwn(o, db'.rows \cup draft'.rows)
    <3>1. CASE Stands(o)
      BY <1>1, <3>1 DEF RecordInv, OwnPorts
    <3>2. CASE ~Stands(o)
      <4>1. o = c
        BY <1>1, <2>1, <3>2 DEF Stands
      <4>2. ASSUME NEW i \in DOMAIN Nodes(c), ~Nodes(c)[i].skip, NEW r \in db.rows,
                   r.ip = Nodes(c)[i].ip
            PROVE  FALSE
        <5>1. PICK u \in Config : Stands(u) /\ SetsUp(u, r.ip, r.type)
          BY DEF OnceInv, Owned
        <5>2. r.ip \in Owns(u) /\ r.ip \in Owns(c)
          BY <4>2, <5>1, OwnElement, SetsUpIs
        <5>3. u # c
          BY <3>2, <4>1, <5>1
        <5>4. Owns(u) \cap Owns(c) = {}
          BY <5>1, <5>3 DEF IssueAdd, MayAdd, Stands
        <5> QED
          BY <5>2, <5>4
      <4>3. db'.rows \cup draft'.rows = db.rows
        BY <1>1
      <4> QED
        BY <4>1, <4>2, <4>3 DEF HasOwn
    <3> QED
      BY <3>1, <3>2
  <2> QED
    BY <2>1, OwnNext
<1> QED
  BY <1>3, <1>4, <1>5, <1>6, <1>7, <1>8, <1>9 DEF RecordInv

LEMMA RecordIssuedRemove ==
    ASSUME TypeOK, RecordInv, NEW c \in Config, IssueRemove(c)
    PROVE  RecordInv'
<1>1. /\ draft' = draft /\ db' = db /\ plans' = plans
      /\ change' = [config |-> c, op |-> "remove"]
      /\ standing' = [standing EXCEPT ![c] = "unsure"]
      /\ standing \in [Config -> {"out", "in", "unsure"}]
      /\ standing[c] # "out"
  BY DEF IssueRemove, Issue, TypeOK, MayRemove
<1>2. RunInDraft' /\ RunInDb' /\ PlansTyped'
  BY <1>1, NothingRun DEF RecordInv, PlansTyped
<1>3. SkipsOwned'
  <2>1. \A o \in Config : standing[o] # "out" => Skips(o) \cap Owns(c) = {}
    BY DEF IssueRemove, MayRemove
  <2> QED
    BY <1>1, <2>1 DEF RecordInv, SkipsOwned, Stands, Skips, Owns, Uses
<1>4. /\ \A o, i, t : RowStmt(o, i, t)' = RowStmt(o, i, t) /\ Wanted(o, i)' = Wanted(o, i)
      /\ \A o \in Config : standing'[o] = "in" => standing[o] = "in"
  BY <1>1, SamePlan
<1>5. AllRecorded(db)' /\ AllRecorded(draft)' /\ Counted(db)' /\ Counted(draft)'
  BY <1>1, <1>4 DEF RecordInv, AllRecorded, Recorded, RowsFor, Nodes, Counted
<1>6. OwnPorts'
  BY <1>1, OwnKept DEF RecordInv, Stands
<1> QED
  BY <1>2, <1>3, <1>5, <1>6 DEF RecordInv

LEMMA RecordShardRemoved ==
    ASSUME TypeOK, RecordInv, NEW c \in Config, RemoveShard(c)
    PROVE  RecordInv'
<1>1. /\ change' = NoChange /\ db' = Empty /\ draft' = Empty /\ plans' = plans
      /\ \A o \in Config : standing'[o] = "out"
  BY DEF RemoveShard, TypeOK
<1>2. RunInDraft' /\ RunInDb' /\ PlansTyped'
  BY <1>1, NothingRun DEF NoChange, RecordInv, PlansTyped
<1>3. SkipsOwned' /\ AllRecorded(db)' /\ AllRecorded(draft)'
  BY <1>1 DEF SkipsOwned, Stands, AllRecorded
<1>4. Counted(db)' /\ Counted(draft)'
  BY <1>1 DEF Counted, Empty
<1>5. OwnPorts'
  BY <1>1 DEF OwnPorts, Stands
<1> QED
  BY <1>2, <1>3, <1>4, <1>5 DEF RecordInv

LEMMA RecordGiven ==
    ASSUME TypeOK, OnceInv, RecordInv, NEW r \in db.rows, Allocate(r)
    PROVE  RecordInv'
<1> DEFINE s == Given(r)
<1>1. /\ db'.rows = Giving(db, r) /\ draft'.rows = Giving(draft, r)
      /\ s.ip = r.ip /\ s.type = r.type /\ s.pos = r.pos + 1
      /\ s.used = r.used \cup {<<r.pos, "manager">>}
      /\ change' = change /\ plans' = plans /\ pc' = pc /\ standing' = standing
      /\ Statements' = Statements
  BY GivenIs DEF OnceInv
<1>2. r.pos \in Nat
  BY DEF RecordInv, Counted
<1> HIDE DEF s
<1>3. /\ Giving(db, r) = (db.rows \ {r}) \cup {s}
      /\ \/ r \in draft.rows /\ Giving(draft, r) = (draft.rows \ {r}) \cup {s}
         \/ Giving(draft, r) = draft.rows
  BY DEF Giving, s
<1>4. \A row : Recorded(db, row) => Recorded(db', row)
  <2>1. /\ \A x \in db'.rows :
              \E y \in db.rows : y.ip = x.ip /\ y.type = x.type /\ y.used \subseteq x.used
        /\ \A y \in db.rows : \E x \in db'.rows : y.ip = x.ip /\ y.type = x.type
    BY <1>1, <1>3
  <2> QED
    BY <2>1, MoreRecorded
<1>5. \A row : Recorded(draft, row) => Recorded(draft', row)
  <2>1. /\ \A x \in draft'.rows :
              \E y \in draft.rows : y.ip = x.ip /\ y.type = x.type /\ y.used \subseteq x.used
        /\ \A y \in draft.rows : \E x \in draft'.rows : y.ip = x.ip /\ y.type = x.type
    BY <1>1, <1>3
  <2> QED
    BY <2>1, MoreRecorded
<1>6. Counted(db)' /\ Counted(draft)'
  BY <1>1, <1>2, <1>3 DEF RecordInv, Counted
<1>7. SkipsOwned' /\ PlansTyped'
  BY <1>1 DEF RecordInv, SkipsOwned, PlansTyped, Stands, Skips, Owns, Uses, Nodes
<1>8. RunInDraft' /\ RunInDb'
  <2> HIDE DEF Recorded
  <2>1. RunInDraft'
    BY <1>1, <1>5 DEF RecordInv, RunInDraft, Recorded, RowsFor
  <2>2. RunInDb'
    BY <1>1, <1>4 DEF RecordInv, RunInDb, Recorded, RowsFor
  <2> QED
    BY <2>1, <2>2
<1>9. /\ \A o \in Config : standing'[o] = "in" =>
            \A i \in DOMAIN Nodes(o) : \A t \in Wanted(o, i)' : Recorded(db', RowStmt(o, i, t)')
      /\ \A o \in Config : standing'[o] = "in" =>
            \A i \in DOMAIN Nodes(o) : \A t \in Wanted(o, i)' : Recorded(draft', RowStmt(o, i, t)')
  BY <1>1, <1>4, <1>5, SameRecords DEF RecordInv
<1>10. AllRecorded(db)' /\ AllRecorded(draft)'
  BY <1>9 DEF AllRecorded, Recorded, RowsFor, Nodes
<1>11. OwnPorts'
  <2>1. \A x \in db'.rows \cup draft'.rows : \E y \in db.rows \cup draft.rows :
           y.ip = x.ip /\ y.type = x.type /\ y.used \subseteq x.used
    BY <1>1, <1>3
  <2> QED
    BY <1>1, <2>1, OwnKept DEF RecordInv, Stands
<1> QED
  BY <1>6, <1>7, <1>8, <1>10, <1>11 DEF RecordInv

LEMMA RecordStays ==
    ASSUME RecordInv, UNCHANGED vars
    PROVE  RecordInv'
<1>1. /\ db' = db /\ draft' = draft /\ change' = change /\ pc' = pc /\ standing' = standing
      /\ plans' = plans /\ Statements' = Statements
  BY SameStatements DEF vars, work
<1>2. SkipsOwned' /\ PlansTyped' /\ Counted(db)' /\ Counted(draft)'
  BY <1>1 DEF RecordInv, SkipsOwned, PlansTyped, Counted, Stands, Skips, Owns, Uses, Nodes
<1>3. RunInDraft' /\ RunInDb'
  BY <1>1 DEF RecordInv, RunInDraft, RunInDb, Recorded, RowsFor
<1>4. \A o, i, t : RowStmt(o, i, t)' = RowStmt(o, i, t) /\ Wanted(o, i)' = Wanted(o, i)
  BY <1>1, SamePlan
<1>5. AllRecorded(db)' /\ AllRecorded(draft)'
  BY <1>1, <1>4 DEF RecordInv, AllRecorded, Recorded, RowsFor, Nodes
<1>6. OwnPorts'
  BY <1>1, OwnKept DEF RecordInv, Stands
<1> QED
  BY <1>2, <1>3, <1>5, <1>6 DEF RecordInv

LEMMA RecordStep ==
    ASSUME TypeOK, OnceInv, RecordInv, [Next]_vars
    PROVE  RecordInv'
  BY Kinds, RecordKept, RecordBack, RecordInserted, RecordUpdated, RecordDeleted, RecordCommitted,
     RecordBroken, RecordSettled, RecordIssuedAdd, RecordIssuedRemove, RecordShardRemoved,
     RecordGiven, RecordStays

-----------------------------------------------------------------------------
(* PortsGivenOnce.                                                         *)

\* The ports of a statement about a row.
LEMMA StmtPorts ==
    ASSUME TypeOK, PlansTyped, change.op = "add",
           NEW q \in 1..Len(Statements), Statements[q].op \in RowOps
    PROVE  LET a == Statements[q].arg IN
           /\ a.pos \in Nat
           /\ \A p \in a.used : p[1] \in Nat /\ p[1] < a.pos
           /\ \A p, r \in a.used : p[1] = r[1] => p = r
           /\ Statements[q].op = "update_row" => a.used # {}
<1> DEFINE a == Statements[q].arg
           c == change.config
<1>1. PICK i \in DOMAIN Nodes(c) : \E t \in Types :
        /\ a = RowOf(c, i, t)
        /\ Statements[q].op = "update_row" => Nodes(c)[i].ports[t] > 0
  BY RowStmtIs, Zenon
<1>2. PICK t \in Types :
        /\ a = RowOf(c, i, t)
        /\ Statements[q].op = "update_row" => Nodes(c)[i].ports[t] > 0
  BY <1>1, Zenon
<1> DEFINE start == plans[c][i][t].start
           count == Nodes(c)[i].ports[t]
<1>3. /\ start \in Nat /\ count \in Nat /\ a.pos = start + count
      /\ a.used = {<<port, c>> : port \in start..(start + count - 1)}
  BY <1>2, PlannedRow
<1>4. Statements[q].op = "update_row" => count > 0
  BY <1>2
<1> HIDE DEF a, c, start, count
<1>5. \A p \in a.used : p[1] \in Nat /\ p[1] < a.pos
  BY <1>3
<1>6. \A p, r \in a.used : p[1] = r[1] => p = r
  BY <1>3
<1>7. count > 0 => a.used # {}
  <2> SUFFICES ASSUME count > 0 PROVE <<start, c>> \in a.used
    OBVIOUS
  <2>1. start \in start..(start + count - 1)
    BY <1>3
  <2> QED
    BY <1>3, <2>1
<1> QED
  BY <1>3, <1>4, <1>5, <1>6, <1>7 DEF a

LEMMA PortsOfSame ==
    ASSUME NEW d, NEW e, PortsGiven(d), e.rows = d.rows
    PROVE  PortsGiven(e)
  BY DEF PortsGiven, Below, Single, NewPorts, RowsFor

\* The rows are the same, and fewer statements are ahead.
LEMMA PortsKept ==
    ASSUME TypeOK, NEW st \in Upcoming, Runs(st), NEW d, PortsGiven(d)
    PROVE  PortsGiven(d)'
<1>1. /\ Statements' = Statements /\ change' = change /\ raced' = raced
      /\ Ahead("update_row")' \subseteq Ahead("update_row")
  BY AheadMoves DEF Runs, past
<1> QED
  BY <1>1 DEF PortsGiven, Below, Single, NewPorts

\* Of the rows in the next state.
LEMMA PortsNext ==
    ASSUME NEW d, PortsGiven(d)'
    PROVE  /\ db'.rows = d.rows => PortsGiven(db)'
           /\ draft'.rows = d.rows => PortsGiven(draft)'
  BY DEF PortsGiven, Below, Single, NewPorts, RowsFor

LEMMA PortsOfQuiet ==
    ASSUME TypeOK, OnceInv, OnceGivenInv, NEW st \in Upcoming,
           Keeps(st) \/ GoesBack(st) \/ (Runs(st) /\ Commit(st))
    PROVE  OnceGivenInv'
<1>1. /\ Runs(st)
      /\ db' = db \/ db' = draft
      /\ draft'.rows = db.rows \/ draft'.rows = draft.rows
  BY DEF Keeps, GoesBack, Commit, OnceInv
<1>2. PICK d, e : d = db /\ e = draft
  OBVIOUS
<1>3. PortsGiven(d)' /\ PortsGiven(e)'
  BY <1>1, <1>2, PortsKept DEF OnceGivenInv
<1> QED
  BY <1>1, <1>2, <1>3, PortsNext DEF OnceGivenInv

LEMMA PortsBroken ==
    ASSUME OnceGivenInv, raced' = raced, change'.op # "add",
           db' \in {db, draft, Empty}, draft' \in {db, draft, Empty}
    PROVE  OnceGivenInv'
<1>1. NewPorts(db)' /\ NewPorts(draft)'
  BY DEF NewPorts
<1>2. Below(db)' /\ Below(draft)' /\ Single(db)' /\ Single(draft)'
  BY DEF OnceGivenInv, PortsGiven, Below, Single, Empty
<1> QED
  BY <1>1, <1>2 DEF OnceGivenInv, PortsGiven

LEMMA PortsInserted ==
    ASSUME TypeOK, OnceInv, RecordInv, OnceGivenInv, NEW st \in Upcoming, Runs(st), InsertRow(st)
    PROVE  OnceGivenInv'
<1> DEFINE a == st.arg
           new == [id |-> NextId(draft), ip |-> a.ip, type |-> a.type, pos |-> a.pos, used |-> a.used]
<1>1. /\ db' = db /\ draft' = [draft EXCEPT !.rows = @ \cup {new}] /\ st.op = "insert_row"
      /\ change' = change /\ raced' = raced
  BY DEF InsertRow, Write, In, Runs, past
<1>2. new.ip = a.ip /\ new.type = a.type /\ new.pos = a.pos /\ new.used = a.used
  OBVIOUS
<1> HIDE DEF new
<1>3. draft'.rows = draft.rows \cup {new}
  BY <1>1 DEF OnceInv, IsDb
<1>4. /\ Statements' = Statements
      /\ pc \in 1..Len(Statements) /\ st = Statements[pc]
      /\ change.op \in {"add", "remove"}
      /\ Ahead("update_row")' = Ahead("update_row")
  BY <1>1, AheadMoves DEF Runs
<1>5. change.op = "add"
  BY <1>1, <1>4, OpsOfChange DEF RemoveOps
<1>6. /\ \A p \in a.used : p[1] \in Nat /\ p[1] < a.pos
      /\ \A p, r \in a.used : p[1] = r[1] => p = r
  BY <1>1, <1>4, <1>5, StmtPorts DEF RecordInv, RowOps
<1>7. PortsGiven(db)'
  <2>1. PICK d : d = db
    OBVIOUS
  <2>2. PortsGiven(d)'
    BY <2>1, PortsKept DEF OnceGivenInv
  <2> QED
    BY <1>1, <2>1, <2>2, PortsNext
<1>8. Below(draft)'
  BY <1>1, <1>2, <1>3, <1>6 DEF OnceGivenInv, PortsGiven, Below
<1>9. Single(draft)'
  BY <1>1, <1>2, <1>3, <1>6 DEF OnceGivenInv, PortsGiven, Single
<1>10. NewPorts(draft)'
  <2>1. ASSUME NEW q \in Ahead("update_row") PROVE ~SameKey(Statements[q], st)
    <3>1. q \in 1..Len(Statements) /\ Statements[q].op = "update_row"
      BY DEF Ahead
    <3> QED
      BY <1>1, <1>4, <1>5, <3>1, OtherRows DEF RowOps
  <2>2. \A q \in Ahead("update_row") :
           ~(new.ip = Statements[q].arg.ip /\ new.type = Statements[q].arg.type)
    BY <1>2, <2>1 DEF SameKey
  <2> QED
    BY <1>1, <1>3, <1>4, <2>2 DEF OnceGivenInv, PortsGiven, NewPorts, RowsFor
<1> QED
  BY <1>7, <1>8, <1>9, <1>10 DEF OnceGivenInv, PortsGiven

LEMMA PortsUpdated ==
    ASSUME TypeOK, OnceInv, RecordInv, OnceGivenInv, NEW st \in Upcoming, Runs(st), UpdateRow(st)
    PROVE  OnceGivenInv'
<1> DEFINE U(r) == Updated(r, st.arg)
           a == st.arg
           Meant(r) == r.ip = a.ip /\ r.type = a.type
<1>1. /\ draft'.rows = {U(r) : r \in draft.rows} /\ db' = db /\ st.op = "update_row"
      /\ \A r \in draft.rows :
            /\ U(r).ip = r.ip /\ U(r).type = r.type
            /\ IF Meant(r)
               THEN U(r).pos = a.pos /\ U(r).used = r.used \cup a.used
               ELSE U(r) = r
      /\ change' = change /\ raced' = raced
  BY UpdatedIs DEF OnceInv, Runs, past
<1> HIDE DEF U
<1>2. /\ Statements' = Statements
      /\ pc \in 1..Len(Statements) /\ st = Statements[pc]
      /\ change.op \in {"add", "remove"}
      /\ Ahead("update_row")' = Ahead("update_row") \ {pc} /\ pc \in Ahead("update_row")
  BY <1>1, AheadMoves DEF Runs
<1>3. change.op = "add"
  BY <1>1, <1>2, OpsOfChange DEF RemoveOps
<1>4. /\ a.pos \in Nat /\ a.used # {}
      /\ \A p \in a.used : p[1] \in Nat /\ p[1] < a.pos
      /\ \A p, r \in a.used : p[1] = r[1] => p = r
  BY <1>1, <1>2, <1>3, StmtPorts DEF RecordInv, RowOps
<1>5. PortsGiven(db)'
  <2>1. PICK d : d = db
    OBVIOUS
  <2>2. PortsGiven(d)'
    BY <2>1, PortsKept DEF OnceGivenInv
  <2> QED
    BY <1>1, <2>1, <2>2, PortsNext
<1>6. \A r \in draft.rows : r.pos \in Nat
  BY DEF RecordInv, Counted
<1>7. ~raced => \A r \in draft.rows : Meant(r) => \A p \in a.used : r.pos <= p[1]
  <2>1. ~raced => \A r \in RowsFor(draft, a.ip, a.type) : \A p \in a.used : r.pos <= p[1]
    BY <1>2, <1>3 DEF OnceGivenInv, PortsGiven, NewPorts
  <2> QED
    BY <2>1 DEF RowsFor
<1> HIDE DEF a
<1>8. Below(draft)'
  <2> SUFFICES ASSUME ~raced, NEW r \in draft.rows, NEW p \in U(r).used
               PROVE  p[1] \in Nat /\ p[1] < U(r).pos
    BY <1>1 DEF Below
  <2>1. \A x \in r.used : x[1] \in Nat /\ x[1] < r.pos
    BY DEF OnceGivenInv, PortsGiven, Below
  <2>2. CASE Meant(r)
    <3>1. PICK x \in a.used : TRUE
      BY <1>4
    <3>2. r.pos <= x[1] /\ x[1] < a.pos /\ x[1] \in Nat
      BY <1>4, <1>7, <2>2
    <3>3. r.pos < a.pos
      BY <1>4, <1>6, <3>2
    <3>4. U(r).pos = a.pos /\ (p \in r.used \/ p \in a.used)
      BY <1>1, <2>2
    <3>5. CASE p \in r.used
      <4>1. p[1] \in Nat /\ p[1] < r.pos
        BY <2>1, <3>5
      <4> QED
        BY <1>4, <1>6, <3>3, <3>4, <4>1
    <3>6. CASE p \in a.used
      BY <1>4, <3>4, <3>6
    <3> QED
      BY <3>4, <3>5, <3>6
  <2>3. CASE ~Meant(r)
    BY <1>1, <2>1, <2>3
  <2> QED
    BY <2>2, <2>3
<1>9. Single(draft)'
  <2> SUFFICES ASSUME ~raced, NEW r \in draft.rows, NEW p \in U(r).used, NEW q \in U(r).used,
                      p[1] = q[1]
               PROVE  p = q
    BY <1>1 DEF Single
  <2>1. /\ \A x \in r.used : x[1] \in Nat /\ x[1] < r.pos
        /\ \A x, y \in r.used : x[1] = y[1] => x = y
    BY DEF OnceGivenInv, PortsGiven, Below, Single
  <2>2. CASE Meant(r)
    <3>1. U(r).used = r.used \cup a.used
      BY <1>1, <2>2
    <3>2. \A x \in r.used : \A y \in a.used : x[1] # y[1]
      <4> TAKE x \in r.used
      <4> TAKE y \in a.used
      <4>1. x[1] \in Nat /\ x[1] < r.pos /\ r.pos <= y[1] /\ y[1] \in Nat /\ r.pos \in Nat
        BY <1>4, <1>6, <1>7, <2>1, <2>2
      <4> QED
        BY <4>1
    <3> QED
      BY <1>4, <2>1, <3>1, <3>2
  <2>3. CASE ~Meant(r)
    BY <1>1, <2>1, <2>3
  <2> QED
    BY <2>2, <2>3
<1>10. NewPorts(draft)'
  <2> SUFFICES ASSUME ~raced, NEW q \in Ahead("update_row") \ {pc}, NEW x \in draft'.rows,
                      x.ip = Statements[q].arg.ip, x.type = Statements[q].arg.type,
                      NEW p \in Statements[q].arg.used
               PROVE  x.pos <= p[1]
    BY <1>1, <1>2 DEF NewPorts, RowsFor
  <2>1. ~SameKey(Statements[q], st)
    <3>1. q \in 1..Len(Statements) /\ Statements[q].op = "update_row" /\ q # pc
      BY DEF Ahead
    <3> QED
      BY <1>1, <1>2, <1>3, <3>1, OtherRows DEF RowOps
  <2>2. ~Meant(x)
    BY <2>1 DEF SameKey, a
  <2>3. x \in draft.rows
    BY <1>1, <2>2
  <2> QED
    BY <1>3, <2>3 DEF OnceGivenInv, PortsGiven, NewPorts, RowsFor
<1> QED
  BY <1>5, <1>8, <1>9, <1>10 DEF OnceGivenInv, PortsGiven

LEMMA PortsDeleted ==
    ASSUME TypeOK, OnceInv, OnceGivenInv, NEW st \in Upcoming, Runs(st), DeleteRows(st)
    PROVE  OnceGivenInv'
<1>1. draft'.rows \subseteq draft.rows /\ db' = db
  BY DEF DeleteRows, Write, In, OnceInv, IsDb
<1>2. PICK d, e : d = db /\ e = draft
  OBVIOUS
<1>3. PortsGiven(d)' /\ PortsGiven(e)'
  BY <1>2, PortsKept DEF OnceGivenInv
<1>4. PortsGiven(db)'
  BY <1>1, <1>2, <1>3, PortsNext
<1>5. PortsGiven(draft)'
  BY <1>1, <1>2, <1>3 DEF PortsGiven, Below, Single, NewPorts, RowsFor
<1> QED
  BY <1>4, <1>5 DEF OnceGivenInv

\* The ports that an installation adds to a row are those that it has planned.
LEMMA UpdatesNext ==
    (TypeOK /\ PlansTyped /\ change.op = "add" =>
        \A q \in 1..Len(Statements) : Statements[q].op = "update_row" =>
            \E i \in DOMAIN Nodes(change.config) : \E t \in Types :
               /\ Statements[q].arg.ip = Nodes(change.config)[i].ip /\ Statements[q].arg.type = t
               /\ Nodes(change.config)[i].skip /\ Nodes(change.config)[i].ports[t] > 0
               /\ \A x \in Statements[q].arg.used :
                     x[1] \in Nat /\ plans[change.config][i][t].start <= x[1])'
<1> DEFINE Planned(a, i, t) ==
               /\ a.ip = Nodes(change.config)[i].ip /\ a.type = t
               /\ Nodes(change.config)[i].skip /\ Nodes(change.config)[i].ports[t] > 0
               /\ \A x \in a.used : x[1] \in Nat /\ plans[change.config][i][t].start <= x[1]
<1>1. TypeOK /\ PlansTyped /\ change.op = "add" =>
        \A q \in 1..Len(Statements) : Statements[q].op = "update_row" =>
            \E i \in DOMAIN Nodes(change.config) : \E t \in Types : Planned(Statements[q].arg, i, t)
  <2> SUFFICES ASSUME TypeOK, PlansTyped, change.op = "add",
                      NEW q \in 1..Len(Statements), Statements[q].op = "update_row"
               PROVE  \E i \in DOMAIN Nodes(change.config) : \E t \in Types :
                         Planned(Statements[q].arg, i, t)
    OBVIOUS
  <2> DEFINE a == Statements[q].arg
             c == change.config
  <2>1. PICK i \in DOMAIN Nodes(c) : \E t \in Types :
           /\ a = RowOf(c, i, t) /\ a.ip = Nodes(c)[i].ip /\ a.type = t
           /\ Nodes(c)[i].skip /\ Nodes(c)[i].ports[t] > 0
    BY RowStmtIs, Zenon DEF RowOps
  <2>2. PICK t \in Types :
           /\ a = RowOf(c, i, t) /\ a.ip = Nodes(c)[i].ip /\ a.type = t
           /\ Nodes(c)[i].skip /\ Nodes(c)[i].ports[t] > 0
    BY <2>1, Zenon
  <2>3. \A x \in a.used : x[1] \in Nat /\ plans[c][i][t].start <= x[1]
    BY <2>2, PlannedRow
  <2> HIDE DEF a, c
  <2>4. Planned(a, i, t)
    BY <2>2, <2>3, Zenon DEF c
  <2> QED
    BY <2>4, Zenon DEF a, c
<1>2. (TypeOK /\ PlansTyped /\ change.op = "add" =>
        \A q \in 1..Len(Statements) : Statements[q].op = "update_row" =>
            \E i \in DOMAIN Nodes(change.config) : \E t \in Types : Planned(Statements[q].arg, i, t))'
  BY <1>1, PTL
<1> QED
  BY <1>2

LEMMA PortsIssuedAdd ==
    ASSUME TypeOK, TypeOK', OnceInv, RecordInv, OnceGivenInv, RecordInv', NEW c \in Config, IssueAdd(c)
    PROVE  OnceGivenInv'
<1>1. /\ draft' = draft /\ db'.rows = db.rows /\ draft = db
      /\ change' = [config |-> c, op |-> "add"]
  BY DEF IssueAdd, Issue, TypeOK, OnceInv, IsDb
<1>2. ~raced' => ~raced
  BY PlansOfAdd
<1>3. Below(db)' /\ Below(draft)' /\ Single(db)' /\ Single(draft)'
  BY <1>1, <1>2 DEF OnceGivenInv, PortsGiven, Below, Single
<1>4. PICK s : s = Statements'
  OBVIOUS
<1>5. ASSUME ~raced', NEW q \in 1..Len(s), s[q].op = "update_row",
             NEW r \in RowsFor(db, s[q].arg.ip, s[q].arg.type), NEW p \in s[q].arg.used
      PROVE  r.pos <= p[1]
  <2>1. PICK i \in DOMAIN Nodes(c) : \E t \in Types :
           /\ s[q].arg.ip = Nodes(c)[i].ip /\ s[q].arg.type = t
           /\ Nodes(c)[i].skip /\ Nodes(c)[i].ports[t] > 0
           /\ \A x \in s[q].arg.used : x[1] \in Nat /\ plans'[c][i][t].start <= x[1]
    BY <1>1, <1>4, <1>5, UpdatesNext DEF RecordInv, Nodes
  <2>2. PICK t \in Types :
           /\ s[q].arg.ip = Nodes(c)[i].ip /\ s[q].arg.type = t
           /\ Nodes(c)[i].skip /\ Nodes(c)[i].ports[t] > 0
           /\ \A x \in s[q].arg.used : x[1] \in Nat /\ plans'[c][i][t].start <= x[1]
    BY <2>1, Zenon
  <2>3. r.pos <= plans'[c][i][t].start
    BY <1>5, <2>2, PlansOfAdd
  <2>4. plans'[c][i][t].start \in Nat /\ r.pos \in Nat
    BY PlansOfAdd DEF RecordInv, Counted, RowsFor
  <2>5. plans'[c][i][t].start <= p[1] /\ p[1] \in Nat
    BY <2>2
  <2> QED
    BY <2>3, <2>4, <2>5
<1>6. NewPorts(db)' /\ NewPorts(draft)'
  BY <1>1, <1>4, <1>5 DEF NewPorts, Ahead, RowsFor
<1> QED
  BY <1>3, <1>6 DEF OnceGivenInv, PortsGiven

LEMMA PortsOfManager ==
    ASSUME TypeOK, OnceInv, RecordInv, OnceGivenInv, NEW r \in db.rows, Allocate(r)
    PROVE  OnceGivenInv'
<1> DEFINE s == Given(r)
<1>1. /\ db'.rows = Giving(db, r) /\ draft'.rows = Giving(draft, r)
      /\ s.ip = r.ip /\ s.type = r.type /\ s.pos = r.pos + 1
      /\ s.used = r.used \cup {<<r.pos, "manager">>}
      /\ change' = change /\ pc' = pc /\ Statements' = Statements
  BY GivenIs DEF OnceInv
<1>2. r.pos \in Nat
  BY DEF RecordInv, Counted
<1>3. ~raced' => ~raced /\ ~(change.op = "add" /\ r.ip \in Skips(change.config))
  BY Zenon DEF Allocate
<1>4. \A p \in s.used : p \in r.used \/ p = <<r.pos, "manager">>
  BY <1>1
<1> HIDE DEF s
<1>5. <<r.pos, "manager">>[1] = r.pos
  OBVIOUS
<1>6. ~raced' => /\ \A p \in s.used : p[1] \in Nat /\ p[1] < s.pos
                 /\ \A p, q \in s.used : p[1] = q[1] => p = q
  <2> SUFFICES ASSUME ~raced'
               PROVE  /\ \A p \in s.used : p[1] \in Nat /\ p[1] < s.pos
                      /\ \A p, q \in s.used : p[1] = q[1] => p = q
    OBVIOUS
  <2>1. /\ \A p \in r.used : p[1] \in Nat /\ p[1] < r.pos
        /\ \A p, q \in r.used : p[1] = q[1] => p = q
    BY <1>3 DEF OnceGivenInv, PortsGiven, Below, Single
  <2>2. \A p \in s.used : p[1] \in Nat /\ (p[1] < r.pos \/ p = <<r.pos, "manager">>)
    BY <1>2, <1>4, <1>5, <2>1
  <2>3. \A p \in s.used : p[1] \in Nat /\ p[1] < s.pos
    BY <1>1, <1>2, <1>5, <2>2
  <2>4. ASSUME NEW p \in s.used, NEW q \in s.used, p[1] = q[1] PROVE p = q
    <3>1. CASE p \in r.used /\ q \in r.used
      BY <2>1, <2>4, <3>1
    <3>2. CASE p = <<r.pos, "manager">> /\ q = <<r.pos, "manager">>
      BY <3>2
    <3>3. ASSUME NEW x \in r.used PROVE x[1] # r.pos
      BY <1>2, <2>1
    <3> QED
      BY <1>4, <1>5, <2>4, <3>1, <3>2, <3>3
  <2> QED
    BY <2>3, <2>4
<1>7. ~raced' /\ change.op = "add" =>
         \A q \in Ahead("update_row") : Statements[q].arg.ip # r.ip
  <2> SUFFICES ASSUME ~raced', change.op = "add", NEW q \in Ahead("update_row")
               PROVE  Statements[q].arg.ip # r.ip
    OBVIOUS
  <2>1. q \in 1..Len(Statements) /\ Statements[q].op = "update_row"
    BY DEF Ahead
  <2>2. Statements[q].arg.ip \in Skips(change.config)
    BY <2>1, RowStmtIs DEF RowOps
  <2> QED
    BY <1>3, <2>2
<1>8. Ahead("update_row")' = Ahead("update_row")
  BY <1>1 DEF Ahead
<1>9. ASSUME NEW d, PortsGiven(d), NEW e,
             e.rows = d.rows \/ e.rows = (d.rows \ {r}) \cup {s}
      PROVE  PortsGiven(e)'
  <2>1. Below(e)' /\ Single(e)'
    BY <1>3, <1>6, <1>9 DEF PortsGiven, Below, Single
  <2>2. NewPorts(e)'
    BY <1>1, <1>3, <1>7, <1>8, <1>9 DEF PortsGiven, NewPorts, RowsFor
  <2> QED
    BY <2>1, <2>2 DEF PortsGiven
<1>10. /\ db'.rows = db.rows \/ db'.rows = (db.rows \ {r}) \cup {s}
       /\ draft'.rows = draft.rows \/ draft'.rows = (draft.rows \ {r}) \cup {s}
  BY <1>1 DEF Giving, s
<1>11. PICK d, e, d1, e1 : d = db /\ e = draft /\ d1 = db' /\ e1 = draft'
  OBVIOUS
<1>12. PortsGiven(d1)' /\ PortsGiven(e1)'
  BY <1>9, <1>10, <1>11 DEF OnceGivenInv
<1> QED
  BY <1>11, <1>12, PortsNext DEF OnceGivenInv

LEMMA PortsStay ==
    ASSUME OnceGivenInv, UNCHANGED vars
    PROVE  OnceGivenInv'
<1>1. /\ db' = db /\ draft' = draft /\ change' = change /\ pc' = pc /\ raced' = raced
      /\ Statements' = Statements
  BY SameStatements DEF vars, work, past
<1> QED
  BY <1>1 DEF OnceGivenInv, PortsGiven, Below, Single, NewPorts, RowsFor, Ahead

LEMMA PortsStep ==
    ASSUME TypeOK, TypeOK', OnceInv, RecordInv, RecordInv', OnceGivenInv, [Next]_vars
    PROVE  OnceGivenInv'
<1>1. CASE Breaks
  BY <1>1, PortsBroken DEF Breaks, Closes, NoChange, past
<1>2. ASSUME NEW x, Settles(x) PROVE OnceGivenInv'
  BY <1>2, PortsBroken DEF Settles, Closes, NoChange, past
<1>3. ASSUME NEW c \in Config, IssueRemove(c) PROVE OnceGivenInv'
  BY <1>3, PortsBroken DEF IssueRemove, Issue, past
<1>4. ASSUME NEW c \in Config, RemoveShard(c) PROVE OnceGivenInv'
  BY <1>4, PortsBroken DEF RemoveShard, NoChange, past
<1> QED
  BY <1>1, <1>2, <1>3, <1>4, Kinds, PortsOfQuiet, PortsInserted, PortsUpdated, PortsDeleted,
     PortsIssuedAdd, PortsOfManager, PortsStay

-----------------------------------------------------------------------------
(* NoUnknownCluster.                                                       *)

\* After a statement that is no lookup there is a node of a data shard to be mapped only
\* if it was looked up before and its master was asked in between.
LEMMA MappedAfterLookUp ==
    ASSUME TypeOK, Answered, NEW st \in Upcoming, Runs(st), st.op # "lookup",
           st.op = "uuid" => found' = found /\ conn' = conn
    PROVE  Answered'
<1>1. /\ Statements' = Statements /\ change' = change /\ pc' = pc + 1 /\ change # NoChange
      /\ pc \in 1..Len(Statements) /\ st = Statements[pc] /\ Len(Statements) \in Nat
      /\ change.op \in {"add", "remove"}
  BY AheadMoves DEF Runs
<1>2. ASSUME NEW q \in 1..Len(Statements), Statements[q].op = "map", q \in {pc + 1, pc + 2},
             Statements[q].arg \notin MetaNode, conn' = "up"
      PROVE  found' \in Cluster
  <2>1. change.op = "add"
    BY <1>1, <1>2, OpsOfChange DEF RemoveOps
  <2>2. /\ Statements[q - 1] = Stmt("uuid", Statements[q].arg)
        /\ Statements[q - 2] = Stmt("lookup", Statements[q].arg)
    BY <1>2, <2>1, OrderedNow DEF Ordered, WellMapped, MappedAt
  <2>3. q # pc + 2
    <3> SUFFICES ASSUME q = pc + 2 PROVE FALSE
      OBVIOUS
    <3>1. q - 2 = pc
      BY <1>1
    <3> QED
      BY <1>1, <2>2, <3>1 DEF Stmt
  <2>4. q = pc + 1 /\ q - 1 = pc
    BY <1>1, <1>2, <2>3
  <2>5. st.op = "uuid"
    BY <1>1, <2>2, <2>4 DEF Stmt
  <2>6. q \in Ahead("map")
    BY <1>1, <1>2, <2>4 DEF Ahead
  <2> QED
    BY <1>1, <1>2, <2>4, <2>5, <2>6 DEF Answered
<1> QED
  BY <1>1, <1>2 DEF Answered, Ahead

LEMMA MapStep ==
    ASSUME TypeOK, TypeOK', MapInv, OnceInv, OnceInv', [Next]_vars
    PROVE  MapInv'
<1>1. \A st \in Upcoming : change # NoChange
  BY DEF Upcoming, Statements, NoChange
<1>2. ASSUME NEW st \in Upcoming, st.op # "lookup", change' = change, plans' = plans,
             st.op = "uuid" => found' = found /\ conn' = conn,
             standing' = standing, keyed' = keyed, past' = past, pc' = pc + 1,
             db'.map = db.map \/ db'.map = draft.map,
             draft'.map = db.map \/ draft'.map = draft.map
      PROVE  MapInv'
  <2>1. Answered'
    BY <1>1, <1>2, MappedAfterLookUp DEF MapInv, Runs
  <2>2. Known(db)' /\ Known(draft)'
    BY <1>2 DEF MapInv, Known
  <2> QED
    BY <2>1, <2>2 DEF MapInv
<1>3. ASSUME change' = NoChange, db'.map \in {db.map, draft.map, {}}, draft'.map \in {db.map, draft.map, {}}
      PROVE  MapInv'
  <2>1. Answered'
    BY <1>3 DEF Answered
  <2>2. Known(db)' /\ Known(draft)'
    BY <1>3 DEF MapInv, Known
  <2> QED
    BY <2>1, <2>2 DEF MapInv
<1>4. ASSUME NEW st \in Upcoming, NEW n \in Node, SetVariable(n, st) PROVE MapInv'
  BY <1>2, <1>4 DEF SetVariable, In
<1>17. ASSUME NEW st \in Upcoming, AskMaster(st) PROVE MapInv'
  BY <1>2, <1>17 DEF AskMaster, In
<1>5. ASSUME NEW st \in Upcoming, Connect(st) PROVE MapInv'
  BY <1>2, <1>5 DEF Connect, In
<1>6. ASSUME NEW st \in Upcoming, Commit(st) PROVE MapInv'
  BY <1>2, <1>6 DEF Commit, In
<1>7. ASSUME NEW st \in Upcoming, Start(st) PROVE MapInv'
  BY <1>2, <1>7 DEF Start, Write, In
<1>8. ASSUME NEW st \in Upcoming,
             InsertDc(st) \/ InsertRow(st) \/ UpdateRow(st) \/ DeleteRows(st) \/ Backup(st) \/ Memo(st)
      PROVE  MapInv'
  <2>1. draft'.map = draft.map
    <3>1. \E x, y : \/ draft' = [draft EXCEPT !.dcs = x] \/ draft' = [draft EXCEPT !.rows = x]
                    \/ draft' = [draft EXCEPT !.backups = x] \/ draft' = [draft EXCEPT !.memos = x]
                    \/ draft' = [draft EXCEPT !.rows = x, !.gone = y]
      BY <1>8 DEF InsertDc, InsertRow, UpdateRow, DeleteRows, Backup, Memo, Write
    <3> QED
      BY <3>1 DEF OnceInv, IsDb
  <2>2. /\ st.op \notin {"lookup", "uuid"} /\ change' = change /\ plans' = plans
        /\ standing' = standing /\ keyed' = keyed /\ past' = past /\ pc' = pc + 1 /\ db' = db
    BY <1>8 DEF InsertDc, InsertRow, UpdateRow, DeleteRows, Backup, Memo, Write, In
  <2> QED
    BY <1>2, <2>1, <2>2
<1>9. ASSUME NEW st \in Upcoming, NEW n \in Node, LookUp(n, st) PROVE MapInv'
  <2>1. db' = db /\ draft' = draft /\ n = st.arg /\ Runs(st)
    BY <1>1, <1>9 DEF LookUp, In, Runs
  <2>2. found' = ClusterOf[n] \/ conn' = "lost"
    BY <1>9 DEF LookUp
  <2>3. ClusterOf[n] \in Cluster
    BY MetadataAssumption
  <2>4. Answered'
    BY <2>2, <2>3 DEF Answered
  <2> QED
    BY <2>1, <2>4 DEF MapInv, Known
<1>10. ASSUME NEW st \in Upcoming, MapIt(st) PROVE MapInv'
  <2> DEFINE x == [node |-> st.arg, cluster |-> IF st.arg \in MetaNode THEN MetaShard ELSE found,
                   uuid |-> uuid]
  <2>1. /\ draft' = [draft EXCEPT !.map = @ \cup {x}] /\ db' = db /\ Runs(st)
        /\ st.op = "map" /\ conn = "up"
    BY <1>1, <1>10 DEF MapIt, Write, In, Runs, CanRun
  <2>2. draft'.map = draft.map \cup {x}
    BY <2>1 DEF OnceInv, IsDb
  <2>3. pc \in Ahead("map") /\ st = Statements[pc]
    BY <2>1, AheadMoves
  <2>4. x.cluster = MetaShard => x.node \in MetaNode
    <3>1. st.arg \notin MetaNode => found \in Cluster
      BY <1>1, <2>1, <2>3 DEF MapInv, Answered
    <3> QED
      BY <3>1, MetadataAssumption
  <2>5. Answered'
    BY <2>1, MappedAfterLookUp DEF MapInv
  <2> HIDE DEF x
  <2> QED
    BY <2>1, <2>2, <2>4, <2>5 DEF MapInv, Known
<1>11. ASSUME NEW st \in Upcoming, StatementFails(st) \/ StatementFaults(st) PROVE MapInv'
  BY <1>3, <1>11 DEF StatementFails, StatementFaults, Abort
<1>12. CASE Finish
  BY <1>3, <1>12 DEF Finish, Abort
<1>13. ASSUME NEW c \in Config, IssueAdd(c) \/ IssueRemove(c) PROVE MapInv'
  <2>1. conn' = "none" /\ db'.map = db.map /\ draft' = draft
    BY <1>13 DEF IssueAdd, IssueRemove, Issue, TypeOK, OnceInv, IsDb
  <2> QED
    BY <2>1 DEF MapInv, Known, Answered
<1>14. ASSUME NEW c \in Config, RemoveShard(c) PROVE MapInv'
  BY <1>3, <1>14 DEF RemoveShard, Empty
<1>15. ASSUME NEW r \in db.rows, Allocate(r) PROVE MapInv'
  <2>1. db'.map = db.map /\ draft'.map = draft.map
    BY <1>15 DEF Allocate, OnceInv, IsDb
  <2>2. /\ change' = change /\ plans' = plans /\ pc' = pc /\ conn' = conn /\ found' = found
        /\ Statements' = Statements
    BY <1>15, SameStatements DEF Allocate
  <2> QED
    BY <2>1, <2>2 DEF MapInv, Known, Answered, Ahead
<1>16. CASE UNCHANGED vars
  <2>1. /\ change' = change /\ plans' = plans /\ pc' = pc /\ conn' = conn /\ found' = found
        /\ db' = db /\ draft' = draft /\ Statements' = Statements
    BY <1>16, SameStatements DEF vars, work
  <2> QED
    BY <2>1 DEF MapInv, Known, Answered, Ahead
<1> QED
  BY <1>4, <1>5, <1>6, <1>7, <1>8, <1>9, <1>10, <1>11, <1>12, <1>13, <1>14, <1>15, <1>16, <1>17
  DEF Next, Run

-----------------------------------------------------------------------------
(* The invariants.                                                         *)

LEMMA OnceAlways == Spec => [](TypeOK /\ OnceInv)
<1>1. Init => OnceInv
  <2> SUFFICES ASSUME Init PROVE OnceInv
    OBVIOUS
  <2>1. IsDb(db) /\ IsDb(draft) /\ db.rows = {} /\ draft.rows = {}
    BY DEF Init, Empty, IsDb
  <2>2. Owned(db) /\ Owned(draft) /\ Once(db) /\ Once(draft)
    BY <2>1 DEF Owned, Once
  <2>3. OneOwner /\ Underway
    BY DEF Init, OneOwner, Underway, Stands
  <2>4. NotYet(db) /\ NotYet(draft) /\ ToDelete /\ ToCommit
    BY NothingAhead DEF Init
  <2> QED
    BY <2>1, <2>2, <2>3, <2>4 DEF OnceInv
<1>2. TypeOK /\ TypeOK' /\ OnceInv /\ [Next]_vars => OnceInv'
  BY OnceStep
<1> QED
  BY <1>1, <1>2, MetadataTyping, PTL DEF Spec

LEMMA RecordAlways == Spec => [](TypeOK /\ OnceInv /\ RecordInv)
<1>1. Init => RecordInv
  <2> SUFFICES ASSUME Init PROVE RecordInv
    OBVIOUS
  <2>1. SkipsOwned /\ AllRecorded(db) /\ AllRecorded(draft)
    BY DEF Init, SkipsOwned, Stands, AllRecorded
  <2>2. RunInDraft /\ RunInDb /\ PlansTyped
    BY DEF Init, NoChange, RunInDraft, RunInDb, PlansTyped
  <2>3. Counted(db) /\ Counted(draft) /\ OwnPorts
    BY DEF Init, Empty, Counted, OwnPorts, Stands
  <2> QED
    BY <2>1, <2>2, <2>3 DEF RecordInv
<1>2. TypeOK /\ OnceInv /\ RecordInv /\ [Next]_vars => RecordInv'
  BY RecordStep
<1> QED
  BY <1>1, <1>2, OnceAlways, PTL DEF Spec

\* Whatever fails and wherever, in additions and cleans that are repeated as often as
\* one likes: a machine gets a second row for the instances of one type only if the
\* tables do not refuse it and an addition is run again after its rows were committed.
THEOREM RowsAreOnce == Spec => []RowsOnce
<1>1. OnceInv => RowsOnce
  BY DEF OnceInv, Once, RowsOnce
<1> QED
  BY <1>1, OnceAlways, PTL

\* The ports of what is installed stay in all rows of its machines, whatever other
\* configurations are installed and cleaned meanwhile, and however that fails and is
\* repeated; and there is no such row in one case only, which is then the case: that no
\* installed configuration set the machine up for instances of this type.
THEOREM PortsAreRecorded == Spec => []PortsRecorded
<1>1. TypeOK /\ OnceInv /\ RecordInv => PortsRecorded
  <2> SUFFICES ASSUME TypeOK, OnceInv, RecordInv, NEW c \in Config, standing[c] = "in",
                      NEW i \in DOMAIN Nodes(c), NEW t \in Types, Nodes(c)[i].ports[t] > 0
               PROVE  /\ RowsFor(db, Nodes(c)[i].ip, t) = {} <=>
                            ~\E o \in Config : standing[o] = "in" /\ SetsUp(o, Nodes(c)[i].ip, t)
                      /\ \A r \in RowsFor(db, Nodes(c)[i].ip, t) : RowOf(c, i, t).used \subseteq r.used
    BY DEF PortsRecorded, Nodes
  <2> DEFINE m == Nodes(c)[i].ip
  <2>1. t \in Wanted(c, i)
    <3>1. t \in ToSet(TypesOf(Nodes(c)[i].nodetype))
      BY MetadataAssumption DEF Validated, Nodes
    <3> QED
      BY <3>1 DEF Wanted, Fresh, More
  <2>2. \A r \in RowsFor(db, m, t) : RowOf(c, i, t).used \subseteq r.used
    <3>1. Recorded(db, RowStmt(c, i, t))
      BY <2>1 DEF RecordInv, AllRecorded
    <3> QED
      BY <3>1, RowOfIs DEF Recorded, RowStmt, Stmt
  \* Who set the machine up has made the row.
  <2>3. ASSUME NEW o \in Config, standing[o] = "in", SetsUp(o, m, t) PROVE RowsFor(db, m, t) # {}
    <3>1. PICK n \in ToSet(Nodes(o)) : n.ip = m /\ ~n.skip /\ t \in ToSet(TypesOf(n.nodetype))
      BY <2>3, Zenon DEF SetsUp, Nodes
    <3>2. PICK j \in DOMAIN Nodes(o) : n = Nodes(o)[j]
      BY <3>1 DEF ToSet
    <3>3. t \in Wanted(o, j)
      BY <3>1, <3>2 DEF Wanted, Fresh
    <3>4. Recorded(db, RowStmt(o, j, t))
      BY <2>3, <3>3 DEF RecordInv, AllRecorded
    <3>5. RowStmt(o, j, t).op = "insert_row" /\ RowStmt(o, j, t).arg = RowOf(o, j, t)
      BY <3>1, <3>2 DEF RowStmt, Stmt
    <3> QED
      BY <3>1, <3>2, <3>4, <3>5, RowOfIs DEF Recorded
  \* Who owns a row is installed for as long as c is.
  <2>4. ASSUME NEW r \in RowsFor(db, m, t)
        PROVE  \E o \in Config : standing[o] = "in" /\ SetsUp(o, m, t)
    <3>1. r \in db.rows /\ r.ip = m /\ r.type = t
      BY DEF RowsFor
    <3>2. PICK o \in Config : Stands(o) /\ SetsUp(o, m, t)
      BY <3>1 DEF OnceInv, Owned
    <3>3. m \in Owns(o)
      BY <3>2, SetsUpIs
    <3>4. CASE Nodes(c)[i].skip
      <4>1. Nodes(c)[i] \in ToSet(Nodes(c))
        BY DEF ToSet
      <4>2. m \in Skips(c)
        BY <3>4, <4>1, Zenon DEF Skips, Nodes
      <4>3. PICK u \in Config : standing[u] = "in" /\ m \in Owns(u)
        BY <4>2 DEF RecordInv, SkipsOwned, Stands
      <4>4. u = o
        BY <3>2, <3>3, <4>3 DEF OnceInv, OneOwner, Stands
      <4> QED
        BY <3>2, <4>3, <4>4
    <3>5. CASE ~Nodes(c)[i].skip
      <4>1. m \in Owns(c)
        BY <3>5, OwnElement
      <4>2. o = c
        BY <3>2, <3>3, <4>1 DEF OnceInv, OneOwner, Stands
      <4> QED
        BY <3>2, <4>2
    <3> QED
      BY <3>4, <3>5
  <2> QED
    BY <2>2, <2>3, <2>4
<1> QED
  BY <1>1, RecordAlways, PTL

\* As long as each installation gets the counters as they stand and no cluster
\* manager gives ports away in between, no port of a machine is given twice.
THEOREM PortsAreGivenOnce == Spec => []PortsGivenOnce
<1>1. Init => OnceGivenInv
  BY DEF Init, Empty, NoChange, OnceGivenInv, PortsGiven, Below, Single, NewPorts
<1>2. TypeOK /\ TypeOK' /\ OnceInv /\ RecordInv /\ RecordInv' /\ OnceGivenInv /\ [Next]_vars
         => OnceGivenInv'
  BY PortsStep
<1>3. OnceGivenInv => PortsGivenOnce
  BY DEF OnceGivenInv, PortsGiven, Single, PortsGivenOnce
<1> QED
  BY <1>1, <1>2, <1>3, RecordAlways, PTL DEF Spec

\* Though get_cluster_id takes a lost connection for an unknown cluster, what it
\* answers then is never committed.
THEOREM ClustersAreKnown == Spec => []NoUnknownCluster
<1>1. Init => MapInv
  BY DEF Init, Empty, NoChange, MapInv, Known, Answered
<1>2. TypeOK /\ TypeOK' /\ OnceInv /\ OnceInv' /\ MapInv /\ [Next]_vars => MapInv'
  BY MapStep
<1>3. MapInv => NoUnknownCluster
  BY DEF MapInv, Known, NoUnknownCluster
<1> QED
  BY <1>1, <1>2, <1>3, OnceAlways, PTL DEF Spec
=============================================================================
