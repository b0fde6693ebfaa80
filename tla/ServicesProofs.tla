--------------------------- MODULE ServicesProofs ---------------------------
(***************************************************************************)
(* Proofs about SystemServices for any number of configured addresses, NATS *)
(* servers, accounts, requests and snapshots: what a start leaves behind,  *)
(* whatever the starts before it left half done, and what the monitor      *)
(* shows, in whatever order its callbacks and handlers run.                *)
(***************************************************************************)
EXTENDS SystemServices, TLAPS, FiniteSetTheorems

-----------------------------------------------------------------------------
\* The start.

Seeding == {"down", "count", "insert"}

\* Only an empty table is seeded, with one address; a start that went past the
\* seeding without an error found or made an administrator, and one that went
\* past the file of the system account with RESOLVER_DIR left it complete.
Started ==
    /\ At("insert") => admins = {}
    /\ admins = {} \/ \E e \in Emails : admins = {e}
    /\ process.pc \notin Seeding /\ ~process.failed => admins # {}
    /\ process.pc \in {"read", "write"} => process.shared
    /\ At("connect") /\ process.shared /\ ~process.failed => sysJWT = "complete"
    /\ BootConnects

BootInv == BootTypeOK /\ Started

\* The statements of a start, one by one.
LEMMA InitBoot == BootInit => BootInv
BY DEF BootInit, BootInv, BootTypeOK, Started, BootConnects, Ended, At, Down, Process, Seeding

LEMMA StartBoot ==
    ASSUME BootInv, Start
    PROVE  BootInv'
BY DEF Start, BootInv, BootTypeOK, Started, BootConnects, Ended, At, Down, Process, Seeding

LEMMA CountBoot ==
    ASSUME BootInv, CountAdmins
    PROVE  BootInv'
<1> USE DEF BootInv, BootTypeOK, Started, BootConnects, Ended, At, Process, Seeding
<1>1. CASE Unseeded /\ Continue("insert")
  BY <1>1 DEF CountAdmins, Unseeded, Continue
<1>2. CASE ~Unseeded /\ Continue(Seeded)
  BY <1>2 DEF CountAdmins, Unseeded, Seeded, Continue
<1>3. CASE Fail("db", Seeded)
  BY <1>3 DEF CountAdmins, Seeded, Fail
<1>4. QED
  BY <1>1, <1>2, <1>3 DEF CountAdmins

LEMMA InsertBoot ==
    ASSUME BootInv, InsertAdmin
    PROVE  BootInv'
<1> USE DEF BootInv, BootTypeOK, Started, BootConnects, Ended, At, Process, Seeding
<1>1. PICK e \in Emails :
          \/ admins' = {e} /\ Continue(Seeded)
          \/ admins' \in {{}, {e}} /\ Fail("db", Seeded)
  BY DEF InsertAdmin
<1>2. CASE admins' = {e} /\ Continue(Seeded)
  BY <1>2 DEF InsertAdmin, Seeded, Continue
<1>3. CASE admins' \in {{}, {e}} /\ Fail("db", Seeded)
  BY <1>3 DEF InsertAdmin, Seeded, Fail
<1>4. QED
  BY <1>1, <1>2, <1>3

LEMMA FileBoot ==
    ASSUME BootInv, ReadFile \/ WriteFile
    PROVE  BootInv'
BY DEF ReadFile, WriteFile, Current, Continue, Fail,
       BootInv, BootTypeOK, Started, BootConnects, Ended, At, Process, Seeding

LEMMA ConnectBoot ==
    ASSUME BootInv, Connect
    PROVE  BootInv'
BY DEF Connect, Continue, Fail,
       BootInv, BootTypeOK, Started, BootConnects, Ended, At, Process, Seeding

LEMMA PushBoot ==
    ASSUME BootInv, Push
    PROVE  BootInv'
BY DEF Push, Continue, Fail,
       BootInv, BootTypeOK, Started, BootConnects, Ended, At, Process, Seeding

LEMMA CrashBoot ==
    ASSUME BootInv, Crash
    PROVE  BootInv'
BY DEF Crash, BootInv, BootTypeOK, Started, BootConnects, Ended, At, Down, Process, Seeding

\* Whatever the monitor does, and every statement, a crash included.
LEMMA BootStays == BootInv /\ UNCHANGED bootVars => BootInv'
BY DEF bootVars, BootInv, BootTypeOK, Started, BootConnects, Ended, At, Seeding

LEMMA StartupKeepsBoot ==
    ASSUME BootInv, Start \/ Boot \/ Crash
    PROVE  BootInv'
BY StartBoot, CountBoot, InsertBoot, FileBoot, ConnectBoot, PushBoot, CrashBoot DEF Boot

-----------------------------------------------------------------------------
\* The monitor.

\* Nothing is from the future.
Timely ==
    /\ \A i \in DOMAIN servers : servers[i].at <= now
    /\ \A i \in DOMAIN statsz : statsz[i].at <= now
    /\ \A i \in DOMAIN conns : conns[i].at <= now
    /\ \A h \in Handlers :
           call[h].reply <= now /\ call[h].floor.conns <= now /\ call[h].floor.traffic <= now
    /\ \A a \in Accounts : accounts[a].conns <= now /\ accounts[a].traffic <= now

\* One subscription hands over its messages in the order of their snapshots.
InOrder ==
    /\ \A i, j \in DOMAIN statsz : i < j => statsz[i].at <= statsz[j].at
    /\ \A i \in DOMAIN servers, j \in DOMAIN statsz : servers[i].at <= statsz[j].at

\* So does the other one: what an event wrote, no pending one is older than.
EventsInOrder ==
    /\ \A i, j \in DOMAIN conns : i < j => conns[i].at <= conns[j].at
    /\ \A i \in DOMAIN conns :
           accounts[conns[i].acc].traffic = 0 => accounts[conns[i].acc].conns <= conns[i].at

\* A call that is under way has asked for an account, and its reply is newer
\* than what it found.
RepliesNewer ==
    \A h \in Handlers : call[h].pc # "idle" =>
        /\ call[h].acc \in Accounts
        /\ call[h].pc = "replied" =>
               call[h].floor.conns < call[h].reply /\ call[h].floor.traffic < call[h].reply

\* While a call has its account to itself, whatever may reach the account's
\* entry, or its caller, is as recent as what the call found.
Undisturbed ==
    \A h \in Handlers : call[h].pc # "idle" /\ call[h].alone =>
        /\ AsRecent(accounts[call[h].acc], call[h].floor)
        /\ \A i \in DOMAIN conns :
               conns[i].acc = call[h].acc => call[h].floor.conns < conns[i].at
        /\ \A g \in Handlers : g # h => ~Busy(g, call[h].acc)

Asking == RepliesNewer /\ Undisturbed /\ AnswersAdvance

\* The inductive invariant, in three parts: types and times, rows, calls.
Kinds ==
    /\ MonitorTypeOK
    /\ Timely

MInv == Kinds /\ InOrder /\ OneRowPerServer /\ EventsInOrder /\ Asking

Row == [id : Servers, at : Nat]

\* Sequences: their elements, one less in front, one more behind.
LEMMA Elements ==
    ASSUME NEW S, NEW q \in Seq(S)
    PROVE  /\ Len(q) \in Nat /\ DOMAIN q = 1 .. Len(q)
           /\ \A i \in DOMAIN q : q[i] \in S
OBVIOUS

LEMMA Dequeue ==
    ASSUME NEW S, NEW q \in Seq(S), q # <<>>
    PROVE  /\ RemoveAt(q, 1) \in Seq(S)
           /\ Len(RemoveAt(q, 1)) = Len(q) - 1
           /\ \A i \in DOMAIN RemoveAt(q, 1) : i + 1 \in DOMAIN q /\ RemoveAt(q, 1)[i] = q[i + 1]
<1>1. Len(q) \in Nat /\ Len(q) > 0
  OBVIOUS
<1>2. SubSeq(q, 1, 1 - 1) = <<>> /\ SubSeq(q, 1 + 1, Len(q)) = Tail(q)
  OBVIOUS
<1>3. RemoveAt(q, 1) = <<>> \o Tail(q)
  BY <1>2 DEF RemoveAt
<1>4. RemoveAt(q, 1) = Tail(q)
  BY <1>1, <1>3
<1>5. QED
  BY <1>1, <1>4

\* Rows that differ in their servers are no more than there are servers.
LEMMA RowsFit ==
    ASSUME NEW rows \in Seq(Row),
           \A i, j \in DOMAIN rows : rows[i].id = rows[j].id => i = j
    PROVE  Len(rows) <= Cardinality(Servers)
<1> DEFINE f == [i \in 1 .. Len(rows) |-> rows[i].id]
<1>1. Len(rows) \in Nat /\ DOMAIN rows = 1 .. Len(rows)
  OBVIOUS
<1>2. f \in Injection(1 .. Len(rows), Servers)
  <2>1. \A i \in 1 .. Len(rows) : rows[i] \in Row
    BY <1>1, Elements DEF Row
  <2>2. f \in [1 .. Len(rows) -> Servers]
    BY <2>1 DEF Row
  <2>3. \A i, j \in 1 .. Len(rows) : f[i] = f[j] => i = j
    BY <1>1
  <2>4. QED
    BY <2>2, <2>3 DEF Injection, IsInjective
<1>3. Cardinality(1 .. Len(rows)) <= Cardinality(Servers)
  BY <1>2, FS_Injection, MonitorAssumption
<1>4. Cardinality(1 .. Len(rows)) = Len(rows)
  BY <1>1, FS_Interval
<1>5. QED
  BY <1>3, <1>4

\* A row is replaced in its place or added at the end.
LEMMA UpsertRows ==
    ASSUME NEW rows \in Seq(Row), NEW s \in Row,
           \A i, j \in DOMAIN rows : rows[i].id = rows[j].id => i = j,
           NEW r, r = Upsert(rows, s)
    PROVE  /\ r \in Seq(Row)
           /\ \A i, j \in DOMAIN r : r[i].id = r[j].id => i = j
           /\ \A i \in DOMAIN rows :
                  i \in DOMAIN r /\ r[i].id = rows[i].id /\ (r[i] = rows[i] \/ r[i] = s)
           /\ \A i \in DOMAIN r :
                  \/ r[i] = s
                  \/ i \in DOMAIN rows /\ r[i] = rows[i]
<1>1. DOMAIN rows = 1 .. Len(rows) /\ Len(rows) \in Nat
  OBVIOUS
<1>2. CASE \E i \in DOMAIN rows : rows[i].id = s.id
  <2>1. r = [i \in DOMAIN rows |-> IF rows[i].id = s.id THEN s ELSE rows[i]]
    BY <1>2 DEF Upsert
  <2>2. DOMAIN r = 1 .. Len(rows)
    BY <1>1, <2>1
  <2>3. \A i \in DOMAIN rows : rows[i] \in Row
    BY Elements
  <2>4. \A i \in DOMAIN rows : \/ r[i] = rows[i]
                               \/ r[i] = s /\ rows[i].id = s.id
    BY <2>1
  <2>5. \A i \in DOMAIN r :
            r[i] \in Row /\ r[i].id = rows[i].id
    BY <1>1, <2>2, <2>3, <2>4
  <2>6. r \in Seq(Row)
    BY <1>1, <2>1, <2>2, <2>5
  <2>7. \A i, j \in DOMAIN r : r[i].id = r[j].id => i = j
    BY <1>1, <2>2, <2>5
  <2>8. QED
    BY <1>1, <2>2, <2>4, <2>5, <2>6, <2>7
<1>3. CASE \A i \in DOMAIN rows : rows[i].id # s.id
  <2>1. r = Append(rows, s)
    BY <1>3 DEF Upsert
  <2>2. /\ r \in Seq(Row)
        /\ DOMAIN r = 1 .. Len(rows) + 1
        /\ r[Len(rows) + 1] = s
        /\ \A i \in DOMAIN rows : r[i] = rows[i]
    BY <1>1, <2>1
  <2>3. \A i \in DOMAIN r : i = Len(rows) + 1 \/ i \in DOMAIN rows
    BY <1>1, <2>2
  <2>4. \A i \in DOMAIN rows : i \in DOMAIN r /\ r[i].id = rows[i].id /\ r[i] = rows[i]
    BY <1>1, <2>2
  <2>5. \A i, j \in DOMAIN r : r[i].id = r[j].id => i = j
    <3> SUFFICES ASSUME NEW i \in DOMAIN r, NEW j \in DOMAIN r, r[i].id = r[j].id
                 PROVE  i = j
      OBVIOUS
    <3>1. CASE i \in DOMAIN rows /\ j \in DOMAIN rows
      BY <2>2, <3>1
    <3>2. CASE i \notin DOMAIN rows
      BY <1>3, <2>2, <2>3, <3>2
    <3>3. CASE j \notin DOMAIN rows
      BY <1>3, <2>2, <2>3, <3>3
    <3>4. QED
      BY <3>1, <3>2, <3>3
  <2>6. QED
    BY <2>2, <2>3, <2>4, <2>5
<1>4. QED
  BY <1>2, <1>3

LEMMA Enqueue ==
    ASSUME NEW S, NEW q \in Seq(S), NEW e \in S, NEW r, r = Append(q, e)
    PROVE  /\ r \in Seq(S)
           /\ Len(r) = Len(q) + 1 /\ Len(q) \in Nat
           /\ \A i \in DOMAIN r :
                  \/ i \in DOMAIN q /\ r[i] = q[i]
                  \/ i = Len(q) + 1 /\ r[i] = e
OBVIOUS

\* What the invariant says of the elements of the sequences.
LEMMA Items ==
    ASSUME Kinds
    PROVE  /\ now \in Nat
           /\ servers \in Seq(Row) /\ statsz \in Seq(Row)
           /\ \A i \in DOMAIN servers : servers[i].at \in Nat
           /\ \A i \in DOMAIN statsz : statsz[i] \in Row /\ statsz[i].at \in Nat
           /\ \A i \in DOMAIN conns : conns[i].acc \in Accounts /\ conns[i].at \in Nat
           /\ \A a \in Accounts :
                  /\ accounts[a] \in Numbers
                  /\ accounts[a].conns \in Nat /\ accounts[a].traffic \in Nat
           /\ \A h \in Handlers :
                  /\ call[h] \in Call
                  /\ call[h].reply \in Nat
                  /\ call[h].floor \in Numbers
                  /\ call[h].floor.conns \in Nat /\ call[h].floor.traffic \in Nat
<1>1. MonitorTypeOK
  BY DEF Kinds
<1>2. servers \in Seq(Row) /\ statsz \in Seq(Row)
  BY <1>1 DEF MonitorTypeOK, Row
<1>3. \A i \in DOMAIN servers : servers[i] \in Row
  BY <1>2, Elements
<1>4. \A i \in DOMAIN statsz : statsz[i] \in Row
  BY <1>2, Elements
<1>5. \A i \in DOMAIN conns : conns[i] \in [acc : Accounts, at : Nat]
  <2>1. conns \in Seq([acc : Accounts, at : Nat])
    BY <1>1 DEF MonitorTypeOK
  <2>2. QED
    BY <2>1, Elements
<1>6. \A r \in Row : r.at \in Nat
  BY DEF Row
<1>7. now \in Nat /\ \A h \in Handlers : call[h] \in Call
  BY <1>1 DEF MonitorTypeOK
<1>8. \A a \in Accounts : accounts[a] \in Numbers
  BY <1>1 DEF MonitorTypeOK
<1>9. \A c \in Call : c.reply \in Nat /\ c.floor \in Numbers
  BY DEF Call
<1>10. \A n \in Numbers : n.conns \in Nat /\ n.traffic \in Nat
  BY DEF Numbers
<1>11. QED
  BY <1>2, <1>3, <1>4, <1>5, <1>6, <1>7, <1>8, <1>9, <1>10

\* The empty sequence.
LEMMA NoElements ==
    /\ \A S : <<>> \in Seq(S)
    /\ Len(<<>>) = 0
    /\ 0 <= ChanCap /\ 0 <= Cardinality(Servers)
<1>1. Cardinality(Servers) \in Nat /\ ChanCap \in Nat
  BY FS_CardinalityType, MonitorAssumption
<1>2. QED
  BY <1>1

\* An empty monitor.
LEMMA InitMonitor == MonitorInit => MInv
<1> SUFFICES ASSUME MonitorInit
             PROVE  MInv
  OBVIOUS
<1> USE DEF MonitorInit
<1>1. /\ NoCall \in Call /\ NoCall.pc = "idle"
      /\ NoCall.reply = 0 /\ NoCall.floor = NoNumbers /\ NoCall.answer = NoNumbers
      /\ NoNumbers \in Numbers /\ NoNumbers.conns = 0 /\ NoNumbers.traffic = 0
  BY DEF NoCall, Call, NoNumbers, Numbers
<1>2. MonitorTypeOK
  <2>1. accounts \in [Accounts -> Numbers] /\ call \in [Handlers -> Call]
    BY <1>1
  <2>2. now \in Nat /\ listening \in BOOLEAN
    OBVIOUS
  <2>3. QED
    BY <2>1, <2>2, NoElements DEF MonitorTypeOK
<1>3. Timely /\ InOrder /\ OneRowPerServer /\ EventsInOrder
  BY <1>1 DEF Timely, InOrder, OneRowPerServer, EventsInOrder
<1>4. Asking
  BY <1>1 DEF Asking, RepliesNewer, Undisturbed, AnswersAdvance, AsRecent
<1>5. QED
  BY <1>2, <1>3, <1>4 DEF MInv, Kinds

LEMMA MonitorStays == MInv /\ UNCHANGED monitorVars => MInv'
BY DEF monitorVars, MInv, Kinds, MonitorTypeOK, Timely, InOrder, OneRowPerServer,
       EventsInOrder, Asking, RepliesNewer, Undisturbed, AnswersAdvance, AsRecent, Busy

\* Subscribing, and ending the subscriptions with what they have pending.
LEMMA ListenStep ==
    ASSUME MInv, Listen
    PROVE  MInv'
BY DEF Listen, MInv, Kinds, MonitorTypeOK, Timely, InOrder, OneRowPerServer,
       EventsInOrder, Asking, RepliesNewer, Undisturbed, AnswersAdvance, AsRecent, Busy

\* What a process had collected ends with it.
LEMMA ForgetStep ==
    ASSUME MInv, Forget
    PROVE  MInv'
<1> USE DEF Forget
<1>1. /\ NoCall \in Call /\ NoCall.pc = "idle"
      /\ NoCall.reply = 0 /\ NoCall.floor = NoNumbers /\ NoCall.answer = NoNumbers
      /\ NoNumbers \in Numbers /\ NoNumbers.conns = 0 /\ NoNumbers.traffic = 0
  BY DEF NoCall, Call, NoNumbers, Numbers
<1>2. now \in Nat
  BY DEF MInv, Kinds, MonitorTypeOK
<1>3. MonitorTypeOK'
  <2>1. accounts' \in [Accounts -> Numbers] /\ call' \in [Handlers -> Call]
    BY <1>1, <1>2
  <2>2. now' \in Nat /\ listening' \in BOOLEAN
    BY <1>2
  <2>3. QED
    BY <2>1, <2>2, NoElements DEF MonitorTypeOK
<1>4. Timely' /\ InOrder' /\ OneRowPerServer' /\ EventsInOrder'
  BY <1>1, <1>2 DEF Timely, InOrder, OneRowPerServer, EventsInOrder
<1>5. Asking'
  BY <1>1 DEF Asking, RepliesNewer, Undisturbed, AnswersAdvance, AsRecent
<1>6. QED
  BY <1>3, <1>4, <1>5 DEF MInv, Kinds

LEMMA StopStep ==
    ASSUME MInv, Stop
    PROVE  MInv'
<1> USE DEF Stop
<1>1. Kinds'
  <2>1. listening' \in BOOLEAN
    OBVIOUS
  <2>2. MonitorTypeOK'
    BY <2>1, NoElements DEF MInv, Kinds, MonitorTypeOK
  <2>3. Timely'
    BY DEF MInv, Kinds, Timely
  <2>4. QED
    BY <2>2, <2>3 DEF Kinds
<1>2. InOrder' /\ OneRowPerServer' /\ EventsInOrder'
  BY DEF MInv, InOrder, OneRowPerServer, EventsInOrder
<1>3. Asking'
  BY DEF MInv, Asking, RepliesNewer, Undisturbed, AnswersAdvance, AsRecent, Busy
<1>4. QED
  BY <1>1, <1>2, <1>3 DEF MInv

\* A report of a server is newer than whatever is known or pending.
LEMMA PublishServerStep ==
    ASSUME MInv, NEW s \in Servers, PublishServer(s)
    PROVE  MInv'
<1> DEFINE m == [id |-> s, at |-> now']
<1>1. /\ now' = now + 1 /\ now \in Nat
      /\ Len(statsz) < ChanCap /\ statsz' = Append(statsz, m)
      /\ UNCHANGED <<servers, accounts, conns, call, listening>>
  BY DEF PublishServer, Sample, MInv, Kinds, MonitorTypeOK
<1>2. m \in Row /\ m.at = now'
  BY <1>1 DEF Row
<1>3. statsz \in Seq(Row)
  BY Items DEF MInv
<1> HIDE DEF m
<1>4. /\ statsz' \in Seq(Row)
      /\ Len(statsz') = Len(statsz) + 1 /\ Len(statsz) \in Nat
      /\ DOMAIN statsz = 1 .. Len(statsz)
      /\ \A i \in DOMAIN statsz' :
             \/ i \in DOMAIN statsz /\ statsz'[i] = statsz[i]
             \/ i = Len(statsz) + 1 /\ statsz'[i] = m
  BY <1>1, <1>2, <1>3, Enqueue, Elements
<1>5. MonitorTypeOK'
  <2>1. Len(statsz') <= ChanCap
    BY <1>1, <1>4, MonitorAssumption
  <2>2. QED
    BY <1>1, <1>4, <2>1 DEF MInv, Kinds, MonitorTypeOK, Row
<1>6. Timely'
  BY <1>1, <1>2, <1>4, Items DEF MInv, Kinds, Timely
<1>7. InOrder'
  BY <1>1, <1>2, <1>4, Items DEF MInv, Kinds, Timely, InOrder
<1>8. OneRowPerServer' /\ EventsInOrder' /\ Asking'
  BY <1>1 DEF MInv, OneRowPerServer, EventsInOrder,
              Asking, RepliesNewer, Undisturbed, AnswersAdvance, AsRecent, Busy
<1>9. QED
  BY <1>5, <1>6, <1>7, <1>8 DEF MInv, Kinds

\* An event is newer than what any call found.
LEMMA PublishAccountStep ==
    ASSUME MInv, NEW a \in Accounts, PublishAccount(a)
    PROVE  MInv'
<1> DEFINE m == [acc |-> a, at |-> now']
<1>1. /\ now' = now + 1 /\ now \in Nat
      /\ Len(conns) < ChanCap /\ conns' = Append(conns, m)
      /\ UNCHANGED <<servers, accounts, statsz, call, listening>>
  BY DEF PublishAccount, Sample, MInv, Kinds, MonitorTypeOK
<1>2. m \in [acc : Accounts, at : Nat] /\ m.at = now'
  BY <1>1
<1>3. conns \in Seq([acc : Accounts, at : Nat])
  BY DEF MInv, Kinds, MonitorTypeOK
<1> HIDE DEF m
<1>4. /\ conns' \in Seq([acc : Accounts, at : Nat])
      /\ Len(conns') = Len(conns) + 1 /\ Len(conns) \in Nat
      /\ \A i \in DOMAIN conns' :
             \/ i \in DOMAIN conns /\ conns'[i] = conns[i]
             \/ i = Len(conns) + 1 /\ conns'[i] = m
  BY <1>1, <1>2, <1>3, Enqueue
<1>5. MonitorTypeOK'
  <2>1. Len(conns') <= ChanCap
    BY <1>1, <1>4, MonitorAssumption
  <2>2. QED
    BY <1>1, <1>4, <2>1 DEF MInv, Kinds, MonitorTypeOK
<1>6. Timely'
  BY <1>1, <1>2, <1>4, Items DEF MInv, Kinds, Timely
<1>7. InOrder' /\ OneRowPerServer'
  BY <1>1 DEF MInv, InOrder, OneRowPerServer
<1>8. EventsInOrder'
  <2>1. m.acc \in Accounts /\ \A i \in DOMAIN conns : conns[i].at \in Nat /\ conns[i].at <= now
    BY <1>2, Items DEF MInv, Kinds, Timely
  <2>2. DOMAIN conns = 1 .. Len(conns) /\ DOMAIN conns' = 1 .. Len(conns')
    BY <1>3, <1>4, Elements
  <2>3. \A i, j \in DOMAIN conns' : i < j => conns'[i].at <= conns'[j].at
    BY <1>1, <1>2, <1>4, <2>1, <2>2 DEF MInv, EventsInOrder
  <2>4. accounts[m.acc].conns \in Nat /\ accounts[m.acc].conns <= now
    BY <2>1, Items DEF MInv, Kinds, Timely
  <2>5. \A i \in DOMAIN conns' :
            accounts[conns'[i].acc].traffic = 0 => accounts[conns'[i].acc].conns <= conns'[i].at
    BY <1>1, <1>2, <1>4, <2>4 DEF MInv, EventsInOrder
  <2>6. QED
    BY <1>1, <2>3, <2>5 DEF EventsInOrder
<1>9. Asking'
  <2>1. \A h \in Handlers : call[h].floor.conns \in Nat /\ call[h].floor.conns <= now
    BY Items DEF MInv, Kinds, Timely
  <2>2. Undisturbed'
    BY <1>1, <1>2, <1>4, <2>1 DEF MInv, Asking, Undisturbed, AsRecent, Busy
  <2>3. QED
    BY <1>1, <2>2 DEF MInv, Asking, RepliesNewer, AnswersAdvance, AsRecent
<1>10. QED
  BY <1>5, <1>6, <1>7, <1>8, <1>9 DEF MInv, Kinds

\* The callback is given the oldest report, which no row is newer than.
LEMMA OnStatszFacts ==
    ASSUME MInv, OnStatsz
    PROVE  /\ statsz # <<>> /\ 1 \in DOMAIN statsz
           /\ servers' = Upsert(servers, statsz[1])
           /\ statsz' = RemoveAt(statsz, 1)
           /\ UNCHANGED <<accounts, now, conns, call, listening>>
           /\ servers \in Seq(Row)
           /\ statsz \in Seq(Row)
           /\ statsz[1] \in Row
           /\ \A i \in DOMAIN servers : servers[i].at <= statsz[1].at
<1>1. /\ statsz # <<>>
      /\ servers' = Upsert(servers, statsz[1])
      /\ statsz' = RemoveAt(statsz, 1)
      /\ UNCHANGED <<accounts, now, conns, call, listening>>
  BY DEF OnStatsz, Pending
<1>2. servers \in Seq(Row) /\ statsz \in Seq(Row)
  BY Items DEF MInv
<1>3. 1 \in DOMAIN statsz
  BY <1>1, <1>2
<1>4. QED
  BY <1>1, <1>2, <1>3, Elements DEF MInv, InOrder

\* The oldest report makes or replaces a row.
LEMMA OnStatszStep ==
    ASSUME MInv, OnStatsz
    PROVE  MInv'
<1> DEFINE m == statsz[1]
<1>1. /\ servers' = Upsert(servers, m)
      /\ statsz' = RemoveAt(statsz, 1)
      /\ UNCHANGED <<accounts, now, conns, call, listening>>
      /\ servers \in Seq(Row)
      /\ m \in Row
      /\ \A i \in DOMAIN servers : servers[i].at <= m.at
      /\ 1 \in DOMAIN statsz
      /\ now \in Nat
      /\ \A i, j \in DOMAIN servers : servers[i].id = servers[j].id => i = j
  BY OnStatszFacts, Items DEF MInv, OneRowPerServer
<1> HIDE DEF m
<1>2. /\ servers' \in Seq(Row)
      /\ \A i, j \in DOMAIN servers' : servers'[i].id = servers'[j].id => i = j
      /\ \A i \in DOMAIN servers' :
             \/ servers'[i] = m
             \/ i \in DOMAIN servers /\ servers'[i] = servers[i]
  BY <1>1, UpsertRows
<1>3. /\ statsz' \in Seq(Row)
      /\ Len(statsz') = Len(statsz) - 1 /\ Len(statsz) \in Nat
      /\ DOMAIN statsz = 1 .. Len(statsz) /\ DOMAIN statsz' = 1 .. Len(statsz')
      /\ \A i \in DOMAIN statsz' : i + 1 \in DOMAIN statsz /\ statsz'[i] = statsz[i + 1]
  BY OnStatszFacts, Dequeue, Elements
<1>4. \A i \in DOMAIN statsz : statsz[i].at \in Nat /\ m.at <= statsz[i].at
  <2> SUFFICES ASSUME NEW i \in DOMAIN statsz
               PROVE  statsz[i].at \in Nat /\ m.at <= statsz[i].at
    OBVIOUS
  <2>1. statsz[i].at \in Nat
    BY Items DEF MInv
  <2>2. CASE i = 1
    BY <2>1, <2>2 DEF m
  <2>3. CASE 1 < i
    BY <1>1, <2>1, <2>3 DEF m, MInv, InOrder
  <2>4. QED
    BY <1>3, <2>1, <2>2, <2>3
<1>5. m.at <= now /\ m.at \in Nat
  BY <1>1, Items DEF m, MInv, Kinds, Timely
<1>6. MonitorTypeOK'
  <2>1. Len(servers') <= Cardinality(Servers)
    BY <1>2, RowsFit
  <2>2. Len(statsz') <= ChanCap
    BY <1>3, MonitorAssumption DEF MInv, Kinds, MonitorTypeOK
  <2>3. QED
    BY <1>1, <1>2, <1>3, <2>1, <2>2 DEF MInv, Kinds, MonitorTypeOK, Row
<1>7. Timely'
  BY <1>1, <1>2, <1>3, <1>5 DEF MInv, Kinds, Timely
<1>8. InOrder'
  <2>1. \A i, j \in DOMAIN statsz' : i < j => statsz'[i].at <= statsz'[j].at
    BY <1>3 DEF MInv, InOrder
  <2>2. \A i \in DOMAIN servers', j \in DOMAIN statsz' : servers'[i].at <= statsz'[j].at
    BY <1>2, <1>3, <1>4 DEF MInv, InOrder
  <2>3. QED
    BY <2>1, <2>2 DEF InOrder
<1>9. OneRowPerServer'
  BY <1>2 DEF OneRowPerServer
<1>10. EventsInOrder' /\ Asking'
  BY <1>1 DEF MInv, EventsInOrder,
              Asking, RepliesNewer, Undisturbed, AnswersAdvance, AsRecent, Busy
<1>11. QED
  BY <1>6, <1>7, <1>8, <1>9, <1>10 DEF MInv, Kinds

\* It keeps the place of every row.
LEMMA OnStatszKeepsRows ==
    ASSUME MInv, OnStatsz, NEW i \in DOMAIN servers
    PROVE  /\ i \in DOMAIN servers'
           /\ servers'[i].id = servers[i].id
           /\ servers'[i].at >= servers[i].at
<1> DEFINE m == statsz[1]
<1>1. /\ servers' = Upsert(servers, m)
      /\ servers \in Seq(Row) /\ m \in Row
      /\ servers[i].at <= m.at
      /\ servers[i].at \in Nat
      /\ \A j, k \in DOMAIN servers : servers[j].id = servers[k].id => j = k
  BY OnStatszFacts, Items DEF MInv, OneRowPerServer
<1>2. m.at \in Nat
  BY <1>1 DEF Row
<1> HIDE DEF m
<1>3. \A j \in DOMAIN servers :
          j \in DOMAIN servers' /\ servers'[j].id = servers[j].id
          /\ (servers'[j] = servers[j] \/ servers'[j] = m)
  <2>1. \A r : r = Upsert(servers, m) =>
            \A j \in DOMAIN servers :
                j \in DOMAIN r /\ r[j].id = servers[j].id /\ (r[j] = servers[j] \/ r[j] = m)
    BY <1>1, UpsertRows
  <2>2. QED
    BY <1>1, <2>1
<1>4. QED
  BY <1>1, <1>2, <1>3

\* The oldest event is newer than what a private call found, and than an entry
\* that an event wrote.
LEMMA OnConnsFacts ==
    ASSUME MInv, OnConns, NEW m, m = conns[1]
    PROVE  /\ accounts' = [accounts EXCEPT ![m.acc] = [conns |-> m.at, traffic |-> 0]]
           /\ UNCHANGED <<servers, now, statsz, call, listening>>
           /\ now \in Nat
           /\ accounts \in [Accounts -> Numbers]
           /\ 1 \in DOMAIN conns
           /\ m.acc \in Accounts /\ m.at \in Nat /\ m.at <= now
           /\ \A i \in DOMAIN conns : conns[i].at \in Nat /\ m.at <= conns[i].at
           /\ conns' \in Seq([acc : Accounts, at : Nat])
           /\ Len(conns') = Len(conns) - 1 /\ Len(conns) \in Nat
           /\ DOMAIN conns = 1 .. Len(conns) /\ DOMAIN conns' = 1 .. Len(conns')
           /\ \A i \in DOMAIN conns' : i + 1 \in DOMAIN conns /\ conns'[i] = conns[i + 1]
<1>1. /\ conns # <<>>
      /\ accounts' = [accounts EXCEPT ![m.acc] = [conns |-> m.at, traffic |-> 0]]
      /\ conns' = RemoveAt(conns, 1)
      /\ UNCHANGED <<servers, now, statsz, call, listening>>
      /\ now \in Nat
  BY Items DEF OnConns, Pending, MInv
<1>2. conns \in Seq([acc : Accounts, at : Nat]) /\ accounts \in [Accounts -> Numbers]
  BY DEF MInv, Kinds, MonitorTypeOK
<1>3. 1 \in DOMAIN conns
  BY <1>1, <1>2
<1>4. m.acc \in Accounts /\ m.at \in Nat /\ m.at <= now
  BY <1>3, Items DEF MInv, Kinds, Timely
<1>5. /\ conns' \in Seq([acc : Accounts, at : Nat])
      /\ Len(conns') = Len(conns) - 1
      /\ \A i \in DOMAIN conns' : i + 1 \in DOMAIN conns /\ conns'[i] = conns[i + 1]
  BY <1>1, <1>2, Dequeue
<1>6. /\ Len(conns) \in Nat
      /\ DOMAIN conns = 1 .. Len(conns) /\ DOMAIN conns' = 1 .. Len(conns')
  BY <1>2, <1>5, Elements
<1>7. \A i \in DOMAIN conns : conns[i].at \in Nat /\ m.at <= conns[i].at
  <2> SUFFICES ASSUME NEW i \in DOMAIN conns
               PROVE  conns[i].at \in Nat /\ m.at <= conns[i].at
    OBVIOUS
  <2>1. conns[i].at \in Nat
    BY Items DEF MInv
  <2>2. CASE i = 1
    BY <1>4, <2>1, <2>2
  <2>3. CASE 1 < i
    BY <1>3, <2>1, <2>3 DEF MInv, EventsInOrder
  <2>4. QED
    BY <1>6, <2>1, <2>2, <2>3
<1>8. QED
  BY <1>1, <1>2, <1>3, <1>4, <1>5, <1>6, <1>7

LEMMA OnConnsStep ==
    ASSUME MInv, OnConns
    PROVE  MInv'
<1> DEFINE m == conns[1]
           e == [conns |-> m.at, traffic |-> 0]
<1>1. /\ accounts' = [accounts EXCEPT ![m.acc] = e]
      /\ UNCHANGED <<servers, now, statsz, call, listening>>
      /\ now \in Nat
      /\ accounts \in [Accounts -> Numbers]
      /\ 1 \in DOMAIN conns
      /\ m.acc \in Accounts /\ m.at \in Nat /\ m.at <= now
      /\ \A i \in DOMAIN conns : conns[i].at \in Nat /\ m.at <= conns[i].at
      /\ conns' \in Seq([acc : Accounts, at : Nat])
      /\ Len(conns') = Len(conns) - 1 /\ Len(conns) \in Nat
      /\ DOMAIN conns = 1 .. Len(conns) /\ DOMAIN conns' = 1 .. Len(conns')
      /\ \A i \in DOMAIN conns' : i + 1 \in DOMAIN conns /\ conns'[i] = conns[i + 1]
  BY OnConnsFacts
<1>2. e \in Numbers /\ e.conns = m.at /\ e.traffic = 0
  BY <1>1 DEF Numbers
<1>3. m = conns[1]
  OBVIOUS
<1> HIDE DEF m, e
<1>4. /\ accounts' \in [Accounts -> Numbers]
      /\ accounts'[m.acc] = e
      /\ \A a \in Accounts : a # m.acc => accounts'[a] = accounts[a]
  BY <1>1, <1>2
<1>5. Kinds'
  <2>1. Len(conns') <= ChanCap
    BY <1>1, MonitorAssumption DEF MInv, Kinds, MonitorTypeOK
  <2>2. MonitorTypeOK'
    BY <1>1, <1>4, <2>1 DEF MInv, Kinds, MonitorTypeOK
  <2>3. \A a \in Accounts : accounts'[a].conns <= now /\ accounts'[a].traffic <= now
    BY <1>1, <1>2, <1>4 DEF MInv, Kinds, Timely
  <2>4. Timely'
    BY <1>1, <2>3 DEF MInv, Kinds, Timely
  <2>5. QED
    BY <2>2, <2>4 DEF Kinds
<1>6. InOrder' /\ OneRowPerServer'
  BY <1>1 DEF MInv, InOrder, OneRowPerServer
<1>7. EventsInOrder'
  <2>1. \A i, j \in DOMAIN conns' : i < j => conns'[i].at <= conns'[j].at
    <3>1. \A i, j \in DOMAIN conns : i < j => conns[i].at <= conns[j].at
      BY DEF MInv, EventsInOrder
    <3>2. \A i \in DOMAIN conns' : i \in Int /\ i + 1 \in DOMAIN conns /\ conns'[i] = conns[i + 1]
      BY <1>1
    <3>3. QED
      BY <3>1, <3>2
  <2> SUFFICES ASSUME NEW i \in DOMAIN conns', accounts'[conns'[i].acc].traffic = 0
               PROVE  accounts'[conns'[i].acc].conns <= conns'[i].at
    BY <2>1 DEF EventsInOrder
  <2>2. i + 1 \in DOMAIN conns /\ conns'[i] = conns[i + 1]
    BY <1>1
  <2>3. CASE conns'[i].acc = m.acc
    BY <1>1, <1>2, <1>4, <2>2, <2>3
  <2>4. CASE conns'[i].acc # m.acc
    <3>1. conns'[i].acc \in Accounts
      BY <2>2, Items DEF MInv
    <3>2. accounts'[conns'[i].acc] = accounts[conns'[i].acc]
      BY <1>4, <2>4, <3>1
    <3>3. QED
      BY <2>2, <3>2 DEF MInv, EventsInOrder
  <2>5. QED
    BY <2>3, <2>4
<1>8. Undisturbed'
  <2> SUFFICES ASSUME NEW h \in Handlers, call[h].pc # "idle", call[h].alone
               PROVE  /\ AsRecent(accounts'[call[h].acc], call[h].floor)
                      /\ \A i \in DOMAIN conns' :
                             conns'[i].acc = call[h].acc => call[h].floor.conns < conns'[i].at
                      /\ \A g \in Handlers : g # h => ~Busy(g, call[h].acc)
    BY <1>1 DEF Undisturbed, Busy
  <2>1. /\ AsRecent(accounts[call[h].acc], call[h].floor)
        /\ \A i \in DOMAIN conns :
               conns[i].acc = call[h].acc => call[h].floor.conns < conns[i].at
        /\ \A g \in Handlers : g # h => ~Busy(g, call[h].acc)
        /\ call[h].acc \in Accounts
    BY DEF MInv, Asking, RepliesNewer, Undisturbed
  <2>2. CASE call[h].acc = m.acc
    <3>1. call[h].floor.conns < m.at /\ call[h].floor.conns \in Nat
      BY <1>1, <1>3, <2>1, <2>2, Items DEF MInv
    <3>2. AsRecent(e, call[h].floor)
      BY <1>1, <1>2, <3>1 DEF AsRecent
    <3>3. QED
      BY <1>1, <1>4, <2>1, <2>2, <3>2
  <2>3. CASE call[h].acc # m.acc
    BY <1>1, <1>4, <2>1, <2>3
  <2>4. QED
    BY <2>2, <2>3
<1>9. Asking'
  BY <1>1, <1>8 DEF MInv, Asking, RepliesNewer, AnswersAdvance, AsRecent
<1>10. QED
  BY <1>5, <1>6, <1>7, <1>9 DEF MInv

\* A call is opened, and calls for the same account lose their privacy.
LEMMA AskStep ==
    ASSUME MInv, NEW h \in Handlers, Ask(h)
    PROVE  MInv'
<1>1. PICK a \in Accounts :
          call' = [g \in Handlers |->
              IF g = h THEN [pc |-> "asked", acc |-> a, reply |-> 0, answer |-> NoNumbers,
                             floor |-> accounts[a], alone |-> Quiet(a)]
              ELSE [call[g] EXCEPT !.alone = call[g].alone /\ ~Busy(g, a)]]
  BY DEF Ask
<1>2. call[h].pc = "idle" /\ UNCHANGED <<servers, accounts, now, statsz, conns, listening>>
  BY DEF Ask
<1>3. /\ now \in Nat /\ accounts[a] \in Numbers /\ NoNumbers \in Numbers
      /\ accounts[a].conns <= now /\ accounts[a].traffic <= now
      /\ accounts[a].conns \in Nat /\ accounts[a].traffic \in Nat
  BY Items DEF MInv, Kinds, Timely, NoNumbers, Numbers
<1>4. /\ call'[h].pc = "asked" /\ call'[h].acc = a /\ call'[h].reply = 0
      /\ call'[h].floor = accounts[a] /\ call'[h].alone = Quiet(a)
  BY <1>1
<1>5. ASSUME NEW g \in Handlers, g # h
      PROVE  /\ call'[g].pc = call[g].pc /\ call'[g].acc = call[g].acc
             /\ call'[g].reply = call[g].reply /\ call'[g].floor = call[g].floor
             /\ call'[g].answer = call[g].answer
             /\ call'[g].alone => call[g].alone /\ ~Busy(g, a)
             /\ call'[g] \in Call
  <2>1. call[g] \in Call
    BY Items DEF MInv
  <2>2. call'[g] = [call[g] EXCEPT !.alone = call[g].alone /\ ~Busy(g, a)]
    BY <1>1, <1>5
  <2>3. (call[g].alone /\ ~Busy(g, a)) \in BOOLEAN
    OBVIOUS
  <2>4. QED
    BY <2>1, <2>2, <2>3 DEF Call
<1>6. Kinds'
  <2>1. call'[h] \in Call
    BY <1>1, <1>3 DEF Call, Quiet
  <2>2. call' \in [Handlers -> Call]
    BY <1>1, <1>5, <2>1
  <2>3. MonitorTypeOK'
    BY <1>2, <2>2 DEF MInv, Kinds, MonitorTypeOK
  <2>4. Timely'
    BY <1>2, <1>3, <1>4, <1>5 DEF MInv, Kinds, Timely
  <2>5. QED
    BY <2>3, <2>4 DEF Kinds
<1>7. InOrder' /\ OneRowPerServer' /\ EventsInOrder'
  BY <1>2 DEF MInv, InOrder, OneRowPerServer, EventsInOrder
<1>8. RepliesNewer'
  BY <1>4, <1>5 DEF MInv, Asking, RepliesNewer
<1>9. Undisturbed'
  <2> SUFFICES ASSUME NEW g \in Handlers, call'[g].pc # "idle", call'[g].alone
               PROVE  /\ AsRecent(accounts[call'[g].acc], call'[g].floor)
                      /\ \A i \in DOMAIN conns :
                             conns[i].acc = call'[g].acc => call'[g].floor.conns < conns[i].at
                      /\ \A k \in Handlers : k # g =>
                             ~(call'[k].pc # "idle" /\ call'[k].acc = call'[g].acc)
    BY <1>2 DEF Undisturbed, Busy
  <2>1. CASE g = h
    <3>1. \A k \in Handlers : ~Busy(k, a)
      BY <1>4, <2>1 DEF Quiet
    <3>2. \A i \in DOMAIN conns : conns[i].acc # a
      BY <1>4, <2>1 DEF Quiet
    <3>3. AsRecent(accounts[a], accounts[a])
      BY <1>3 DEF AsRecent
    <3>4. QED
      BY <1>4, <1>5, <2>1, <3>1, <3>2, <3>3 DEF Busy
  <2>2. CASE g # h
    <3>1. call[g].pc # "idle" /\ call[g].alone
      BY <1>5, <2>2
    <3>2. call[g].acc # a
      BY <1>5, <2>2, <3>1 DEF Busy
    <3>3. \A k \in Handlers :
            k # g => ~(call'[k].pc # "idle" /\ call'[k].acc = call'[g].acc)
      BY <1>4, <1>5, <2>2, <3>1, <3>2 DEF MInv, Asking, Undisturbed, Busy
    <3>4. QED
      BY <1>5, <2>2, <3>1, <3>3 DEF MInv, Asking, Undisturbed
  <2>3. QED
    BY <2>1, <2>2
<1>10. AnswersAdvance'
  BY <1>4, <1>5 DEF MInv, Asking, AnswersAdvance
<1>11. QED
  BY <1>6, <1>7, <1>8, <1>9, <1>10 DEF MInv, Asking

\* The server's reply is newer than what any call found.
LEMMA ServeRequestStep ==
    ASSUME MInv, NEW h \in Handlers, ServeRequest(h)
    PROVE  MInv'
<1>1. /\ now' = now + 1 /\ now \in Nat
      /\ call[h].pc = "asked"
      /\ call' = [call EXCEPT ![h].pc = "replied", ![h].reply = now']
      /\ UNCHANGED <<servers, accounts, statsz, conns, listening>>
      /\ call \in [Handlers -> Call]
  BY DEF ServeRequest, Sample, MInv, Kinds, MonitorTypeOK
<1>2. /\ \A g \in Handlers : /\ call'[g].acc = call[g].acc /\ call'[g].floor = call[g].floor
                             /\ call'[g].alone = call[g].alone
                             /\ g # h => call'[g] = call[g]
      /\ call'[h].pc = "replied" /\ call'[h].reply = now'
  BY <1>1 DEF Call
<1>3. \A g \in Handlers :
          /\ call[g].floor.conns \in Nat /\ call[g].floor.conns <= now
          /\ call[g].floor.traffic \in Nat /\ call[g].floor.traffic <= now
          /\ call[g].reply \in Nat /\ call[g].reply <= now
  BY <1>1, Items DEF MInv, Kinds, Timely
<1>4. Kinds'
  <2>1. call' \in [Handlers -> Call]
    <3>1. call[h] \in Call /\ now' \in Nat
      BY <1>1
    <3>2. [call[h] EXCEPT !.pc = "replied", !.reply = now'] \in Call
      BY <3>1 DEF Call
    <3>3. QED
      BY <1>1, <3>2
  <2>2. MonitorTypeOK'
    BY <1>1, <2>1 DEF MInv, Kinds, MonitorTypeOK
  <2>3. Timely'
    BY <1>1, <1>2, <1>3, Items DEF MInv, Kinds, Timely
  <2>4. QED
    BY <2>2, <2>3 DEF Kinds
<1>5. InOrder' /\ OneRowPerServer' /\ EventsInOrder'
  BY <1>1 DEF MInv, InOrder, OneRowPerServer, EventsInOrder
<1>6. \A g \in Handlers, a \in Accounts : Busy(g, a)' <=> Busy(g, a)
  BY <1>1, <1>2 DEF Busy
<1>7. RepliesNewer'
  BY <1>1, <1>2, <1>3 DEF MInv, Asking, RepliesNewer
<1>8. Undisturbed'
  <2>1. \A g \in Handlers : call'[g].pc # "idle" => call[g].pc # "idle" /\ call[g].acc \in Accounts
    BY <1>1, <1>2 DEF MInv, Asking, RepliesNewer
  <2>2. QED
    BY <1>1, <1>2, <1>6, <2>1 DEF MInv, Asking, Undisturbed
<1>9. AnswersAdvance'
  BY <1>1, <1>2 DEF MInv, Asking, AnswersAdvance
<1>10. QED
  BY <1>4, <1>5, <1>7, <1>8, <1>9 DEF MInv, Asking

\* What both ends of a call have in common.
LEMMA ReturnFacts ==
    ASSUME MInv, NEW h \in Handlers, NEW n \in Numbers, Return(h, n)
    PROVE  /\ call' \in [Handlers -> Call]
           /\ \A g \in Handlers : g # h => call'[g] = call[g]
           /\ call'[h].pc = "idle" /\ call'[h].reply = 0 /\ call'[h].answer = n
           /\ call'[h].floor = call[h].floor /\ call'[h].alone = call[h].alone
BY DEF Return, MInv, Kinds, MonitorTypeOK, Call

\* What the map and the caller are given is newer than what the call found.
LEMMA TakeReplyFacts ==
    ASSUME MInv, NEW h \in Handlers, TakeReply(h), NEW a, a = call[h].acc
    PROVE  /\ call[h].pc = "replied" /\ Return(h, Reply(h))
           /\ accounts' = [accounts EXCEPT ![a] = Reply(h)]
           /\ UNCHANGED <<servers, now, statsz, conns, listening>>
           /\ a \in Accounts /\ accounts \in [Accounts -> Numbers]
           /\ Reply(h) \in Numbers
           /\ Reply(h).traffic > 0
           /\ Reply(h).conns <= now /\ Reply(h).traffic <= now
           /\ call[h].floor.conns < Reply(h).conns
           /\ AsRecent(Reply(h), call[h].floor)
<1>1. /\ call[h].pc = "replied" /\ Return(h, Reply(h))
      /\ accounts' = [accounts EXCEPT ![a] = Reply(h)]
      /\ UNCHANGED <<servers, now, statsz, conns, listening>>
  BY DEF TakeReply
<1>2. /\ a \in Accounts
      /\ call[h].floor.conns < call[h].reply /\ call[h].floor.traffic < call[h].reply
  BY <1>1 DEF MInv, Asking, RepliesNewer
<1>3. /\ call[h].reply \in Nat /\ call[h].reply <= now /\ now \in Nat
      /\ call[h].floor.conns \in Nat /\ call[h].floor.traffic \in Nat
      /\ accounts \in [Accounts -> Numbers]
  BY Items DEF MInv, Kinds, Timely, MonitorTypeOK
<1>4. /\ Reply(h) \in Numbers
      /\ Reply(h).conns = call[h].reply /\ Reply(h).traffic = call[h].reply
  BY <1>3 DEF Reply, Numbers
<1>5. QED
  BY <1>1, <1>2, <1>3, <1>4 DEF AsRecent

\* A reply that is taken disturbs no private call, for there is no other one.
LEMMA TakeReplyStep ==
    ASSUME MInv, NEW h \in Handlers, TakeReply(h)
    PROVE  MInv'
<1> DEFINE a == call[h].acc
           n == Reply(h)
<1>1. /\ call[h].pc = "replied" /\ Return(h, n)
      /\ accounts' = [accounts EXCEPT ![a] = n]
      /\ UNCHANGED <<servers, now, statsz, conns, listening>>
      /\ a \in Accounts /\ accounts \in [Accounts -> Numbers]
      /\ n \in Numbers /\ n.traffic > 0
      /\ n.conns <= now /\ n.traffic <= now
      /\ AsRecent(n, call[h].floor)
  BY TakeReplyFacts
<1>2. /\ accounts' \in [Accounts -> Numbers]
      /\ accounts'[a] = n
      /\ \A b \in Accounts : b # a => accounts'[b] = accounts[b]
  BY <1>1
<1>3. /\ call' \in [Handlers -> Call]
      /\ \A g \in Handlers : g # h => call'[g] = call[g]
      /\ call'[h].pc = "idle" /\ call'[h].reply = 0 /\ call'[h].answer = n
      /\ call'[h].floor = call[h].floor /\ call'[h].alone = call[h].alone
  BY <1>1, ReturnFacts
<1>4. Kinds'
  <2>1. MonitorTypeOK'
    BY <1>1, <1>2, <1>3 DEF MInv, Kinds, MonitorTypeOK
  <2>2. \A b \in Accounts : accounts'[b].conns <= now /\ accounts'[b].traffic <= now
    BY <1>1, <1>2 DEF MInv, Kinds, Timely
  <2>3. now \in Nat
    BY Items DEF MInv
  <2>4. Timely'
    BY <1>1, <1>3, <2>2, <2>3 DEF MInv, Kinds, Timely
  <2>5. QED
    BY <2>1, <2>4 DEF Kinds
<1>5. InOrder' /\ OneRowPerServer'
  BY <1>1 DEF MInv, InOrder, OneRowPerServer
<1>6. EventsInOrder'
  <2> SUFFICES ASSUME NEW i \in DOMAIN conns, accounts'[conns[i].acc].traffic = 0
               PROVE  accounts'[conns[i].acc].conns <= conns[i].at
    BY <1>1 DEF MInv, EventsInOrder
  <2>1. conns[i].acc \in Accounts
    BY Items DEF MInv
  <2>2. conns[i].acc # a
    BY <1>1, <1>2
  <2>3. QED
    BY <1>2, <2>1, <2>2 DEF MInv, EventsInOrder
<1>7. RepliesNewer'
  BY <1>3 DEF MInv, Asking, RepliesNewer
<1>8. Undisturbed'
  <2> SUFFICES ASSUME NEW g \in Handlers, call'[g].pc # "idle", call'[g].alone
               PROVE  /\ AsRecent(accounts'[call'[g].acc], call'[g].floor)
                      /\ \A i \in DOMAIN conns :
                             conns[i].acc = call'[g].acc => call'[g].floor.conns < conns[i].at
                      /\ \A k \in Handlers : k # g =>
                             ~(call'[k].pc # "idle" /\ call'[k].acc = call'[g].acc)
    BY <1>1 DEF Undisturbed, Busy
  <2>1. g # h /\ call'[g] = call[g]
    BY <1>3
  <2>2. call[g].acc # a /\ call[g].acc \in Accounts
    BY <1>1, <2>1 DEF MInv, Asking, RepliesNewer, Undisturbed, Busy
  <2>3. accounts'[call[g].acc] = accounts[call[g].acc]
    BY <1>2, <2>2
  <2>4. \A k \in Handlers :
            k # g => ~(call'[k].pc # "idle" /\ call'[k].acc = call'[g].acc)
    BY <1>3, <2>1 DEF MInv, Asking, Undisturbed, Busy
  <2>5. QED
    BY <2>1, <2>3, <2>4 DEF MInv, Asking, Undisturbed
<1>9. AnswersAdvance'
  BY <1>1, <1>3 DEF MInv, Asking, AnswersAdvance
<1>10. QED
  BY <1>4, <1>5, <1>6, <1>7, <1>8, <1>9 DEF MInv, Asking

\* A call that gives up answers with the entry.
LEMMA GiveUpStep ==
    ASSUME MInv, NEW h \in Handlers, GiveUp(h)
    PROVE  MInv'
<1> DEFINE n == accounts[call[h].acc]
<1>1. /\ call[h].pc # "idle" /\ Return(h, n)
      /\ UNCHANGED <<servers, accounts, now, statsz, conns, listening>>
  BY DEF GiveUp
<1>2. call[h].acc \in Accounts /\ n \in Numbers
  BY <1>1, Items DEF MInv, Asking, RepliesNewer
<1>3. /\ call' \in [Handlers -> Call]
      /\ \A g \in Handlers : g # h => call'[g] = call[g]
      /\ call'[h].pc = "idle" /\ call'[h].reply = 0 /\ call'[h].answer = n
      /\ call'[h].floor = call[h].floor /\ call'[h].alone = call[h].alone
  BY <1>1, <1>2, ReturnFacts
<1>4. Kinds'
  <2>1. now \in Nat
    BY Items DEF MInv
  <2>2. MonitorTypeOK'
    BY <1>1, <1>3 DEF MInv, Kinds, MonitorTypeOK
  <2>3. Timely'
    BY <1>1, <1>3, <2>1 DEF MInv, Kinds, Timely
  <2>4. QED
    BY <2>2, <2>3 DEF Kinds
<1>5. InOrder' /\ OneRowPerServer' /\ EventsInOrder'
  BY <1>1 DEF MInv, InOrder, OneRowPerServer, EventsInOrder
<1>6. \A g \in Handlers, a \in Accounts : Busy(g, a)' => Busy(g, a)
  BY <1>3 DEF Busy
<1>7. RepliesNewer'
  BY <1>3 DEF MInv, Asking, RepliesNewer
<1>8. Undisturbed'
  <2>1. \A g \in Handlers : call'[g].pc # "idle" =>
            call'[g] = call[g] /\ call[g].pc # "idle" /\ call[g].acc \in Accounts
    BY <1>3 DEF MInv, Asking, RepliesNewer
  <2>2. QED
    BY <1>1, <1>6, <2>1 DEF MInv, Asking, Undisturbed
<1>9. AnswersAdvance'
  <2>1. call[h].alone => AsRecent(n, call[h].floor)
    BY <1>1 DEF MInv, Asking, Undisturbed
  <2>2. QED
    BY <1>3, <2>1 DEF MInv, Asking, AnswersAdvance
<1>10. QED
  BY <1>4, <1>5, <1>7, <1>8, <1>9 DEF MInv, Asking

\* Every step of the monitor.
LEMMA MonitoringStep ==
    ASSUME MInv, Monitoring
    PROVE  MInv'
BY PublishServerStep, PublishAccountStep, OnStatszStep, OnConnsStep, StopStep, AskStep,
   ServeRequestStep, TakeReplyStep, GiveUpStep DEF Monitoring

-----------------------------------------------------------------------------
\* The process.

ListensUp == listening => At("up") /\ process.connected

ServicesInv == BootInv /\ MInv /\ ListensUp

\* A start is over when the process is up.
LEMMA BootingFacts ==
    ASSUME BootInv, Start \/ Boot
    PROVE  ~At("up")
BY DEF Start, Boot, CountAdmins, InsertAdmin, ReadFile, WriteFile, Connect, Push, At

\* The invariant from the start, and over every step.
LEMMA InitServices == Init => ServicesInv
<1> SUFFICES ASSUME Init
             PROVE  ServicesInv
  OBVIOUS
<1>1. BootInv /\ MInv
  BY InitBoot, InitMonitor DEF Init
<1>2. ListensUp
  BY DEF Init, MonitorInit, ListensUp
<1>3. QED
  BY <1>1, <1>2 DEF ServicesInv

LEMMA NextServices == ServicesInv /\ [Next]_vars => ServicesInv'
<1> SUFFICES ASSUME ServicesInv, [Next]_vars
             PROVE  ServicesInv'
  OBVIOUS
<1> USE DEF ServicesInv
<1>1. CASE UNCHANGED vars
  <2>1. UNCHANGED bootVars /\ UNCHANGED monitorVars
    BY <1>1 DEF vars, bootVars, monitorVars
  <2>2. ListensUp'
    BY <1>1 DEF vars, ListensUp, At
  <2>3. QED
    BY <2>1, <2>2, BootStays, MonitorStays
<1>2. CASE Booting
  <2>1. BootInv'
    BY <1>2, StartupKeepsBoot DEF Booting
  <2>2. ~listening
    BY <1>2, BootingFacts DEF Booting, ListensUp
  <2>3. CASE process'.pc = "up" /\ process'.connected /\ Listen
    BY <2>1, <2>3, ListenStep DEF ListensUp, At
  <2>4. CASE UNCHANGED monitorVars
    BY <2>1, <2>2, <2>4, MonitorStays DEF ListensUp, monitorVars
  <2>5. QED
    BY <1>2, <2>3, <2>4 DEF Booting
<1>3. CASE Up(Monitoring)
  <2>1. UNCHANGED bootVars /\ Monitoring /\ At("up") /\ process.connected
    BY <1>3 DEF Up
  <2>2. BootInv' /\ MInv'
    BY <2>1, BootStays, MonitoringStep
  <2>3. ListensUp'
    BY <2>1 DEF ListensUp, bootVars, At
  <2>4. QED
    BY <2>2, <2>3
<1>4. CASE Ending
  <2>1. BootInv' /\ MInv'
    BY <1>4, StartupKeepsBoot, ForgetStep DEF Ending
  <2>2. ListensUp'
    BY <1>4 DEF Ending, Forget, ListensUp
  <2>3. QED
    BY <2>1, <2>2
<1>5. QED
  BY <1>1, <1>2, <1>3, <1>4 DEF Next

\* The inductive invariant of the start and the monitor together.
THEOREM Invariance == Spec => []ServicesInv
BY InitServices, NextServices, PTL DEF Spec

\* Nothing has a value that is not of its kind, the monitor has no more rows
\* than there are servers, and the subscriptions exist only while the process
\* is up and connected.
THEOREM TypeCorrect == Spec => []TypeOK
<1>1. ServicesInv => TypeOK
  BY DEF ServicesInv, BootInv, MInv, Kinds, ListensUp, TypeOK
<1>2. QED
  BY <1>1, Invariance, PTL

\* Whatever earlier starts left half done, and however the configured address
\* changes, there is never a second initial administrator, and a start that met
\* no error leaves one.
THEOREM AdminSeededOnce == Spec => []OneInitialAdmin
<1>1. ServicesInv => OneInitialAdmin
  <2> SUFFICES ASSUME ServicesInv
               PROVE  OneInitialAdmin
    OBVIOUS
  <2>1. Ended => admins # {}
    BY DEF Ended, At, Seeding, ServicesInv, BootInv, Started
  <2>2. Cardinality(admins) <= 1
    <3>1. CASE admins = {}
      BY <3>1, FS_EmptySet
    <3>2. ASSUME NEW e \in Emails, admins = {e}
          PROVE  Cardinality(admins) <= 1
      <4>1. Cardinality({e}) = 1
        BY FS_Singleton, Zenon
      <4>2. QED
        BY <3>2, <4>1
    <3>3. QED
      BY <3>1, <3>2 DEF ServicesInv, BootInv, Started
  <2>3. QED
    BY <2>1, <2>2 DEF OneInitialAdmin
<1>2. QED
  BY <1>1, Invariance, PTL

\* A start with RESOLVER_DIR that met no error is connected as the system
\* account, whatever torn file it found, and so is every later one that finds
\* the file complete.
THEOREM StartConnects == Spec => []BootConnects
<1>1. ServicesInv => BootConnects
  BY DEF ServicesInv, BootInv, Started
<1>2. QED
  BY <1>1, Invariance, PTL

\* However many servers report however often, each has one row.
THEOREM OneRowEach == Spec => []OneRowPerServer
<1>1. ServicesInv => OneRowPerServer
  BY DEF ServicesInv, MInv
<1>2. QED
  BY <1>1, Invariance, PTL

\* Who asks for an account alone is not answered with less recent numbers than
\* the map had, by a reply or after a timeout, with any events coming in; only
\* of the messages and bytes an event leaves nothing.
THEOREM AnswersNeverRecede == Spec => []AnswersAdvance
<1>1. ServicesInv => AnswersAdvance
  BY DEF ServicesInv, MInv, Asking
<1>2. QED
  BY <1>1, Invariance, PTL

\* The rows of a living process keep their places and only get newer: the
\* callback takes its messages in order, and replaces a row where it is.
THEOREM RowsKeepTheirPlace == Spec => RowsStay
<1> DEFINE Step == At("up") /\ process'.pc = "up" =>
                       \A i \in DOMAIN servers :
                           /\ i \in DOMAIN servers'
                           /\ servers'[i].id = servers[i].id
                           /\ servers'[i].at >= servers[i].at
<1>1. ServicesInv /\ [Next]_vars => [Step]_servers
  <2> SUFFICES ASSUME ServicesInv, Next, servers' # servers, At("up"), process'.pc = "up"
               PROVE  \A i \in DOMAIN servers :
                          /\ i \in DOMAIN servers'
                          /\ servers'[i].id = servers[i].id
                          /\ servers'[i].at >= servers[i].at
    BY DEF vars
  <2>1. ~Booting /\ ~Ending
    BY BootingFacts DEF ServicesInv, Booting, Ending, Crash, Down
  <2>2. Monitoring
    BY <2>1 DEF Next, Up
  <2>3. OnStatsz
    BY <2>2 DEF Monitoring, PublishServer, PublishAccount, OnConns, Stop, Ask, ServeRequest,
                TakeReply, GiveUp
  <2>4. QED
    BY <2>3, OnStatszKeepsRows DEF ServicesInv
<1>2. QED
  BY <1>1, Invariance, PTL DEF Spec, RowsStay

\* However calls for an account overlap with each other and with its events, an
\* event never undoes a newer one, and a late reply never goes behind what its
\* own caller found.
THEOREM EntriesRecedeByReplies == Spec => OnlyRepliesReorder
<1> DEFINE Fine(a) == accounts'[a].conns < accounts[a].conns =>
                          \/ accounts[a].traffic > 0
                          \/ \E h \in Handlers :
                                 /\ Busy(h, a) /\ ~Busy(h, a)'
                                 /\ accounts'[a] = call'[h].answer
                                 /\ accounts'[a].conns > call[h].floor.conns
           Step == At("up") /\ process'.pc = "up" => \A a \in Accounts : Fine(a)
<1>1. ASSUME MInv, OnConns, NEW a \in Accounts
      PROVE  Fine(a)
  <2> DEFINE m == conns[1]
  <2>1. /\ accounts' = [accounts EXCEPT ![m.acc] = [conns |-> m.at, traffic |-> 0]]
        /\ accounts \in [Accounts -> Numbers]
        /\ 1 \in DOMAIN conns /\ m.acc \in Accounts /\ m.at \in Nat
    BY <1>1, OnConnsFacts
  <2>2. accounts[a].conns \in Nat /\ accounts[a].traffic \in Nat
    BY <1>1, Items DEF MInv
  <2>3. CASE a # m.acc
    BY <2>1, <2>2, <2>3
  <2>4. CASE a = m.acc /\ accounts[a].traffic = 0
    <3>1. accounts[a].conns <= m.at
      BY <1>1, <2>1, <2>4 DEF MInv, EventsInOrder
    <3>2. accounts'[a].conns = m.at
      BY <2>1, <2>4
    <3>3. QED
      BY <2>1, <2>2, <3>1, <3>2
  <2>5. QED
    BY <2>2, <2>3, <2>4
<1>2. ASSUME MInv, NEW h \in Handlers, TakeReply(h), NEW a \in Accounts
      PROVE  Fine(a)
  <2> DEFINE n == Reply(h)
  <2>1. /\ call[h].pc = "replied" /\ Return(h, n)
        /\ accounts' = [accounts EXCEPT ![call[h].acc] = n]
        /\ accounts \in [Accounts -> Numbers] /\ n \in Numbers
        /\ call[h].floor.conns < n.conns
    BY <1>2, TakeReplyFacts
  <2>2. call'[h].pc = "idle" /\ call'[h].answer = n
    BY <1>2, <2>1, ReturnFacts
  <2>3. accounts[a].conns \in Nat
    BY <1>2, Items DEF MInv
  <2>4. CASE a = call[h].acc
    <3>1. accounts'[a] = n
      BY <2>1, <2>4
    <3>2. call[h].floor.conns \in Nat /\ n.conns \in Nat
      BY <1>2, <2>1, Items DEF MInv, Numbers
    <3>3. Busy(h, a) /\ ~Busy(h, a)'
      BY <2>1, <2>2, <2>4 DEF Busy
    <3>4. QED
      BY <2>1, <2>2, <3>1, <3>2, <3>3
  <2>5. CASE a # call[h].acc
    BY <2>1, <2>3, <2>5
  <2>6. QED
    BY <2>4, <2>5
<1>3. ServicesInv /\ [Next]_vars => [Step]_accounts
  <2> SUFFICES ASSUME ServicesInv, Next, accounts' # accounts, At("up"), process'.pc = "up",
                      NEW a \in Accounts
               PROVE  Fine(a)
    BY DEF vars
  <2>1. ~Booting /\ ~Ending
    BY BootingFacts DEF ServicesInv, Booting, Ending, Crash, Down
  <2>2. Monitoring
    BY <2>1 DEF Next, Up
  <2>3. OnConns \/ \E h \in Handlers : TakeReply(h)
    BY <2>2 DEF Monitoring, PublishServer, PublishAccount, OnStatsz, Stop, Ask, ServeRequest,
                GiveUp
  <2>4. QED
    BY <1>1, <1>2, <2>3 DEF ServicesInv
<1>4. QED
  BY <1>3, Invariance, PTL DEF Spec, OnlyRepliesReorder
=============================================================================
