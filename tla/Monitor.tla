------------------------------- MODULE Monitor -------------------------------
(***************************************************************************)
(* monitor.Monitor: the snapshots of servers and accounts, written by the  *)
(* callbacks of two subscriptions, each a goroutine that takes its         *)
(* messages in order, and by the handlers that ask for an account.  Of the *)
(* numbers only the time is kept at which the NATS server took them.       *)
(* SystemServices runs it in the process that Startup brings up.           *)
(***************************************************************************)
EXTENDS Naturals, SequencesExt

CONSTANTS None,
          Servers,     \* NATS servers, by their ids
          Accounts,
          Handlers,    \* goroutines in RequestAccountStats
          MaxSamples,  \* bound on the snapshots that are taken
          ChanCap      \* bound on the messages a subscription has pending

ASSUME MonitorAssumption ==
    /\ None \notin Accounts
    /\ IsFiniteSet(Servers)
    /\ MaxSamples \in Nat
    /\ ChanCap \in Nat \ {0}

VARIABLES servers,    \* Monitor.servers
          accounts,   \* Monitor.accounts
          now,        \* snapshots taken so far
          statsz,     \* messages of the two subscriptions
          conns,
          call,       \* calls of RequestAccountStats
          listening   \* whether the subscriptions exist

monitorVars == <<servers, accounts, now, statsz, conns, call, listening>>

\* An AccountStats: when its connections were counted and when its messages
\* and bytes were, 0 for numbers that are zero and where there is no entry.
Numbers == [conns : Nat, traffic : Nat]

NoNumbers == [conns |-> 0, traffic |-> 0]

\* History: "floor" is what the map had when the call began, and "alone" says
\* that no event of the account was pending then and that no other call for
\* the account overlapped.
Call == [pc : {"idle", "asked", "replied"}, acc : Accounts \union {None}, reply : Nat,
         answer : Numbers, floor : Numbers, alone : BOOLEAN]

NoCall == [pc |-> "idle", acc |-> None, reply |-> 0,
           answer |-> NoNumbers, floor |-> NoNumbers, alone |-> TRUE]

MonitorTypeOK ==
    /\ servers \in Seq([id : Servers, at : Nat]) /\ Len(servers) <= Cardinality(Servers)
    /\ accounts \in [Accounts -> Numbers]
    /\ now \in Nat
    /\ statsz \in Seq([id : Servers, at : Nat]) /\ Len(statsz) <= ChanCap
    /\ conns \in Seq([acc : Accounts, at : Nat]) /\ Len(conns) <= ChanCap
    /\ call \in [Handlers -> Call]
    /\ listening \in BOOLEAN

\* NewMonitor.
MonitorInit ==
    /\ servers = <<>>
    /\ accounts = [a \in Accounts |-> NoNumbers]
    /\ now = 0
    /\ statsz = <<>>
    /\ conns = <<>>
    /\ call = [h \in Handlers |-> NoCall]
    /\ listening = FALSE

\* Start subscribes twice or not at all.
Listen ==
    /\ listening' \in BOOLEAN
    /\ UNCHANGED <<servers, accounts, now, statsz, conns, call>>

\* The process ends, and the NATS servers go on.
Forget ==
    /\ servers' = <<>>
    /\ accounts' = [a \in Accounts |-> NoNumbers]
    /\ statsz' = <<>>
    /\ conns' = <<>>
    /\ call' = [h \in Handlers |-> NoCall]
    /\ listening' = FALSE
    /\ UNCHANGED now

-----------------------------------------------------------------------------
\* The NATS servers.

Sample ==
    /\ now < MaxSamples
    /\ now' = now + 1

PublishServer(s) ==
    /\ Sample
    /\ listening
    /\ Len(statsz) < ChanCap
    /\ statsz' = Append(statsz, [id |-> s, at |-> now'])
    /\ UNCHANGED <<servers, accounts, conns, call, listening>>

PublishAccount(a) ==
    /\ Sample
    /\ listening
    /\ Len(conns) < ChanCap
    /\ conns' = Append(conns, [acc |-> a, at |-> now'])
    /\ UNCHANGED <<servers, accounts, statsz, call, listening>>

ServeRequest(h) ==
    /\ call[h].pc = "asked"
    /\ Sample
    /\ call' = [call EXCEPT ![h].pc = "replied", ![h].reply = now']
    /\ UNCHANGED <<servers, accounts, statsz, conns, listening>>

-----------------------------------------------------------------------------
\* The callbacks.

\* Faulty variant: a callback that leaves each message to a goroutine of its own.
Pending_Any(queue) == DOMAIN queue

\* The position of the message the callback is given.
Pending(queue) == IF queue = <<>> THEN {} ELSE {1}

\* Faulty variant: the loop does not look for the server.
Upsert_Append(rows, s) == Append(rows, s)

Upsert(rows, s) ==
    IF \E i \in DOMAIN rows : rows[i].id = s.id
        THEN [i \in DOMAIN rows |-> IF rows[i].id = s.id THEN s ELSE rows[i]]
        ELSE Append(rows, s)

OnStatsz ==
    /\ \E i \in Pending(statsz) :
           /\ servers' = Upsert(servers, statsz[i])
           /\ statsz' = RemoveAt(statsz, i)
    /\ UNCHANGED <<accounts, now, conns, call, listening>>

\* An event has the connections only, and replaces the whole entry.
OnConns ==
    /\ \E i \in Pending(conns) :
           /\ accounts' = [accounts EXCEPT ![conns[i].acc] = [conns |-> conns[i].at, traffic |-> 0]]
           /\ conns' = RemoveAt(conns, i)
    /\ UNCHANGED <<servers, now, statsz, call, listening>>

\* The client drops what a subscription still has pending.
Stop ==
    /\ listening
    /\ listening' = FALSE
    /\ statsz' = <<>>
    /\ conns' = <<>>
    /\ UNCHANGED <<servers, accounts, now, call>>

-----------------------------------------------------------------------------
\* RequestAccountStats.

Busy(h, a) == call[h].pc # "idle" /\ call[h].acc = a

Quiet(a) ==
    /\ \A h \in Handlers : ~Busy(h, a)
    /\ \A i \in DOMAIN conns : conns[i].acc # a

Ask(h) ==
    /\ call[h].pc = "idle"
    /\ \E a \in Accounts :
           call' = [g \in Handlers |->
               IF g = h THEN [pc |-> "asked", acc |-> a, reply |-> 0, answer |-> NoNumbers,
                              floor |-> accounts[a], alone |-> Quiet(a)]
               ELSE [call[g] EXCEPT !.alone = call[g].alone /\ ~Busy(g, a)]]
    /\ UNCHANGED <<servers, accounts, now, statsz, conns, listening>>

Return(h, numbers) ==
    call' = [call EXCEPT ![h].pc = "idle", ![h].reply = 0, ![h].answer = numbers]

Reply(h) == [conns |-> call[h].reply, traffic |-> call[h].reply]

\* The reply replaces whatever the map has by now.
TakeReply(h) ==
    /\ call[h].pc = "replied"
    /\ accounts' = [accounts EXCEPT ![call[h].acc] = Reply(h)]
    /\ Return(h, Reply(h))
    /\ UNCHANGED <<servers, now, statsz, conns, listening>>

\* Faulty variant: without a timeout, the call waits for a reply.
GiveUp_OnBadReply(h) ==
    /\ call[h].pc = "replied"
    /\ Return(h, accounts[call[h].acc])
    /\ UNCHANGED <<servers, accounts, now, statsz, conns, listening>>

\* Faulty variant: a call that failed has no numbers.
GiveUp_Empty(h) ==
    /\ call[h].pc \in {"asked", "replied"}
    /\ Return(h, NoNumbers)
    /\ UNCHANGED <<servers, accounts, now, statsz, conns, listening>>

\* Faulty variant: the numbers of a reply that does not parse are kept.
GiveUp_Unparsed(h) ==
    /\ call[h].pc = "replied"
    /\ accounts' = [accounts EXCEPT ![call[h].acc] = NoNumbers]
    /\ Return(h, NoNumbers)
    /\ UNCHANGED <<servers, now, statsz, conns, listening>>

\* After three seconds, or with a reply that does not parse: the entry there is.
GiveUp(h) ==
    /\ call[h].pc \in {"asked", "replied"}
    /\ Return(h, accounts[call[h].acc])
    /\ UNCHANGED <<servers, accounts, now, statsz, conns, listening>>

Monitoring ==
    \/ \E s \in Servers : PublishServer(s)
    \/ \E a \in Accounts : PublishAccount(a)
    \/ OnStatsz
    \/ OnConns
    \/ Stop
    \/ \E h \in Handlers : Ask(h) \/ ServeRequest(h) \/ TakeReply(h) \/ GiveUp(h)

-----------------------------------------------------------------------------
(***************************************************************************)
(* A server has one row, however often it reports.                         *)
(***************************************************************************)
OneRowPerServer ==
    \A i, j \in DOMAIN servers : servers[i].id = servers[j].id => i = j

\* Zeros instead of messages and bytes only come with a newer count of the
\* connections.
AsRecent(numbers, floor) ==
    /\ numbers.conns >= floor.conns
    /\ \/ numbers.traffic >= floor.traffic
       \/ numbers.traffic = 0 /\ numbers.conns > floor.conns

(***************************************************************************)
(* Who asks for an account while nothing else is under way for it is never *)
(* answered with less recent numbers than the map had before, neither by   *)
(* the reply nor, after a timeout, by the entry, whatever events come in   *)
(* meanwhile; but an event takes the messages and bytes away.              *)
(***************************************************************************)
AnswersAdvance ==
    \A h \in Handlers :
        call[h].pc = "idle" /\ call[h].alone => AsRecent(call[h].answer, call[h].floor)
=============================================================================
