----------------------------- MODULE PoolProofs -----------------------------
(***************************************************************************)
(* Proofs about ConnectionPool for any number of requests, tenants,        *)
(* connections and disconnections.                                         *)
(***************************************************************************)
EXTENDS ConnectionPool, TLAPS, FiniteSetTheorems

\* A connection in use belongs to a tenant, one that wavered or was given up
\* to a tenant that lost it, or to a pool that was closed.
ConnsKnown ==
    \A c \in Conns :
        /\ conn[c].state # "free" => conn[c].tenant \in Tenants
        /\ conn[c].state = "reconnecting" /\ serving => drops[conn[c].tenant] > 0
        /\ conn[c].state = "closed" /\ serving => drops[conn[c].tenant] > 0

CallsKnown ==
    \A h \in Handlers : call[h].pc # "idle" => call[h].tenant \in Tenants

\* Who dials holds the lock and saw no live connection of the tenant, and
\* nobody else can have made one.
DialsAlone ==
    serving => \A h \in Handlers, c \in Conns :
        call[h].pc = "dial" /\ drops[call[h].tenant] = 0 /\ Live(c)
            => conn[c].tenant # call[h].tenant

Inv == TypeOK /\ EntriesOwn /\ ConnsKnown /\ CallsKnown /\ DialsAlone /\ OnePerTenant

\* The invariant holds while there is neither a connection nor a call.
LEMMA InitInv == Init => Inv
<1> SUFFICES ASSUME Init
             PROVE  Inv
    OBVIOUS
<1> USE PoolAssumption DEF Init
<1>1. TypeOK
    <2>1. [state |-> "free", tenant |-> None] \in Conn /\ NoCall \in Call
        BY DEF Conn, NoCall, Call
    <2>2. conn \in [Conns -> Conn] /\ call \in [Handlers -> Call]
        BY <2>1
    <2>3. \A h \in Handlers : lock = h <=> call[h].pc = "dial"
        BY DEF NoCall
    <2>4. serving \in BOOLEAN
        OBVIOUS
    <2> QED
        BY <2>2, <2>3, <2>4 DEF TypeOK
<1>2. EntriesOwn
    BY DEF EntriesOwn
<1>3. ConnsKnown
    BY DEF ConnsKnown
<1>4. CallsKnown /\ DialsAlone
    BY DEF CallsKnown, DialsAlone, NoCall
<1>5. OnePerTenant
    BY DEF OnePerTenant, Live
<1> QED
    BY <1>1, <1>2, <1>3, <1>4, <1>5 DEF Inv

\* Steps of GetConn that hold no lock and start or end nothing but a call.
LEMMA CallStep ==
    ASSUME Inv, NEW h \in Handlers, Enter(h) \/ Read(h) \/ Probe(h)
    PROVE  Inv'
<1> USE PoolAssumption DEF Inv, TypeOK
<1>1. PICK c \in Call : call' = [call EXCEPT ![h] = c]
    <2>1. CASE Enter(h)
        BY <2>1 DEF Enter, Call
    <2>2. CASE Read(h)
        <3>1. pool[call[h].tenant] \in Conns \union {None}
            BY <2>2 DEF Read, At, CallsKnown
        <3>2. [call[h] EXCEPT !.pc = "probe", !.found = pool[call[h].tenant]] \in Call
            BY <3>1 DEF Call
        <3>3. call' = [call EXCEPT ![h] = [call[h] EXCEPT !.pc = "probe",
                                                          !.found = pool[call[h].tenant]]]
            BY <2>2 DEF Read
        <3> QED
            BY <3>2, <3>3
    <2>3. CASE Probe(h)
        <3>1. NoCall \in Call /\ [call[h] EXCEPT !.pc = "lock", !.found = None] \in Call
            BY DEF NoCall, Call
        <3>2. \/ call' = [call EXCEPT ![h] = NoCall]
              \/ call' = [call EXCEPT ![h] = [call[h] EXCEPT !.pc = "lock", !.found = None]]
            BY <2>3 DEF Probe, Return
        <3> QED
            BY <3>1, <3>2
    <2> QED
        BY <2>1, <2>2, <2>3
<1>2. call'[h].pc # "dial" /\ call[h].pc # "dial"
    BY DEF Enter, Read, Probe, Return, NoCall, At, Call
<1>3. call'[h].pc # "idle" => call'[h].tenant \in Tenants
    BY DEF Enter, Read, Probe, Return, NoCall, At, Call, CallsKnown
<1>4. UNCHANGED <<pool, conn, lock, serving, drops>>
    BY DEF Enter, Read, Probe
<1>5. TypeOK'
    BY <1>1, <1>2, <1>4
<1>6. CallsKnown'
    BY <1>1, <1>3, <1>4 DEF CallsKnown
<1>7. DialsAlone'
    BY <1>1, <1>2, <1>4 DEF DialsAlone, Live
<1> QED
    BY <1>4, <1>5, <1>6, <1>7 DEF EntriesOwn, ConnsKnown, OnePerTenant, Live

\* The second look at the map, under the lock.
LEMMA AcquireStep ==
    ASSUME Inv, NEW h \in Handlers, Acquire(h)
    PROVE  Inv'
<1> USE PoolAssumption DEF Inv, TypeOK
<1>1. UNCHANGED <<pool, conn, serving, drops>> /\ call[h].pc = "lock" /\ lock = None
    BY DEF Acquire, At
<1>2. call[h].tenant \in Tenants
    BY <1>1 DEF CallsKnown
<1>3. CASE Return(h) /\ UNCHANGED lock
    <2>1. call' = [call EXCEPT ![h] = NoCall] /\ NoCall \in Call /\ NoCall.pc = "idle"
        BY <1>3 DEF Return, NoCall, Call
    <2>2. TypeOK'
        BY <1>1, <1>3, <2>1
    <2>3. CallsKnown' /\ DialsAlone'
        BY <1>1, <2>1 DEF CallsKnown, DialsAlone, Live
    <2> QED
        BY <1>1, <2>2, <2>3 DEF EntriesOwn, ConnsKnown, OnePerTenant, Live
<1>4. CASE /\ ~IsConnected(pool[call[h].tenant])
           /\ lock' = h
           /\ call' = [call EXCEPT ![h].pc = "dial"]
    <2>1. call' \in [Handlers -> Call]
        BY <1>4 DEF Call
    <2>2. \A g \in Handlers : lock' = g <=> call'[g].pc = "dial"
        BY <1>1, <1>4
    <2>3. TypeOK'
        BY <1>1, <1>4, <2>1, <2>2
    <2>4. CallsKnown'
        BY <1>1, <1>2, <1>4 DEF CallsKnown
    <2>5. DialsAlone'
        <3> SUFFICES ASSUME serving, NEW g \in Handlers, NEW c \in Conns,
                            call'[g].pc = "dial", drops[call'[g].tenant] = 0, Live(c)
                     PROVE  conn[c].tenant # call'[g].tenant
            BY <1>1 DEF DialsAlone, Live
        <3>1. g = h /\ call'[g].tenant = call[h].tenant
            BY <1>4, <2>2
        <3>2. ASSUME conn[c].tenant = call[h].tenant
              PROVE  FALSE
            <4>1. pool[call[h].tenant] = c
                BY <3>1, <3>2 DEF OnePerTenant
            <4>2. conn[c].state # "reconnecting"
                BY <3>1, <3>2 DEF ConnsKnown
            <4> QED
                BY <1>4, <4>1, <4>2 DEF IsConnected, Live
        <3> QED
            BY <3>1, <3>2
    <2> QED
        BY <1>1, <2>3, <2>4, <2>5 DEF EntriesOwn, ConnsKnown, OnePerTenant, Live
<1> QED
    BY <1>3, <1>4 DEF Acquire

\* The new connection is the only live one of its tenant.
LEMMA DialStep ==
    ASSUME Inv, NEW h \in Handlers, Dial(h)
    PROVE  Inv'
<1> USE PoolAssumption DEF Inv, TypeOK
<1> DEFINE t == call[h].tenant
<1>1. t \in Tenants /\ call[h].pc = "dial" /\ lock = h
    BY DEF Dial, At, CallsKnown
<1>2. PICK c \in Conns :
          /\ Unused(c)
          /\ conn' = [conn EXCEPT ![c] = [state |-> "up", tenant |-> t]]
          /\ pool' = [pool EXCEPT ![t] = c]
    BY DEF Dial
<1>3. /\ call' = [call EXCEPT ![h] = NoCall]
      /\ lock' = None
      /\ UNCHANGED <<serving, drops>>
    BY DEF Dial, Return
<1>4. NoCall \in Call /\ NoCall.pc = "idle"
    BY DEF NoCall, Call
<1>5. [state |-> "up", tenant |-> t] \in Conn
    BY <1>1 DEF Conn
<1>6. TypeOK'
    <2>1. conn' \in [Conns -> Conn] /\ pool' \in [Tenants -> Conns \union {None}]
        BY <1>1, <1>2, <1>5
    <2>2. call' \in [Handlers -> Call]
        BY <1>3, <1>4
    <2>3. \A g \in Handlers : lock' = g <=> call'[g].pc = "dial"
        BY <1>1, <1>3, <1>4
    <2> QED
        BY <1>3, <2>1, <2>2, <2>3
<1>7. EntriesOwn'
    BY <1>1, <1>2 DEF EntriesOwn, Unused
<1>8. ConnsKnown'
    BY <1>1, <1>2, <1>3 DEF ConnsKnown
<1>9. CallsKnown'
    BY <1>3, <1>4 DEF CallsKnown
<1>10. DialsAlone'
    BY <1>1, <1>3, <1>4 DEF DialsAlone
<1>11. OnePerTenant'
    <2> SUFFICES ASSUME serving, NEW d \in Conns, Live(d)', drops[conn'[d].tenant] = 0
                 PROVE  pool'[conn'[d].tenant] = d
        BY <1>3 DEF OnePerTenant
    <2>1. CASE d = c
        BY <1>1, <1>2, <2>1
    <2>2. CASE d # c
        <3>1. conn'[d] = conn[d] /\ Live(d)
            BY <1>2, <2>2 DEF Live
        <3>2. conn[d].tenant # t
            BY <1>1, <2>2, <3>1 DEF DialsAlone
        <3>3. pool[conn[d].tenant] = d /\ conn[d].tenant \in Tenants
            BY <3>1 DEF OnePerTenant, ConnsKnown, Live
        <3> QED
            BY <1>2, <3>1, <3>2, <3>3
    <2> QED
        BY <2>1, <2>2
<1> QED
    BY <1>6, <1>7, <1>8, <1>9, <1>10, <1>11

\* A dial that fails releases the lock and changes nothing else.
LEMMA DialFailsStep ==
    ASSUME Inv, NEW h \in Handlers, DialFails(h)
    PROVE  Inv'
<1> USE PoolAssumption DEF Inv, TypeOK
<1>1. /\ call' = [call EXCEPT ![h] = NoCall]
      /\ lock' = None /\ lock = h
      /\ UNCHANGED <<pool, conn, serving, drops>>
    BY DEF DialFails, Return, At
<1>2. NoCall \in Call /\ NoCall.pc = "idle"
    BY DEF NoCall, Call
<1>3. \A g \in Handlers : lock' = g <=> call'[g].pc = "dial"
    BY <1>1, <1>2
<1>4. TypeOK'
    BY <1>1, <1>2, <1>3
<1>5. CallsKnown' /\ DialsAlone'
    BY <1>1, <1>2 DEF CallsKnown, DialsAlone, Live
<1> QED
    BY <1>1, <1>4, <1>5 DEF EntriesOwn, ConnsKnown, OnePerTenant, Live

\* Losing a connection is what the tenant's count remembers.
LEMMA DisconnectStep ==
    ASSUME Inv, NEW c \in Conns, Disconnect(c)
    PROVE  Inv'
<1> USE PoolAssumption DEF Inv, TypeOK
<1>1. /\ conn[c].state = "up"
      /\ conn' = [conn EXCEPT ![c].state = "reconnecting"]
      /\ drops' = [drops EXCEPT ![conn[c].tenant] = @ + 1]
      /\ UNCHANGED <<pool, lock, call, serving>>
    BY DEF Disconnect
<1>2. conn[c].tenant \in Tenants
    BY <1>1 DEF ConnsKnown
<1>3. TypeOK'
    BY <1>1, <1>2 DEF Conn
<1>4. \A d \in Conns : conn'[d].tenant = conn[d].tenant /\ (Live(d)' <=> Live(d))
    BY <1>1 DEF Live
<1>5. \A t \in Tenants : drops'[t] >= drops[t]
    BY <1>1, <1>2
<1>6. EntriesOwn' /\ CallsKnown'
    BY <1>1, <1>4 DEF EntriesOwn, CallsKnown
<1>7. ConnsKnown'
    BY <1>1, <1>2, <1>5 DEF ConnsKnown
<1>8. DialsAlone'
    BY <1>1, <1>4, <1>5 DEF DialsAlone, CallsKnown
<1>9. OnePerTenant'
    BY <1>1, <1>4, <1>5 DEF OnePerTenant, ConnsKnown, Live
<1> QED
    BY <1>3, <1>6, <1>7, <1>8, <1>9

\* What comes back, or is given up, was lost before.
LEMMA ReconnectStep ==
    ASSUME Inv, NEW c \in Conns, Reconnect(c)
    PROVE  Inv'
<1> USE PoolAssumption DEF Inv, TypeOK
<1>1. PICK s \in {"up", "closed"} :
          /\ conn[c].state = "reconnecting"
          /\ conn' = [conn EXCEPT ![c].state = s]
          /\ UNCHANGED <<pool, lock, call, serving, drops>>
    BY DEF Reconnect
<1>2. TypeOK'
    BY <1>1 DEF Conn
<1>3. \A d \in Conns : conn'[d].tenant = conn[d].tenant /\ (Live(d)' => Live(d))
    BY <1>1 DEF Live
<1>4. EntriesOwn' /\ CallsKnown' /\ DialsAlone' /\ OnePerTenant'
    BY <1>1, <1>3 DEF EntriesOwn, CallsKnown, DialsAlone, OnePerTenant
<1>5. ConnsKnown'
    BY <1>1 DEF ConnsKnown
<1> QED
    BY <1>2, <1>4, <1>5

\* The callback removes the entry of its tenant, which matters only to a
\* tenant that lost a connection.
LEMMA ClosedHandlerStep ==
    ASSUME Inv, NEW c \in Conns, ClosedHandler(c)
    PROVE  Inv'
<1> USE PoolAssumption DEF Inv, TypeOK
<1>1. /\ conn[c].state = "closed"
      /\ pool' = [pool EXCEPT ![conn[c].tenant] = None]
      /\ conn' = [conn EXCEPT ![c] = [state |-> "free", tenant |-> None]]
      /\ UNCHANGED <<lock, call, serving, drops>>
    BY DEF ClosedHandler
<1>2. conn[c].tenant \in Tenants
    BY <1>1 DEF ConnsKnown
<1>3. serving => drops[conn[c].tenant] > 0
    BY <1>1 DEF ConnsKnown
<1>4. TypeOK'
    BY <1>1 DEF Conn
<1>5. \A d \in Conns : Live(d)' => d # c /\ conn'[d] = conn[d] /\ Live(d)
    BY <1>1 DEF Live
<1>6. EntriesOwn'
    BY <1>1, <1>2 DEF EntriesOwn
<1>7. ConnsKnown' /\ CallsKnown'
    BY <1>1 DEF ConnsKnown, CallsKnown
<1>8. DialsAlone'
    BY <1>1, <1>5 DEF DialsAlone
<1>9. OnePerTenant'
    <2> SUFFICES ASSUME serving, NEW d \in Conns, Live(d)', drops[conn'[d].tenant] = 0
                 PROVE  pool'[conn'[d].tenant] = d
        BY <1>1 DEF OnePerTenant
    <2>1. conn'[d] = conn[d] /\ Live(d)
        BY <1>5
    <2>2. pool[conn[d].tenant] = d /\ conn[d].tenant # conn[c].tenant
        BY <1>3, <2>1 DEF OnePerTenant
    <2>3. conn[d].tenant \in Tenants
        BY <2>1 DEF ConnsKnown, Live
    <2> QED
        BY <1>1, <2>1, <2>2, <2>3
<1> QED
    BY <1>4, <1>6, <1>7, <1>8, <1>9

\* Close empties the map, and nothing is claimed of what comes later.
LEMMA CloseStep ==
    ASSUME Inv, Close
    PROVE  Inv'
<1> USE PoolAssumption DEF Inv, TypeOK
<1>1. /\ serving' = FALSE
      /\ pool' = [t \in Tenants |-> None]
      /\ conn' = [c \in Conns |-> IF Pooled(c) /\ conn[c].state # "free"
                                      THEN [conn[c] EXCEPT !.state = "closed"] ELSE conn[c]]
      /\ UNCHANGED <<lock, call, drops>>
    BY DEF Close
<1>2. \A c \in Conns : conn'[c] \in {conn[c], [conn[c] EXCEPT !.state = "closed"]}
    BY <1>1
<1>3. conn' \in [Conns -> Conn]
    BY <1>1, <1>2 DEF Conn
<1>4. TypeOK'
    <2>1. serving' \in BOOLEAN
        BY <1>1
    <2> QED
        BY <1>1, <1>3, <2>1
<1>5. ConnsKnown'
    BY <1>1 DEF ConnsKnown, Conn
<1>6. EntriesOwn' /\ CallsKnown' /\ DialsAlone' /\ OnePerTenant'
    BY <1>1 DEF EntriesOwn, CallsKnown, DialsAlone, OnePerTenant
<1> QED
    BY <1>4, <1>5, <1>6

\* Every step keeps the invariant.
LEMMA NextInv == Inv /\ [Next]_vars => Inv'
<1> SUFFICES ASSUME Inv, [Next]_vars
             PROVE  Inv'
    OBVIOUS
<1>1. CASE UNCHANGED vars
    BY <1>1 DEF vars, Inv, TypeOK, EntriesOwn, ConnsKnown, CallsKnown, DialsAlone,
                OnePerTenant, Live
<1>2. CASE Next
    BY <1>2, CallStep, AcquireStep, DialStep, DialFailsStep, DisconnectStep, ReconnectStep,
       ClosedHandlerStep, CloseStep DEF Next, GetConn
<1> QED
    BY <1>1, <1>2

\* The inductive invariant of the pool.
THEOREM Invariance == Spec => []Inv
BY InitInv, NextInv, PTL DEF Spec

\* The lock is held by exactly the call that dials, and the map names
\* connections only, with any number of requests and callbacks.
THEOREM TypeCorrect == Spec => []TypeOK
<1>1. Inv => TypeOK
    BY DEF Inv
<1> QED
    BY <1>1, Invariance, PTL

\* However many requests find a tenant missing at once, one connection is made
\* and the map names it, for as long as the tenant loses none.
THEOREM OneConnectionPerTenant == Spec => []OnePerTenant
<1>1. Inv => OnePerTenant
    BY DEF Inv
<1> QED
    BY <1>1, Invariance, PTL

\* No request is ever given a connection of another tenant.
THEOREM EntriesStayOwn == Spec => []EntriesOwn
<1>1. Inv => EntriesOwn
    BY DEF Inv
<1> QED
    BY <1>1, Invariance, PTL
-----------------------------------------------------------------------------
\* The connections that live on outside the map.

\* Connections of the tenant that its entry does not name.
Stray(t) == {c \in Conns : conn[c].tenant = t /\ pool[t] # c}

\* An entry that the next dial replaces, or that one is about to replace.
Shaky(t) ==
    /\ pool[t] # None
    /\ \/ conn[pool[t]].state # "up"
       \/ \E h \in Handlers : call[h].pc = "dial" /\ call[h].tenant = t

\* Every stray connection has a disconnection of its own to blame, and a shaky
\* entry, which may make one more, has one left.
PaidFor(t) ==
    /\ IsFiniteSet(Stray(t))
    /\ Cardinality(Stray(t)) <= drops[t]
    /\ Shaky(t) => Cardinality(Stray(t)) < drops[t]

Paid == serving => \A t \in Tenants : PaidFor(t)

\* Counting: a part, one more, and one for another.
LEMMA CountPart ==
    ASSUME NEW S, IsFiniteSet(S), NEW T, T \subseteq S
    PROVE  /\ IsFiniteSet(T)
           /\ Cardinality(T) \in Nat /\ Cardinality(S) \in Nat
           /\ Cardinality(T) <= Cardinality(S)
<1>1. IsFiniteSet(T) /\ Cardinality(T) <= Cardinality(S)
    BY FS_Subset
<1> QED
    BY <1>1, FS_CardinalityType

LEMMA CountMore ==
    ASSUME NEW S, IsFiniteSet(S), NEW x, NEW T, T \subseteq S \union {x}
    PROVE  /\ IsFiniteSet(T)
           /\ Cardinality(T) \in Nat /\ Cardinality(S) \in Nat
           /\ Cardinality(T) <= Cardinality(S) + 1
<1>1. Cardinality(S) \in Nat
    BY FS_CardinalityType
<1>2. /\ IsFiniteSet(S \union {x})
      /\ Cardinality(S \union {x}) <= Cardinality(S) + 1
    BY <1>1, FS_AddElement
<1>3. /\ IsFiniteSet(T)
      /\ Cardinality(T) \in Nat /\ Cardinality(S \union {x}) \in Nat
      /\ Cardinality(T) <= Cardinality(S \union {x})
    BY <1>2, CountPart
<1> QED
    BY <1>1, <1>2, <1>3

LEMMA CountSwapped ==
    ASSUME NEW S, IsFiniteSet(S), NEW y \in S, NEW x, NEW T, T \subseteq (S \ {y}) \union {x}
    PROVE  /\ IsFiniteSet(T)
           /\ Cardinality(T) \in Nat /\ Cardinality(S) \in Nat
           /\ Cardinality(T) <= Cardinality(S)
<1>1. /\ IsFiniteSet(S \ {y})
      /\ Cardinality(S \ {y}) = Cardinality(S) - 1
    BY FS_RemoveElement
<1>2. /\ IsFiniteSet(T)
      /\ Cardinality(T) \in Nat
      /\ Cardinality(T) <= Cardinality(S \ {y}) + 1
    BY <1>1, CountMore
<1>3. Cardinality(S) \in Nat
    BY FS_CardinalityType
<1> QED
    BY <1>1, <1>2, <1>3

\* A tenant no step makes anything worse for.
LEMMA PaidStays ==
    ASSUME TypeOK, TypeOK', NEW t \in Tenants, PaidFor(t), drops'[t] >= drops[t],
           Stray(t)' \subseteq Stray(t), Shaky(t)' => Shaky(t)
    PROVE  PaidFor(t)'
<1>1. /\ IsFiniteSet(Stray(t)')
      /\ Cardinality(Stray(t)') \in Nat /\ Cardinality(Stray(t)) \in Nat
      /\ Cardinality(Stray(t)') <= Cardinality(Stray(t))
    BY CountPart DEF PaidFor
<1>2. drops[t] \in Nat /\ drops'[t] \in Nat
    BY DEF TypeOK
<1> QED
    BY <1>1, <1>2 DEF PaidFor

\* No connection, no debt.
LEMMA InitPaid == Init => Paid
<1> SUFFICES ASSUME Init, NEW t \in Tenants
             PROVE  PaidFor(t)
    BY DEF Paid
<1>1. Stray(t) = {} /\ ~Shaky(t) /\ drops[t] = 0
    BY PoolAssumption DEF Init, Stray, Shaky
<1> QED
    BY <1>1, FS_EmptySet DEF PaidFor

\* Who takes the lock to dial found an entry that was shaky already, or none.
LEMMA CallPaid ==
    ASSUME Inv, Inv', Paid, NEW h \in Handlers,
           Enter(h) \/ Read(h) \/ Probe(h) \/ Acquire(h) \/ DialFails(h)
    PROVE  Paid'
<1> SUFFICES ASSUME serving, NEW t \in Tenants
             PROVE  PaidFor(t)'
    BY DEF Paid, Enter, Read, Probe, Acquire, DialFails
<1>1. UNCHANGED <<pool, conn, drops>> /\ PaidFor(t)
    BY DEF Paid, Enter, Read, Probe, Acquire, DialFails
<1>2. Stray(t)' = Stray(t)
    BY <1>1 DEF Stray
<1>3. \A g \in Handlers : g # h => call'[g] = call[g]
    BY DEF Enter, Read, Probe, Acquire, DialFails, Return, Inv, TypeOK
<1>4. call'[h].pc = "dial" =>
          call'[h].tenant = call[h].tenant /\ ~IsConnected(pool[call[h].tenant])
    <2>1. call \in [Handlers -> Call]
        BY DEF Inv, TypeOK
    <2>2. CASE Enter(h)
        BY <2>1, <2>2 DEF Enter
    <2>3. CASE Read(h)
        BY <2>1, <2>3 DEF Read, Call
    <2>4. CASE Probe(h)
        BY <2>1, <2>4 DEF Probe, Return, NoCall, Call
    <2>5. CASE DialFails(h)
        BY <2>1, <2>5 DEF DialFails, Return, NoCall
    <2>6. CASE Acquire(h)
        BY <2>1, <2>6 DEF Acquire, Return, NoCall, Call
    <2> QED
        BY <2>2, <2>3, <2>4, <2>5, <2>6
<1>5. Shaky(t)' => Shaky(t)
    BY <1>1, <1>3, <1>4 DEF Shaky, IsConnected
<1>6. drops'[t] >= drops[t]
    BY <1>1 DEF Inv, TypeOK
<1> QED
    BY <1>1, <1>2, <1>5, <1>6, PaidStays DEF Inv

\* The entry a dial replaces is what the shaky entry had left.
LEMMA DialPaid ==
    ASSUME Inv, Inv', Paid, NEW h \in Handlers, Dial(h)
    PROVE  Paid'
<1> DEFINE s == call[h].tenant
<1> SUFFICES ASSUME serving, NEW t \in Tenants
             PROVE  PaidFor(t)'
    BY DEF Paid, Dial
<1>1. PICK c \in Conns :
          /\ Unused(c)
          /\ conn' = [conn EXCEPT ![c] = [state |-> "up", tenant |-> s]]
          /\ pool' = [pool EXCEPT ![s] = c]
    BY DEF Dial
<1>2. /\ call[h].pc = "dial" /\ s \in Tenants
      /\ call' = [call EXCEPT ![h] = NoCall] /\ lock = h
      /\ drops' = drops /\ drops[t] \in Nat /\ PaidFor(t)
    BY DEF Dial, Return, At, Inv, TypeOK, CallsKnown, Paid
<1>3. \A g \in Handlers : call'[g].pc # "dial"
    BY <1>2 DEF Inv, TypeOK, NoCall
<1>4. CASE t # s
    <2>1. Stray(t)' \subseteq Stray(t)
        BY <1>1, <1>2, <1>4 DEF Stray, Inv, TypeOK
    <2>2. Shaky(t)' => Shaky(t)
        BY <1>1, <1>2, <1>3, <1>4 DEF Shaky, Unused, Inv, TypeOK
    <2> QED
        BY <1>2, <2>1, <2>2, PaidStays DEF Inv
<1>5. CASE t = s
    <2>1. ~Shaky(t)'
        BY <1>1, <1>2, <1>3, <1>5 DEF Shaky, Inv, TypeOK
    <2>2. CASE pool[t] = None
        <3>1. Stray(t)' \subseteq Stray(t)
            BY <1>1, <1>2, <1>5, <2>2, PoolAssumption DEF Stray, Inv, TypeOK
        <3> QED
            BY <1>2, <2>1, <3>1, PaidStays DEF Inv
    <2>3. CASE pool[t] # None
        <3>1. Shaky(t)
            BY <1>2, <1>5, <2>3 DEF Shaky
        <3>2. Stray(t)' \subseteq Stray(t) \union {pool[t]}
            BY <1>1, <1>2, <1>5 DEF Stray, Inv, TypeOK
        <3>3. /\ IsFiniteSet(Stray(t)')
              /\ Cardinality(Stray(t)') \in Nat /\ Cardinality(Stray(t)) \in Nat
              /\ Cardinality(Stray(t)') <= Cardinality(Stray(t)) + 1
            BY <1>2, <3>2, CountMore DEF PaidFor
        <3> QED
            BY <1>2, <2>1, <3>1, <3>3 DEF PaidFor
    <2> QED
        BY <2>2, <2>3
<1> QED
    BY <1>4, <1>5

\* A disconnection pays for what it may cause.
LEMMA DisconnectPaid ==
    ASSUME Inv, Inv', Paid, NEW c \in Conns, Disconnect(c)
    PROVE  Paid'
<1> SUFFICES ASSUME serving, NEW t \in Tenants
             PROVE  PaidFor(t)'
    BY DEF Paid, Disconnect
<1>1. /\ conn[c].state = "up"
      /\ conn' = [conn EXCEPT ![c].state = "reconnecting"]
      /\ drops' = [drops EXCEPT ![conn[c].tenant] = @ + 1]
      /\ UNCHANGED <<pool, call>>
      /\ conn[c].tenant \in Tenants /\ drops[t] \in Nat /\ PaidFor(t)
    BY DEF Disconnect, Inv, TypeOK, ConnsKnown, Paid
<1>2. \A d \in Conns : conn'[d].tenant = conn[d].tenant
    BY <1>1 DEF Inv, TypeOK
<1>3. Stray(t)' = Stray(t)
    BY <1>1, <1>2 DEF Stray
<1>4. CASE t = conn[c].tenant
    <2>1. drops'[t] = drops[t] + 1
        BY <1>1, <1>4 DEF Inv, TypeOK
    <2>2. Cardinality(Stray(t)) \in Nat
        BY <1>1, FS_CardinalityType DEF PaidFor
    <2> QED
        BY <1>1, <1>3, <2>1, <2>2 DEF PaidFor
<1>5. CASE t # conn[c].tenant
    <2>1. drops'[t] = drops[t]
        BY <1>1, <1>5 DEF Inv, TypeOK
    <2>2. Shaky(t)' => Shaky(t)
        BY <1>1, <1>5 DEF Shaky, Inv, TypeOK, EntriesOwn
    <2> QED
        BY <1>1, <1>3, <2>1, <2>2, PaidStays DEF Inv
<1> QED
    BY <1>4, <1>5

\* What comes back, or is given up, is no more shaky than it was.
LEMMA ReconnectPaid ==
    ASSUME Inv, Inv', Paid, NEW c \in Conns, Reconnect(c)
    PROVE  Paid'
<1> SUFFICES ASSUME serving, NEW t \in Tenants
             PROVE  PaidFor(t)'
    BY DEF Paid, Reconnect
<1>1. PICK s \in {"up", "closed"} :
          /\ conn[c].state = "reconnecting"
          /\ conn' = [conn EXCEPT ![c].state = s]
          /\ UNCHANGED <<pool, call, drops>>
    BY DEF Reconnect
<1>2. /\ \A d \in Conns : conn'[d].tenant = conn[d].tenant
      /\ \A d \in Conns : conn'[d].state # "up" => conn[d].state # "up"
    BY <1>1 DEF Inv, TypeOK
<1>3. Stray(t)' = Stray(t)
    BY <1>1, <1>2 DEF Stray
<1>4. Shaky(t)' => Shaky(t)
    BY <1>1, <1>2 DEF Shaky, Inv, TypeOK
<1>5. PaidFor(t) /\ drops'[t] >= drops[t]
    BY <1>1 DEF Paid, Inv, TypeOK
<1> QED
    BY <1>3, <1>4, <1>5, PaidStays DEF Inv

\* The connection whose callback runs is stray itself when it makes another so.
LEMMA ClosedHandlerPaid ==
    ASSUME Inv, Inv', Paid, NEW c \in Conns, ClosedHandler(c)
    PROVE  Paid'
<1> DEFINE s == conn[c].tenant
<1> SUFFICES ASSUME serving, NEW t \in Tenants
             PROVE  PaidFor(t)'
    BY DEF Paid, ClosedHandler
<1>1. /\ pool' = [pool EXCEPT ![s] = None]
      /\ conn' = [conn EXCEPT ![c] = [state |-> "free", tenant |-> None]]
      /\ UNCHANGED <<call, drops>>
      /\ s \in Tenants /\ drops[t] \in Nat /\ PaidFor(t)
    BY DEF ClosedHandler, Inv, TypeOK, ConnsKnown, Paid
<1>2. t # None
    BY PoolAssumption
<1>3. CASE t # s
    <2>1. Stray(t)' \subseteq Stray(t)
        BY <1>1, <1>2, <1>3 DEF Stray, Inv, TypeOK
    <2>2. Shaky(t)' => Shaky(t)
        BY <1>1, <1>3 DEF Shaky, Inv, TypeOK, EntriesOwn
    <2> QED
        BY <1>1, <2>1, <2>2, PaidStays DEF Inv
<1>4. CASE t = s
    <2>1. ~Shaky(t)'
        BY <1>1, <1>4 DEF Shaky, Inv, TypeOK
    <2>2. CASE pool[t] = c
        <3>1. Stray(t)' \subseteq Stray(t)
            BY <1>1, <1>2, <2>2 DEF Stray, Inv, TypeOK
        <3> QED
            BY <1>1, <2>1, <3>1, PaidStays DEF Inv
    <2>3. CASE pool[t] # c
        <3>1. c \in Stray(t)
            BY <1>4, <2>3 DEF Stray
        <3>2. Stray(t)' \subseteq (Stray(t) \ {c}) \union {pool[t]}
            BY <1>1, <1>2, <1>4 DEF Stray, Inv, TypeOK
        <3>3. /\ IsFiniteSet(Stray(t)')
              /\ Cardinality(Stray(t)') \in Nat /\ Cardinality(Stray(t)) \in Nat
              /\ Cardinality(Stray(t)') <= Cardinality(Stray(t))
            BY <1>1, <3>1, <3>2, CountSwapped DEF PaidFor
        <3> QED
            BY <1>1, <2>1, <3>3 DEF PaidFor
    <2> QED
        BY <2>2, <2>3
<1> QED
    BY <1>3, <1>4

\* Every step keeps the account.
LEMMA NextPaid == Inv /\ Inv' /\ Paid /\ [Next]_vars => Paid'
<1> SUFFICES ASSUME Inv, Inv', Paid, [Next]_vars
             PROVE  Paid'
    OBVIOUS
<1>1. CASE UNCHANGED vars
    BY <1>1 DEF vars, Paid, PaidFor, Stray, Shaky
<1>2. CASE Close
    BY <1>2 DEF Close, Paid
<1>3. CASE Next /\ ~Close
    BY <1>3, CallPaid, DialPaid, DisconnectPaid, ReconnectPaid, ClosedHandlerPaid
       DEF Next, GetConn
<1> QED
    BY <1>1, <1>2, <1>3

\* As long as the manager is open, a tenant has never more live connections
\* outside the map than it had disconnections, however the dials of the
\* requests, the reconnections and the late callbacks interleave.
THEOREM LeaksStayBounded == Spec => []LeaksBounded
<1>1. Inv /\ Paid => LeaksBounded
    <2> SUFFICES ASSUME Inv, Paid, serving, NEW t \in Tenants
                 PROVE  Cardinality({c \in Conns : Live(c) /\ conn[c].tenant = t /\ pool[t] # c})
                            <= drops[t]
        BY DEF LeaksBounded
    <2> DEFINE leaked == {c \in Conns : Live(c) /\ conn[c].tenant = t /\ pool[t] # c}
    <2>1. leaked \subseteq Stray(t)
        BY DEF Stray
    <2>2. PaidFor(t) /\ drops[t] \in Nat
        BY DEF Paid, Inv, TypeOK
    <2>3. /\ Cardinality(leaked) \in Nat /\ Cardinality(Stray(t)) \in Nat
          /\ Cardinality(leaked) <= Cardinality(Stray(t))
        BY <2>1, <2>2, CountPart DEF PaidFor
    <2> QED
        BY <2>2, <2>3 DEF PaidFor
<1> QED
    BY <1>1, InitPaid, NextPaid, Invariance, PTL DEF Spec
=============================================================================
