---------------------------- MODULE BackendProofs ----------------------------
(***************************************************************************)
(* Safety of the backend for any number of handlers, tenants, users and    *)
(* limits, any bounds on the requests under way, and any set of faults.    *)
(*                                                                         *)
(* The inductive invariant IInv has one part per kind of state: the        *)
(* database, the network, the frames of the processes, and the host.  A    *)
(* step is proved by what it does to each part: the lemmas of the first    *)
(* sections say what the writes, the resolver calls and a change of one    *)
(* frame preserve, and the proof of an action cites them.                  *)
(***************************************************************************)
EXTENDS Backend, TLAPS, SequenceTheorems

Sent == {"push", "answer"}

\* What a frame holds while the tables are ts, cm and cr.
Sound(f, ts, cm, cr) ==
    /\ f.op = "none" => f.pc = "idle"
    /\ f.op \notin {"none", "Reconcile"} => f.tenant \in Tenants /\ ts[f.tenant] # None
    /\ f.op = "Reconcile" /\ f.pc = "answer" => f.tenant \in Tenants
    /\ \A t \in Tenants : f.todo[t] \in cm[t] \union {None}
    /\ f.op = "Update" => f.jwt \in Claims /\ f.limit \in Limits
    /\ f.op \in {"Issue", "Revoke"} => f.user \in Users
    /\ f.op = "Revoke" => cr[f.user] # None
    /\ f.op = "Revoke" /\ f.pc = "write" => f.jwt \in Claims
    /\ \/ f.op = "Create"
       \/ f.op = "Revoke" /\ f.pc = "mark"
       \/ f.op # "Reconcile" /\ f.pc = "push"
       => f.jwt \in cm[f.tenant]

\* Credentials belong to tenants that exist.
OwnersOK == \A u \in Users : creds[u] # None => tenants[creds[u].tenant] # None

DbOK ==
    /\ OwnersOK
    /\ tenants \in [Tenants -> Row \union {None}]
    /\ seeds \subseteq Tenants
    /\ committed \in [Tenants -> SUBSET Claims]
    /\ CredentialTypeOK
    /\ \A t \in Tenants : tenants[t] # None => tenants[t].jwt \in committed[t]
    /\ \A t \in seeds : tenants[t] # None

NetOK ==
    /\ NetTypeOK
    /\ \A t \in Tenants : store[t] \in Recorded(t)
    /\ \A i \in DOMAIN wire : wire[i].jwt \in Recorded(wire[i].tenant)
    /\ \A m \in old : m.jwt \in Recorded(m.tenant)

FramesOK ==
    /\ frame \in [Procs -> Frame]
    /\ \A p \in Procs : Sound(frame[p], tenants, committed, creds)

HostOK == phase \in {"down", "booting", "serving"} /\ sysConn \in BOOLEAN

\* The inductive invariant.
IInv == DbOK /\ NetOK /\ FramesOK /\ HostOK

\* Rows and credentials do not disappear, and the history only grows.
Grows ==
    /\ \A t \in Tenants : tenants[t] # None => tenants'[t] # None
    /\ \A t \in Tenants : committed[t] \subseteq committed'[t]
    /\ \A u \in Users : creds[u] # None => creds'[u] # None

-----------------------------------------------------------------------------
\* Claims and frames.

LEMMA NoneIsNoClaims == None \notin Claims
BY NoneAssumption

\* Editing claims yields claims.
LEMMA ClaimsClosed ==
    /\ \A n \in Limits : NewAccountClaims(n) \in Claims
    /\ \A c \in Claims, n \in Limits : WithLimits(c, n) \in Claims
    /\ \A c \in Claims, u \in Users : WithRevocation(c, u) \in Claims
<1>1. \A n \in Limits : NewAccountClaims(n) \in Claims
  BY LimitsAssumption DEF NewAccountClaims, Claims, LimitValues, NoLimit
<1>2. \A c \in Claims, n \in Limits : WithLimits(c, n) \in Claims
  BY DEF WithLimits, Claims, LimitValues
<1>3. \A c \in Claims, u \in Users : WithRevocation(c, u) \in Claims
  BY DEF WithRevocation, Claims
<1>4. QED
  BY <1>1, <1>2, <1>3

LEMMA IdleIsFrame == IdleFrame \in Frame
BY DEF IdleFrame, Frame, Nothing, PcNames

LEMMA IdleIsSound ==
    ASSUME NEW ts, NEW cm, NEW cr
    PROVE  Sound(IdleFrame, ts, cm, cr)
BY DEF IdleFrame, Sound, Nothing

\* A frame opened for a tenant.
LEMMA OpenedFrame ==
    ASSUME NEW op \in OpNames, NEW pc \in PcNames, NEW t \in Tenants \union {None}
    PROVE  /\ Opened(op, pc, t) \in Frame
           /\ Opened(op, pc, t).op = op
           /\ Opened(op, pc, t).pc = pc
           /\ Opened(op, pc, t).tenant = t
           /\ Opened(op, pc, t).todo = Nothing
BY DEF Opened, IdleFrame, Frame, Nothing

\* What was sound stays sound while the tables grow.
LEMMA GrowthKeepsSound ==
    ASSUME IInv, Grows, NEW f \in Frame, Sound(f, tenants, committed, creds)
    PROVE  Sound(f, tenants', committed', creds')
BY DEF Grows, Sound, Frame

\* One process changes its frame.
LEMMA FrameStep ==
    ASSUME IInv, Grows,
           NEW p \in Procs, NEW f \in Frame,
           frame' = [frame EXCEPT ![p] = f],
           Sound(f, tenants', committed', creds')
    PROVE  FramesOK'
<1>1. frame' \in [Procs -> Frame]
  BY DEF IInv, FramesOK
<1>2. ASSUME NEW q \in Procs
      PROVE  Sound(frame'[q], tenants', committed', creds')
  <2>1. CASE q = p
    BY <2>1 DEF IInv, FramesOK
  <2>2. CASE q # p
    <3>1. frame'[q] = frame[q] /\ frame[q] \in Frame
      BY <2>2 DEF IInv, FramesOK
    <3>2. Sound(frame[q], tenants, committed, creds)
      BY DEF IInv, FramesOK
    <3>3. QED
      BY <3>1, <3>2, GrowthKeepsSound
  <2>3. QED
    BY <2>1, <2>2
<1>3. QED
  BY <1>1, <1>2 DEF FramesOK

\* No process changes its frame.
LEMMA FramesKept ==
    ASSUME IInv, Grows, UNCHANGED frame
    PROVE  FramesOK'
<1>1. ASSUME NEW q \in Procs
      PROVE  Sound(frame[q], tenants', committed', creds')
  <2>1. frame[q] \in Frame /\ Sound(frame[q], tenants, committed, creds)
    BY DEF IInv, FramesOK
  <2>2. QED
    BY <2>1, GrowthKeepsSound
<1>2. QED
  BY <1>1 DEF IInv, FramesOK

\* The frame of a process, as the invariant knows it.
LEMMA FrameFacts ==
    ASSUME IInv, NEW p \in Procs
    PROVE  /\ frame[p] \in Frame
           /\ Sound(frame[p], tenants, committed, creds)
BY DEF IInv, FramesOK

-----------------------------------------------------------------------------
\* Database writes.

LEMMA NoGrowth ==
    ASSUME UNCHANGED <<dbVars, creds>>
    PROVE  Grows
BY DEF Grows, dbVars

LEMMA OwnersKept ==
    ASSUME IInv, Grows, UNCHANGED creds
    PROVE  OwnersOK'
BY CredentialAssumption DEF IInv, DbOK, OwnersOK, CredentialTypeOK, Credential, Grows

LEMMA DbKept ==
    ASSUME IInv, UNCHANGED <<dbVars, credVars>>
    PROVE  DbOK' /\ Grows
BY NoGrowth, OwnersKept DEF IInv, DbOK, dbVars, credVars, CredentialTypeOK

LEMMA WriteJWTKeeps ==
    ASSUME IInv, NEW t \in Tenants, NEW row \in Row, WriteJWT(t, row), UNCHANGED creds
    PROVE  /\ Grows
           /\ tenants' \in [Tenants -> Row \union {None}]
           /\ committed' \in [Tenants -> SUBSET Claims]
           /\ \A s \in Tenants : tenants'[s] # None => tenants'[s].jwt \in committed'[s]
           /\ \A s \in seeds : tenants'[s] # None
           /\ row.jwt \in committed'[t]
           /\ tenants'[t] # None
<1>1. row.jwt \in Claims /\ row # None
  BY RowAssumption DEF Row
<1>2. /\ tenants \in [Tenants -> Row \union {None}]
      /\ committed \in [Tenants -> SUBSET Claims]
      /\ seeds \subseteq Tenants
      /\ \A s \in Tenants : tenants[s] # None => tenants[s].jwt \in committed[s]
      /\ \A s \in seeds : tenants[s] # None
  BY DEF IInv, DbOK
<1>3. /\ tenants' = [tenants EXCEPT ![t] = row]
      /\ committed' = [committed EXCEPT ![t] = @ \union {row.jwt}]
  BY DEF WriteJWT
<1>4. \A s \in Tenants : s # t => tenants'[s] = tenants[s] /\ committed'[s] = committed[s]
  BY <1>2, <1>3
<1>5. tenants'[t] = row /\ committed'[t] = committed[t] \union {row.jwt}
  BY <1>2, <1>3
<1>6. Grows
  BY <1>1, <1>4, <1>5 DEF Grows
<1>7. QED
  BY <1>1, <1>2, <1>3, <1>4, <1>5, <1>6

LEMMA WriteStatusKeeps ==
    ASSUME IInv, NEW t \in Tenants, tenants[t] # None,
           NEW status \in {"active", "suspended", "deleted"},
           WriteStatus(t, status), UNCHANGED credVars
    PROVE  DbOK' /\ Grows
<1>1. /\ tenants \in [Tenants -> Row \union {None}]
      /\ \A s \in Tenants : tenants[s] # None => tenants[s].jwt \in committed[s]
      /\ \A s \in seeds : tenants[s] # None
      /\ seeds \subseteq Tenants
  BY DEF IInv, DbOK
<1>2. tenants' = [tenants EXCEPT ![t].status = status] /\ UNCHANGED <<seeds, committed>>
  BY DEF WriteStatus
<1>3. tenants'[t] = [tenants[t] EXCEPT !.status = status] /\ tenants[t] \in Row
  BY <1>1, <1>2
<1>4. tenants'[t] \in Row /\ tenants'[t].jwt = tenants[t].jwt
  BY <1>3 DEF Row
<1>5. tenants'[t] # None
  BY <1>4, RowAssumption
<1>6. \A s \in Tenants : s # t => tenants'[s] = tenants[s]
  BY <1>1, <1>2
<1>7. tenants' \in [Tenants -> Row \union {None}]
  BY <1>1, <1>2, <1>4, <1>6
<1>8. Grows
  BY <1>2, <1>5, <1>6 DEF Grows, credVars
<1>9. DbOK'
  BY <1>1, <1>2, <1>4, <1>5, <1>6, <1>7, <1>8, OwnersKept DEF IInv, DbOK, credVars, CredentialTypeOK
<1>10. QED
  BY <1>8, <1>9

\* WriteJWT in an action that leaves the seeds and the credentials alone.
LEMMA WriteJWTKeepsDb ==
    ASSUME IInv, NEW t \in Tenants, NEW row \in Row, WriteJWT(t, row), UNCHANGED credVars
    PROVE  DbOK' /\ Grows /\ row.jwt \in committed'[t] /\ tenants'[t] # None
<1>1. UNCHANGED <<seeds, creds, acked>>
  BY DEF WriteJWT, credVars
<1>2. QED
  BY <1>1, WriteJWTKeeps, OwnersKept DEF IInv, DbOK, CredentialTypeOK

-----------------------------------------------------------------------------
\* Resolver calls.

LEMMA WireFacts ==
    ASSUME IInv
    PROVE  /\ wire \in Seq(Request)
           /\ Len(wire) \in Nat
           /\ DOMAIN wire = 1 .. Len(wire)
           /\ \A i \in DOMAIN wire : /\ wire[i] \in Request
                                    /\ wire[i].tenant \in Tenants
                                    /\ wire[i].jwt \in Recorded(wire[i].tenant)
<1>1. wire \in Seq(Request) /\ \A i \in DOMAIN wire : wire[i].jwt \in Recorded(wire[i].tenant)
  BY DEF IInv, NetOK, NetTypeOK
<1>2. /\ Len(wire) \in Nat
      /\ DOMAIN wire = 1 .. Len(wire)
      /\ \A i \in DOMAIN wire : wire[i] \in Request
  BY <1>1, LenProperties, ElementOfSeq
<1>3. \A i \in DOMAIN wire : wire[i].tenant \in Tenants
  BY <1>2 DEF Request
<1>4. QED
  BY <1>1, <1>2, <1>3

LEMMA OldFacts ==
    ASSUME IInv
    PROVE  /\ old \subseteq Request /\ late \subseteq Tenants
           /\ \A m \in old : m.tenant \in Tenants /\ m.jwt \in Recorded(m.tenant)
<1>1. old \subseteq Request /\ late \subseteq Tenants /\ \A m \in old : m.jwt \in Recorded(m.tenant)
  BY DEF IInv, NetOK, NetTypeOK
<1>2. QED
  BY <1>1 DEF Request

\* The part of NetOK about the requests of dead processes.
OldOK ==
    /\ old \subseteq Request /\ late \subseteq Tenants
    /\ \A m \in old : m.jwt \in Recorded(m.tenant)

LEMMA RecordedGrows ==
    ASSUME Grows \/ UNCHANGED committed
    PROVE  \A t \in Tenants : Recorded(t) \subseteq Recorded(t)'
BY DEF Grows, Recorded

LEMMA OldKept ==
    ASSUME IInv, Grows \/ UNCHANGED committed, UNCHANGED <<old, late>>
    PROVE  OldOK'
<1>1. \A t \in Tenants : Recorded(t) \subseteq Recorded(t)'
  BY RecordedGrows
<1>2. QED
  BY <1>1, OldFacts DEF OldOK

LEMMA NetKept ==
    ASSUME IInv, Grows, UNCHANGED netVars
    PROVE  NetOK'
<1>1. \A t \in Tenants : Recorded(t) \subseteq Recorded(t)'
  BY DEF Grows, Recorded
<1>2. wire \in Seq(Request) /\ \A i \in DOMAIN wire : wire[i].tenant \in Tenants
  BY WireFacts
<1>3. OldOK'
  BY OldKept DEF netVars
<1>4. wire' = wire /\ store' = store /\ inbox' = inbox
  BY DEF netVars
<1>5. \A i \in DOMAIN wire : wire[i].jwt \in committed'[wire[i].tenant] \union {None}
  BY <1>1, <1>2, WireFacts DEF Recorded
<1>6. \A t \in Tenants : store[t] \in committed'[t] \union {None}
  BY <1>1 DEF Recorded, IInv, NetOK
<1>7. QED
  BY <1>3, <1>4, <1>5, <1>6 DEF IInv, OldOK, NetOK, NetTypeOK, Recorded

LEMMA SendKeeps ==
    ASSUME IInv, UNCHANGED committed,
           NEW p \in Procs, NEW kind \in {"UPDATE", "DELETE"}, NEW t \in Tenants,
           NEW jwt \in committed[t] \union {None},
           Send(p, kind, t, jwt)
    PROVE  NetOK'
<1> DEFINE m == [kind |-> kind, tenant |-> t, jwt |-> jwt, from |-> p]
<1>1. m \in Request
  BY DEF Request, IInv, DbOK
<1>2. wire \in Seq(Request) /\ inbox \in [Procs -> Replies]
  BY DEF IInv, NetOK, NetTypeOK
<1>3. inbox' \in [Procs -> Replies] /\ store' = store
  BY <1>2 DEF Send, Replies
<1>o. OldOK'
  BY OldKept DEF Send
<1>4. CASE wire' = Append(wire, m)
  <2>1. wire' \in Seq(Request)
    BY <1>1, <1>2, <1>4
  <2>2. \A i \in DOMAIN wire' : wire'[i] = m \/ (i \in DOMAIN wire /\ wire'[i] = wire[i])
    BY <1>1, <1>2, <1>4
  <2>3. QED
    BY <1>3, <1>o, <2>1, <2>2 DEF IInv, NetOK, NetTypeOK, Recorded, OldOK
<1>5. CASE wire' = wire
  BY <1>3, <1>o, <1>5 DEF IInv, NetOK, NetTypeOK, Recorded, OldOK
<1>6. QED
  BY <1>4, <1>5 DEF Send

LEMMA DisownedWire ==
    ASSUME NEW w \in Seq(Request), NEW gone
    PROVE  /\ Disowned(w, gone) \in Seq(Request)
           /\ DOMAIN Disowned(w, gone) = DOMAIN w
           /\ \A i \in DOMAIN w : /\ Disowned(w, gone)[i].jwt = w[i].jwt
                                  /\ Disowned(w, gone)[i].tenant = w[i].tenant
                                  /\ Disowned(w, gone)[i].kind = w[i].kind
<1> DEFINE d == Disowned(w, gone)
<1>1. Len(w) \in Nat /\ DOMAIN w = 1 .. Len(w) /\ \A i \in DOMAIN w : w[i] \in Request
  BY LenProperties, ElementOfSeq
<1>2. ASSUME NEW i \in DOMAIN w
      PROVE  /\ d[i] \in Request
             /\ d[i].jwt = w[i].jwt /\ d[i].tenant = w[i].tenant /\ d[i].kind = w[i].kind
  BY <1>1, <1>2 DEF Disowned, Request
<1>3. DOMAIN d = 1 .. Len(w) /\ d = [i \in 1 .. Len(w) |-> d[i]]
  BY <1>1 DEF Disowned
<1>4. d \in [1 .. Len(w) -> Request]
  BY <1>1, <1>2, <1>3
<1>5. d \in Seq(Request)
  BY <1>1, <1>4, SeqDef
<1>6. QED
  BY <1>1, <1>2, <1>3, <1>5

\* Publishing a JWT that is recorded, or deleting an entry.
LEMMA PushKeeps ==
    ASSUME IInv, UNCHANGED committed, NEW p \in Procs, NEW t \in Tenants,
           NEW jwt \in committed[t] \union {None}, Push(p, t, jwt)
    PROVE  NetOK'
BY SendKeeps DEF Push

LEMMA DeleteKeeps ==
    ASSUME IInv, UNCHANGED committed, NEW p \in Procs, NEW t \in Tenants, Delete(p, t)
    PROVE  NetOK'
BY SendKeeps DEF Delete

LEMMA AcceptedKeeps ==
    ASSUME IInv, UNCHANGED committed, NEW p \in Procs, Accepted(p)
    PROVE  NetOK'
<1>1. OldOK'
  BY OldKept DEF Accepted
<1>2. QED
  BY <1>1 DEF IInv, NetOK, NetTypeOK, Accepted, Replies, Recorded, OldOK

\* A shorter or disowned wire says nothing new.
LEMMA RefusedKeeps ==
    ASSUME IInv, UNCHANGED committed, NEW p \in Procs, Refused(p)
    PROVE  NetOK'
<1>1. store' = store /\ inbox' \in [Procs -> Replies]
  BY DEF IInv, NetOK, NetTypeOK, Refused, Replies
<1>o. OldOK'
  BY OldKept DEF Refused
<1>2. CASE wire' = wire
  BY <1>1, <1>o, <1>2 DEF IInv, NetOK, NetTypeOK, Recorded, OldOK
<1>3. CASE wire' = Disowned(wire, {p})
  BY <1>1, <1>o, <1>3, WireFacts, DisownedWire DEF IInv, NetOK, NetTypeOK, Recorded, OldOK
<1>4. QED
  BY <1>2, <1>3 DEF Refused

LEMMA ServeKeeps ==
    ASSUME IInv, UNCHANGED committed, ServeRequest
    PROVE  NetOK'
<1> DEFINE m == Head(wire)
<1>1. wire \in Seq(Request) /\ wire # <<>>
  BY WireFacts DEF ServeRequest
<1>2. 1 \in DOMAIN wire /\ m = wire[1]
  BY <1>1, WireFacts, EmptySeq
<1>3. m \in Request /\ m.jwt \in Recorded(m.tenant) /\ m.tenant \in Tenants
  BY <1>2, WireFacts
<1>4. inbox' \in [Procs -> Replies]
  <2>1. m.from \in Procs \union {None} /\ inbox \in [Procs -> Replies]
    BY <1>3 DEF Request, IInv, NetOK, NetTypeOK
  <2>2. \/ inbox' = inbox
        \/ m.from # None /\ \E r \in {"ok", "error"} : inbox' = [inbox EXCEPT ![m.from] = r]
    BY DEF ServeRequest
  <2>3. QED
    BY <2>1, <2>2 DEF Replies
<1>5. wire' = Tail(wire)
  BY DEF ServeRequest
<1>6. /\ wire' \in Seq(Request)
      /\ \A i \in DOMAIN wire' : /\ wire'[i].jwt \in Recorded(wire'[i].tenant)
                                /\ wire'[i].tenant \in Tenants
  <2>1. /\ wire' \in Seq(Request)
        /\ \A i \in DOMAIN wire' : i + 1 \in DOMAIN wire /\ wire'[i] = wire[i + 1]
    BY <1>1, <1>5
  <2>2. QED
    BY <2>1, WireFacts
<1>7. store \in [Tenants -> Claims \union {None}] /\ \A t \in Tenants : store[t] \in Recorded(t)
  BY DEF IInv, NetOK, NetTypeOK
<1>8. store' = store \/ store' = [store EXCEPT ![m.tenant] = Effect(m)]
  BY DEF ServeRequest
<1>9. Effect(m) \in Recorded(m.tenant) /\ Effect(m) \in Claims \union {None}
  BY <1>3 DEF Effect, Request, Recorded
<1>10. store' \in [Tenants -> Claims \union {None}] /\ \A t \in Tenants : store'[t] \in Recorded(t)
  BY <1>3, <1>7, <1>8, <1>9
<1>11. \A t \in Tenants : Recorded(t)' = Recorded(t)
  BY DEF Recorded
<1>12. OldOK'
  <2>1. late' \subseteq Tenants /\ old' = old
    BY OldFacts DEF ServeRequest
  <2>2. QED
    BY <1>11, <2>1, OldFacts DEF OldOK
<1>13. QED
  BY <1>4, <1>6, <1>10, <1>11, <1>12 DEF NetOK, NetTypeOK, OldOK

LEMMA ServeOldKeeps ==
    ASSUME IInv, UNCHANGED committed, ServeOld
    PROVE  NetOK'
<1>1. PICK m \in old :
          /\ old' \in {old, old \ {m}}
          /\ \/ /\ store' = [store EXCEPT ![m.tenant] = Effect(m)]
                /\ late' = late \union {m.tenant}
             \/ UNCHANGED <<store, late>>
          /\ UNCHANGED <<wire, inbox>>
  BY DEF ServeOld
<1>2. /\ store \in [Tenants -> Claims \union {None}] /\ \A t \in Tenants : store[t] \in Recorded(t)
      /\ old \subseteq Request /\ late \subseteq Tenants
      /\ \A r \in old : r.jwt \in Recorded(r.tenant)
  BY DEF IInv, NetOK, NetTypeOK
<1>3. m \in Request /\ m.tenant \in Tenants /\ m.jwt \in Recorded(m.tenant)
  BY <1>2 DEF Request
<1>4. Effect(m) \in Recorded(m.tenant) /\ Effect(m) \in Claims \union {None}
  BY <1>3 DEF Effect, Request, Recorded
<1>5. store' \in [Tenants -> Claims \union {None}] /\ \A t \in Tenants : store'[t] \in Recorded(t)
  BY <1>1, <1>2, <1>3, <1>4
<1>6. late' \subseteq Tenants /\ old' \subseteq old
  BY <1>1, <1>2, <1>3
<1>7. \A t \in Tenants : Recorded(t)' = Recorded(t)
  BY DEF Recorded
<1>8. OldOK'
  BY <1>2, <1>6, <1>7, OldFacts DEF OldOK
<1>9. wire' = wire /\ inbox' = inbox
  BY <1>1
<1>10. QED
  BY <1>5, <1>7, <1>8, <1>9 DEF IInv, NetOK, NetTypeOK, OldOK, Recorded

\* What a dead process left is on its own; the new connection is empty.
LEMMA DialKeeps ==
    ASSUME IInv, UNCHANGED committed, Dial
    PROVE  NetOK'
<1>1. /\ old' = old \union {wire[i] : i \in DOMAIN wire}
      /\ wire' = <<>>
      /\ UNCHANGED <<store, inbox, late>>
  BY DEF Dial
<1>2. wire' \in Seq(Request) /\ DOMAIN wire' = {}
  BY <1>1
<1>3. \A m \in old' : m \in Request /\ m.jwt \in Recorded(m.tenant)
  BY <1>1, WireFacts DEF IInv, NetOK, NetTypeOK
<1>4. \A t \in Tenants : Recorded(t)' = Recorded(t)
  BY DEF Recorded
<1>5. QED
  BY <1>1, <1>2, <1>3, <1>4 DEF IInv, NetOK, NetTypeOK, Request

LEMMA LoseKeeps ==
    ASSUME IInv, UNCHANGED committed, LoseStore
    PROVE  NetOK'
<1>1. OldOK'
  BY OldFacts, RecordedGrows DEF LoseStore, OldOK
<1>2. QED
  BY <1>1 DEF IInv, NetOK, NetTypeOK, LoseStore, Recorded, OldOK

LEMMA CutKeeps ==
    ASSUME IInv, UNCHANGED committed, CutWire
    PROVE  NetOK'
<1>1. store' = store /\ inbox' \in [Procs -> Replies]
  BY DEF CutWire, Replies
<1>o. OldOK'
  BY OldKept DEF CutWire
<1>2. PICK n \in 0 .. Len(wire) : wire' = Disowned(SubSeq(wire, 1, n), Procs)
  BY DEF CutWire
<1> DEFINE w == SubSeq(wire, 1, n)
<1>3. /\ w \in Seq(Request)
      /\ \A i \in DOMAIN w : i \in DOMAIN wire /\ w[i] = wire[i]
  BY WireFacts
<1>4. wire' = Disowned(w, Procs)
  BY <1>2
<1> HIDE DEF w
<1>5. /\ wire' \in Seq(Request)
      /\ DOMAIN wire' = DOMAIN w
      /\ \A i \in DOMAIN w : wire'[i].jwt = w[i].jwt /\ wire'[i].tenant = w[i].tenant
  BY <1>3, <1>4, DisownedWire
<1>6. QED
  BY <1>1, <1>3, <1>5, <1>o, WireFacts DEF IInv, NetOK, NetTypeOK, Recorded, OldOK

-----------------------------------------------------------------------------
\* Steps of one process.

LEMMA HostKept == ASSUME IInv, UNCHANGED hostVars PROVE HostOK'
BY DEF IInv, HostOK, hostVars

\* A process goes on after a write that kept the tables in order.
LEMMA DbStep ==
    ASSUME IInv, DbOK', Grows, UNCHANGED <<netVars, hostVars>>,
           NEW p \in Procs, NEW f \in Frame, Enter(p, f),
           Sound(f, tenants', committed', creds')
    PROVE  IInv'
<1>1. FramesOK'
  BY FrameStep DEF Enter
<1>2. QED
  BY <1>1, NetKept, HostKept DEF IInv

\* A process goes on after a resolver call.
LEMMA CallStep ==
    ASSUME IInv, NetOK', UNCHANGED <<dbVars, credVars, hostVars>>,
           NEW p \in Procs, NEW f \in Frame, Enter(p, f),
           Sound(f, tenants, committed, creds)
    PROVE  IInv'
<1>1. DbOK' /\ Grows
  BY DbKept
<1>2. Sound(f, tenants', committed', creds')
  BY <1>1, GrowthKeepsSound
<1>3. FramesOK'
  BY <1>1, <1>2, FrameStep DEF Enter
<1>4. QED
  BY <1>1, <1>3, HostKept DEF IInv

\* A process goes on after a read.
LEMMA LocalStep ==
    ASSUME IInv, UNCHANGED <<dbVars, credVars, netVars, hostVars>>,
           NEW p \in Procs, NEW f \in Frame, Enter(p, f),
           Sound(f, tenants, committed, creds)
    PROVE  IInv'
<1>1. DbOK' /\ Grows
  BY DbKept
<1>2. NetOK'
  BY <1>1, NetKept
<1>3. QED
  BY <1>2, CallStep

\* Goto is Enter with another pc.
LEMMA GotoEnters ==
    ASSUME IInv, NEW p \in Procs, NEW pc \in PcNames, Goto(p, pc)
    PROVE  \E f \in Frame :
               /\ f = [frame[p] EXCEPT !.pc = pc]
               /\ Enter(p, f)
<1>1. frame \in [Procs -> Frame] /\ frame[p] \in Frame
  BY DEF IInv, FramesOK
<1>2. [frame[p] EXCEPT !.pc = pc] \in Frame
  BY <1>1 DEF Frame
<1>3. frame' = [frame EXCEPT ![p] = [frame[p] EXCEPT !.pc = pc]]
  BY <1>1 DEF Goto
<1>4. QED
  BY <1>2, <1>3 DEF Enter

LEMMA HandlersAreProcs == \A h \in Handlers : h \in Procs
BY DEF Procs

\* A pushed frame waits for its answer: nothing is asked of it but its tenant.
LEMMA AnswerIsSound ==
    ASSUME IInv, NEW p \in Procs, frame[p].op # "none", frame[p].tenant \in Tenants,
           NEW f \in Frame, f = [frame[p] EXCEPT !.pc = "answer"]
    PROVE  Sound(f, tenants, committed, creds)
BY FrameFacts DEF Sound, Frame

\* A call that may be skipped: its process waits for the answer, or goes on.
LEMMA PushOrSkipStep ==
    ASSUME IInv, UNCHANGED <<dbVars, credVars, hostVars>>,
           NEW p \in Procs, frame[p].op \notin {"none", "Reconcile"}, frame[p].pc = "push",
           NEW f \in Frame, Sound(f, tenants, committed, creds),
           PushOrSkip(p, Enter(p, f))
    PROVE  IInv'
<1>1. /\ frame[p] \in Frame
      /\ frame[p].tenant \in Tenants
      /\ frame[p].jwt \in committed[frame[p].tenant]
  BY FrameFacts DEF Sound
<1>2. CASE Push(p, frame[p].tenant, frame[p].jwt) /\ Goto(p, "answer")
  <2>1. NetOK'
    BY <1>1, <1>2, PushKeeps DEF dbVars
  <2>2. PICK g \in Frame : g = [frame[p] EXCEPT !.pc = "answer"] /\ Enter(p, g)
    BY <1>2, GotoEnters DEF PcNames
  <2>3. Sound(g, tenants, committed, creds)
    BY <1>1, <2>2, AnswerIsSound
  <2>4. QED
    BY <2>1, <2>2, <2>3, CallStep
<1>3. CASE Enter(p, f) /\ UNCHANGED netVars
  BY <1>3, LocalStep
<1>4. QED
  BY <1>2, <1>3 DEF PushOrSkip

LEMMA DeleteOrSkipStep ==
    ASSUME IInv, UNCHANGED <<dbVars, credVars, hostVars>>,
           NEW p \in Procs, frame[p].op \notin {"none", "Reconcile"},
           NEW f \in Frame, Sound(f, tenants, committed, creds),
           DeleteOrSkip(p, Enter(p, f))
    PROVE  IInv'
<1>1. frame[p] \in Frame /\ frame[p].tenant \in Tenants
  BY FrameFacts DEF Sound
<1>2. CASE Delete(p, frame[p].tenant) /\ Goto(p, "answer")
  <2>1. NetOK'
    BY <1>1, <1>2, DeleteKeeps DEF dbVars
  <2>2. PICK g \in Frame : g = [frame[p] EXCEPT !.pc = "answer"] /\ Enter(p, g)
    BY <1>2, GotoEnters DEF PcNames
  <2>3. Sound(g, tenants, committed, creds)
    BY <1>1, <2>2, AnswerIsSound
  <2>4. QED
    BY <2>1, <2>2, <2>3, CallStep
<1>3. CASE Enter(p, f) /\ UNCHANGED netVars
  BY <1>3, LocalStep
<1>4. QED
  BY <1>2, <1>3 DEF DeleteOrSkip

\* A request that ends.
LEMMA ReturnStep ==
    ASSUME IInv, UNCHANGED <<dbVars, credVars, hostVars>>, NetOK', NEW p \in Procs, Return(p)
    PROVE  IInv'
BY IdleIsFrame, IdleIsSound, CallStep DEF Return

\* A request that goes on to a place where nothing more is asked of its frame.
LEMMA GotoStep ==
    ASSUME IInv, UNCHANGED <<dbVars, credVars, hostVars>>, NetOK',
           NEW p \in Procs, frame[p].op \notin {"none", "Reconcile"},
           NEW pc \in PcNames \ {"push", "write"},
           frame[p].op = "Revoke" => pc # "mark",
           Goto(p, pc)
    PROVE  IInv'
<1>1. PICK f \in Frame : f = [frame[p] EXCEPT !.pc = pc] /\ Enter(p, f)
  BY GotoEnters
<1>2. Sound(f, tenants, committed, creds)
  BY <1>1, FrameFacts DEF Sound, Frame
<1>3. QED
  BY <1>1, <1>2, CallStep

\* SetStatus or SoftDelete as the last call of a request.
LEMMA LastStatusWriteStep ==
    ASSUME IInv, UNCHANGED credVars, NEW p \in Procs,
           frame[p].op \notin {"none", "Reconcile"},
           NEW status \in {"active", "suspended", "deleted"}, LastStatusWrite(p, status)
    PROVE  IInv'
<1>1. frame[p].tenant \in Tenants /\ tenants[frame[p].tenant] # None
  BY FrameFacts DEF Sound
<1>2. WriteStatus(frame[p].tenant, status) \/ UNCHANGED dbVars
  BY DEF LastStatusWrite
<1>3. DbOK' /\ Grows
  BY <1>1, <1>2, WriteStatusKeeps, DbKept
<1>4. QED
  BY <1>3, IdleIsFrame, IdleIsSound, DbStep DEF LastStatusWrite, Return

\* The answers of the resolver, and the calls that are skipped by returning.
LEMMA AnsweredKeeps ==
    ASSUME IInv, UNCHANGED dbVars, NEW p \in Procs, Accepted(p) \/ Refused(p)
    PROVE  NetOK'
BY AcceptedKeeps, RefusedKeeps DEF dbVars

LEMMA QuietNet ==
    ASSUME IInv, UNCHANGED <<dbVars, credVars, netVars>>
    PROVE  NetOK'
BY DbKept, NetKept

LEMMA PushOrReturnStep ==
    ASSUME IInv, UNCHANGED <<dbVars, credVars, hostVars>>,
           NEW p \in Procs, frame[p].op \notin {"none", "Reconcile"}, frame[p].pc = "push",
           PushOrSkip(p, Return(p))
    PROVE  IInv'
BY IdleIsFrame, IdleIsSound, PushOrSkipStep DEF Return

\* The frame with which a process would mark the status next.
LEMMA MarkFrame ==
    ASSUME IInv, NEW p \in Procs, frame[p].op \in {"Suspend", "Activate", "Delete"}
    PROVE  \E f \in Frame : /\ f = [frame[p] EXCEPT !.pc = "mark"]
                            /\ Sound(f, tenants, committed, creds)
<1>1. [frame[p] EXCEPT !.pc = "mark"] \in Frame
  BY FrameFacts DEF Frame, PcNames
<1>2. Sound([frame[p] EXCEPT !.pc = "mark"], tenants, committed, creds)
  BY FrameFacts DEF Sound, Frame
<1>3. QED
  BY <1>1, <1>2

LEMMA GotoIsEnter ==
    ASSUME IInv, NEW p \in Procs, NEW pc
    PROVE  Goto(p, pc) <=> Enter(p, [frame[p] EXCEPT !.pc = pc])
BY DEF IInv, FramesOK, Goto, Enter

LEMMA PushOrMarkStep ==
    ASSUME IInv, UNCHANGED <<dbVars, credVars, hostVars>>,
           NEW p \in Procs, frame[p].op = "Activate", frame[p].pc = "push",
           PushOrSkip(p, Goto(p, "mark"))
    PROVE  IInv'
<1>1. PICK f \in Frame : /\ f = [frame[p] EXCEPT !.pc = "mark"]
                         /\ Sound(f, tenants, committed, creds)
  BY MarkFrame
<1>2. PushOrSkip(p, Enter(p, f))
  BY <1>1, GotoIsEnter DEF PushOrSkip
<1>3. QED
  BY <1>1, <1>2, PushOrSkipStep

LEMMA DeleteOrMarkStep ==
    ASSUME IInv, UNCHANGED <<dbVars, credVars, hostVars>>,
           NEW p \in Procs, frame[p].op \in {"Suspend", "Delete"},
           DeleteOrSkip(p, Goto(p, "mark"))
    PROVE  IInv'
<1>1. PICK f \in Frame : /\ f = [frame[p] EXCEPT !.pc = "mark"]
                         /\ Sound(f, tenants, committed, creds)
  BY MarkFrame
<1>2. DeleteOrSkip(p, Enter(p, f))
  BY <1>1, GotoIsEnter DEF DeleteOrSkip
<1>3. QED
  BY <1>1, <1>2, DeleteOrSkipStep

-----------------------------------------------------------------------------
\* The operations.

\* A write that did not fail was carried out.
LEMMA OutcomeFacts == \A r \in DbOutcomes : ~r.err => r.applied
<1>1. ASSUME NEW r \in DbOutcomes
      PROVE  ~r.err => r.applied
  <2>1. r = [applied |-> TRUE, err |-> FALSE] \/ r \in [applied : BOOLEAN, err : {TRUE}]
    BY DEF DbOutcomes
  <2>2. CASE r = [applied |-> TRUE, err |-> FALSE]
    <3>1. r.applied = TRUE
      BY <2>2
    <3>2. QED
      BY <3>1
  <2>3. CASE r \in [applied : BOOLEAN, err : {TRUE}]
    <3>1. r.err \in {TRUE}
      BY <2>3
    <3>2. QED
      BY <3>1
  <2>4. QED
    BY <2>1, <2>2, <2>3
<1>2. QED
  BY <1>1

LEMMA CreateKeeps ==
    ASSUME IInv, NEW h \in Procs, CreateStep(h), UNCHANGED credVars
    PROVE  IInv'
<1>1. CASE CreateInsert(h)
  <2>1. PICK t \in Tenants, n \in Limits, r \in DbOutcomes :
            LET jwt == NewAccountClaims(n)
            IN /\ tenants[t] = None
               /\ IF r.applied
                      THEN WriteJWT(t, [status |-> "active", jwt |-> jwt, limit |-> n])
                      ELSE UNCHANGED dbVars
               /\ IF r.err
                      THEN UNCHANGED frame
                      ELSE Enter(h, [Opened("Create", "saveSeed", t) EXCEPT !.jwt = jwt])
    BY <1>1 DEF CreateInsert
  <2> DEFINE jwt == NewAccountClaims(n)
  <2> DEFINE row == [status |-> "active", jwt |-> jwt, limit |-> n]
  <2> DEFINE f == [Opened("Create", "saveSeed", t) EXCEPT !.jwt = jwt]
  <2>2. jwt \in Claims /\ row \in Row
    BY ClaimsClosed DEF Row
  <2>3. f \in Frame /\ f.op = "Create" /\ f.pc = "saveSeed" /\ f.tenant = t
        /\ f.jwt = jwt /\ f.todo = Nothing
    BY <2>2 DEF Opened, IdleFrame, Frame, OpNames, PcNames, Nothing
  <2>4. /\ UNCHANGED <<netVars, hostVars>>
        /\ ~r.err => r.applied
    BY <1>1, OutcomeFacts DEF CreateInsert
  <2>5. CASE r.applied
    <3>1. DbOK' /\ Grows /\ jwt \in committed'[t] /\ tenants'[t] # None
      BY <2>1, <2>2, <2>5, WriteJWTKeepsDb
    <3>2. CASE UNCHANGED frame
      BY <2>4, <3>1, <3>2, NetKept, HostKept, FramesKept DEF IInv
    <3>3. CASE Enter(h, f)
      <4>1. Sound(f, tenants', committed', creds')
        BY <2>3, <3>1 DEF Sound, Nothing
      <4>2. QED
        BY <2>3, <2>4, <3>1, <3>3, <4>1, DbStep
    <3>4. QED
      BY <2>1, <3>2, <3>3
  <2>6. CASE ~r.applied
    <3>1. UNCHANGED dbVars /\ UNCHANGED frame
      BY <2>1, <2>4, <2>6
    <3>2. DbOK' /\ Grows
      BY <3>1, DbKept
    <3>3. QED
      BY <2>4, <3>1, <3>2, NetKept, HostKept, FramesKept DEF IInv
  <2>7. QED
    BY <2>5, <2>6
<1>2. CASE CreateSaveSeed(h)
  <2>1. /\ frame[h].op = "Create"
        /\ UNCHANGED <<tenants, committed, creds, acked, netVars, hostVars>>
        /\ seeds' = seeds \/ seeds' = seeds \union {frame[h].tenant}
        /\ \E pc \in {"undo", "push"} : Goto(h, pc)
    BY <1>2 DEF CreateSaveSeed, At, credVars
  <2>2. /\ frame[h] \in Frame
        /\ frame[h].tenant \in Tenants /\ tenants[frame[h].tenant] # None
    BY <2>1, FrameFacts DEF Sound
  <2>3. DbOK' /\ Grows
    <3>1. Grows
      BY <2>1 DEF Grows
    <3>2. QED
      BY <2>1, <2>2, <3>1, OwnersKept DEF IInv, DbOK, CredentialTypeOK
  <2>4. PICK pc \in {"undo", "push"} : Goto(h, pc)
    BY <2>1
  <2>5. PICK f \in Frame : f = [frame[h] EXCEPT !.pc = pc] /\ Enter(h, f)
    BY <2>4, GotoEnters DEF PcNames
  <2>6. Sound(f, tenants, committed, creds)
    BY <2>1, <2>2, <2>4, <2>5, FrameFacts DEF Sound, Frame
  <2>7. Sound(f, tenants', committed', creds')
    BY <2>3, <2>6, GrowthKeepsSound
  <2>8. QED
    BY <2>1, <2>3, <2>5, <2>7, DbStep
<1>3. CASE CreatePush(h)
  BY <1>3, PushOrReturnStep DEF CreatePush, At
<1>4. CASE CreateAnswer(h)
  <2>1. NetOK'
    BY <1>4, AnsweredKeeps DEF CreateAnswer
  <2>2. QED
    BY <1>4, <2>1, ReturnStep, GotoStep DEF CreateAnswer, At, PcNames
<1>5. CASE CreateUndo(h)
  BY <1>5, LastStatusWriteStep DEF CreateUndo, At
<1>6. QED
  BY <1>1, <1>2, <1>3, <1>4, <1>5 DEF CreateStep

LEMMA UpdateKeeps ==
    ASSUME IInv, NEW h \in Procs, UpdateStep(h), UNCHANGED credVars
    PROVE  IInv'
<1>1. CASE UpdateGet(h)
  <2>1. PICK t \in Tenants, n \in Limits :
            /\ Visible(t)
            /\ Enter(h, [Opened("Update", "write", t) EXCEPT
                            !.jwt = WithLimits(tenants[t].jwt, n), !.limit = n])
    BY <1>1 DEF UpdateGet
  <2> DEFINE jwt == WithLimits(tenants[t].jwt, n)
  <2> DEFINE f == [Opened("Update", "write", t) EXCEPT !.jwt = jwt, !.limit = n]
  <2>2. tenants[t] # None /\ tenants[t].jwt \in Claims
    BY <2>1 DEF Visible, IInv, DbOK
  <2>3. jwt \in Claims
    BY <2>2, ClaimsClosed
  <2>4. f \in Frame /\ Sound(f, tenants, committed, creds)
    BY <2>2, <2>3 DEF Opened, IdleFrame, Frame, OpNames, PcNames, Nothing, Sound
  <2>5. QED
    BY <1>1, <2>1, <2>4, LocalStep DEF UpdateGet
<1>2. CASE UpdateWrite(h)
  <2> DEFINE g == frame[h]
  <2> DEFINE row == [tenants[g.tenant] EXCEPT !.jwt = g.jwt, !.limit = g.limit]
  <2>1. /\ g.op = "Update" /\ g.pc = "write" /\ g \in Frame
        /\ g.tenant \in Tenants /\ tenants[g.tenant] # None
        /\ g.jwt \in Claims /\ g.limit \in Limits
    BY <1>2, FrameFacts DEF UpdateWrite, At, Sound
  <2>2. row \in Row /\ row.jwt = g.jwt
    BY <2>1 DEF IInv, DbOK, Row
  <2>3. PICK r \in DbOutcomes :
            /\ IF r.applied THEN WriteJWT(g.tenant, row) ELSE UNCHANGED dbVars
            /\ IF r.err THEN Return(h) ELSE Goto(h, "push")
    BY <1>2 DEF UpdateWrite
  <2>4. UNCHANGED <<netVars, hostVars>> /\ (~r.err => r.applied)
    BY <1>2, OutcomeFacts DEF UpdateWrite
  <2>5. /\ DbOK' /\ Grows
        /\ r.applied => g.jwt \in committed'[g.tenant] /\ tenants'[g.tenant] # None
    BY <2>1, <2>2, <2>3, WriteJWTKeepsDb, DbKept
  <2>6. CASE r.err
    BY <2>3, <2>4, <2>5, <2>6, IdleIsFrame, IdleIsSound, DbStep DEF Return
  <2>7. CASE ~r.err
    <3>1. PICK f \in Frame : f = [g EXCEPT !.pc = "push"] /\ Enter(h, f)
      BY <2>3, <2>7, GotoEnters DEF PcNames
    <3>2. Sound(g, tenants', committed', creds')
      BY <2>1, <2>5, FrameFacts, GrowthKeepsSound
    <3>3. Sound(f, tenants', committed', creds')
      BY <2>1, <2>4, <2>5, <2>7, <3>1, <3>2 DEF Sound, Frame
    <3>4. QED
      BY <2>4, <2>5, <3>1, <3>3, DbStep
  <2>8. QED
    BY <2>6, <2>7
<1>3. CASE UpdatePush(h)
  BY <1>3, PushOrReturnStep DEF UpdatePush, At
<1>4. CASE UpdateAnswer(h)
  BY <1>4, AnsweredKeeps, ReturnStep DEF UpdateAnswer
<1>5. QED
  BY <1>1, <1>2, <1>3, <1>4 DEF UpdateStep

\* Opening a frame that carries nothing but its tenant.
LEMMA OpenStep ==
    ASSUME IInv, NEW p \in Procs, NEW t \in Tenants, tenants[t] # None,
           NEW op \in {"Suspend", "Delete", "JetStream"}, NEW pc \in PcNames \ {"push"},
           Enter(p, Opened(op, pc, t)), UNCHANGED <<dbVars, credVars, netVars, hostVars>>
    PROVE  IInv'
<1>1. Opened(op, pc, t) \in Frame /\ Sound(Opened(op, pc, t), tenants, committed, creds)
  BY DEF Opened, IdleFrame, Frame, OpNames, Nothing, Sound
<1>2. QED
  BY <1>1, LocalStep

LEMMA SuspendKeeps ==
    ASSUME IInv, NEW h \in Procs, SuspendStep(h), UNCHANGED credVars
    PROVE  IInv'
<1>1. CASE SuspendGet(h)
  BY <1>1, OpenStep DEF SuspendGet, Visible, PcNames
<1>2. CASE SuspendDelete(h)
  BY <1>2, DeleteOrMarkStep DEF SuspendDelete, At
<1>3. CASE SuspendAnswer(h)
  <2>1. NetOK'
    BY <1>3, AnsweredKeeps DEF SuspendAnswer
  <2>2. QED
    BY <1>3, <2>1, ReturnStep, GotoStep DEF SuspendAnswer, At, PcNames
<1>4. CASE SuspendMark(h)
  BY <1>4, LastStatusWriteStep DEF SuspendMark, At
<1>5. QED
  BY <1>1, <1>2, <1>3, <1>4 DEF SuspendStep

LEMMA ActivateKeeps ==
    ASSUME IInv, NEW h \in Procs, ActivateStep(h), UNCHANGED credVars
    PROVE  IInv'
<1>1. CASE ActivateGet(h)
  <2>1. PICK t \in Tenants :
            /\ Visible(t)
            /\ Enter(h, [Opened("Activate", "push", t) EXCEPT !.jwt = tenants[t].jwt])
    BY <1>1 DEF ActivateGet
  <2> DEFINE f == [Opened("Activate", "push", t) EXCEPT !.jwt = tenants[t].jwt]
  <2>2. tenants[t] # None /\ tenants[t].jwt \in committed[t] /\ tenants[t].jwt \in Claims
    BY <2>1 DEF Visible, IInv, DbOK
  <2>3. f \in Frame /\ Sound(f, tenants, committed, creds)
    BY <2>2 DEF Opened, IdleFrame, Frame, OpNames, PcNames, Nothing, Sound
  <2>4. QED
    BY <1>1, <2>1, <2>3, LocalStep DEF ActivateGet
<1>2. CASE ActivatePush(h)
  BY <1>2, PushOrMarkStep DEF ActivatePush, At
<1>3. CASE ActivateAnswer(h)
  <2>1. NetOK'
    BY <1>3, AnsweredKeeps DEF ActivateAnswer
  <2>2. QED
    BY <1>3, <2>1, ReturnStep, GotoStep DEF ActivateAnswer, At, PcNames
<1>4. CASE ActivateMark(h)
  BY <1>4, LastStatusWriteStep DEF ActivateMark, At
<1>5. QED
  BY <1>1, <1>2, <1>3, <1>4 DEF ActivateStep

LEMMA DeleteStepKeeps ==
    ASSUME IInv, NEW h \in Procs, DeleteStep(h), UNCHANGED credVars
    PROVE  IInv'
<1>1. CASE DeleteGet(h)
  BY <1>1, OpenStep DEF DeleteGet, Visible, PcNames
<1>2. CASE DeleteRequest(h)
  BY <1>2, DeleteOrMarkStep DEF DeleteRequest, At
<1>3. CASE DeleteAnswer(h)
  <2>1. NetOK'
    BY <1>3, AnsweredKeeps DEF DeleteAnswer
  <2>2. QED
    BY <1>3, <2>1, GotoStep DEF DeleteAnswer, At, PcNames
<1>4. CASE DeleteMark(h)
  BY <1>4, LastStatusWriteStep DEF DeleteMark, At
<1>5. QED
  BY <1>1, <1>2, <1>3, <1>4 DEF DeleteStep

\* The snapshot of a listing holds recorded JWTs.
LEMMA ReconcileFrameSound ==
    ASSUME IInv, NEW f \in {ReconcileFrame(ActiveJWTs(tenants)),
                           [ReconcileFrame(Nothing) EXCEPT !.failed = TRUE]}
    PROVE  f \in Frame /\ Sound(f, tenants, committed, creds)
<1>1. \A t \in Tenants : ActiveJWTs(tenants)[t] \in committed[t] \union {None}
  BY DEF ActiveJWTs, IInv, DbOK
<1>2. ActiveJWTs(tenants) \in [Tenants -> Claims \union {None}]
  BY <1>1 DEF ActiveJWTs, IInv, DbOK
<1>3. CASE f = ReconcileFrame(ActiveJWTs(tenants))
  BY <1>1, <1>2, <1>3 DEF ReconcileFrame, Opened, IdleFrame, Frame, OpNames, PcNames, Nothing, Sound
<1>4. CASE f = [ReconcileFrame(Nothing) EXCEPT !.failed = TRUE]
  BY <1>4 DEF ReconcileFrame, Opened, IdleFrame, Frame, OpNames, PcNames, Nothing, Sound
<1>5. QED
  BY <1>3, <1>4

LEMMA ReconcileLoopKeeps ==
    ASSUME IInv, NEW p \in Procs, ReconcileLoop(p), UNCHANGED credVars
    PROVE  IInv'
<1> DEFINE g == frame[p]
<1>1. g \in Frame /\ Sound(g, tenants, committed, creds)
  BY FrameFacts
<1>2. CASE ReconcilePush(p)
  <2>1. PICK t \in Tenants : /\ Push(p, t, g.todo[t])
                            /\ Enter(p, [g EXCEPT !.pc = "answer", !.tenant = t])
    BY <1>2 DEF ReconcilePush
  <2>2. g.todo[t] \in committed[t] \union {None}
    BY <1>1 DEF Sound
  <2>3. UNCHANGED <<dbVars, hostVars>> /\ g.op = "Reconcile"
    BY <1>2 DEF ReconcilePush, At
  <2>4. NetOK'
    BY <2>1, <2>2, <2>3, PushKeeps DEF dbVars
  <2> DEFINE f == [g EXCEPT !.pc = "answer", !.tenant = t]
  <2>5. f \in Frame /\ Sound(f, tenants, committed, creds)
    BY <1>1, <2>3 DEF Frame, Sound, PcNames
  <2>6. QED
    BY <2>1, <2>3, <2>4, <2>5, CallStep
<1>3. CASE ReconcileAnswer(p)
  <2>1. /\ UNCHANGED <<dbVars, hostVars>>
        /\ g.op = "Reconcile" /\ g.pc = "answer"
        /\ Accepted(p) \/ Refused(p)
    BY <1>3 DEF ReconcileAnswer, At
  <2>2. PICK failed \in BOOLEAN : Enter(p, Pushed(g, failed))
    BY <1>3 DEF ReconcileAnswer
  <2>3. NetOK'
    BY <2>1, AnsweredKeeps
  <2>4. Pushed(g, failed) \in Frame
    <3>1. [g.todo EXCEPT ![g.tenant] = None] \in [Tenants -> Claims \union {None}]
      BY <1>1 DEF Frame
    <3>2. (g.failed \/ failed) \in BOOLEAN
      OBVIOUS
    <3>3. QED
      BY <1>1, <3>1, <3>2 DEF Pushed, Frame, PcNames
  <2>5. Sound(Pushed(g, failed), tenants, committed, creds)
    BY <1>1, <2>1 DEF Pushed, Frame, Sound
  <2>6. QED
    BY <2>1, <2>2, <2>3, <2>4, <2>5, CallStep
<1>4. QED
  BY <1>2, <1>3 DEF ReconcileLoop

LEMMA ReconcileKeeps ==
    ASSUME IInv, NEW h \in Procs, ReconcileStep(h), UNCHANGED credVars
    PROVE  IInv'
<1>1. CASE ReconcileList(h)
  BY <1>1, ReconcileFrameSound, LocalStep DEF ReconcileList
<1>2. CASE ReconcileLoop(h)
  BY <1>2, ReconcileLoopKeeps
<1>3. CASE ReconcileReturn(h)
  BY <1>3, QuietNet, ReturnStep DEF ReconcileReturn
<1>4. QED
  BY <1>1, <1>2, <1>3 DEF ReconcileStep

LEMMA TenantStepKeeps ==
    ASSUME IInv, NEW h \in Procs, TenantStep(h), UNCHANGED credVars
    PROVE  IInv'
BY CreateKeeps, UpdateKeeps, SuspendKeeps, ActivateKeeps, DeleteStepKeeps, ReconcileKeeps
   DEF TenantStep

LEMMA JetStreamKeeps ==
    ASSUME IInv, NEW h \in Procs, JetStreamStep(h), UNCHANGED credVars
    PROVE  IInv'
<1>1. CASE JetStreamGet(h)
  <2>1. PICK t \in seeds : Enter(h, Opened("JetStream", "connect", t))
    BY <1>1 DEF JetStreamGet
  <2>2. t \in Tenants /\ tenants[t] # None
    BY DEF IInv, DbOK
  <2>3. QED
    BY <1>1, <2>1, <2>2, OpenStep DEF JetStreamGet, PcNames
<1>2. CASE JetStreamConnect(h)
  BY <1>2, QuietNet, ReturnStep, GotoStep DEF JetStreamConnect, At, PcNames
<1>3. CASE JetStreamReseed(h)
  <2> DEFINE g == frame[h]
  <2> DEFINE f == [g EXCEPT !.pc = "push", !.jwt = tenants[g.tenant].jwt]
  <2>1. CASE Visible(g.tenant) /\ Enter(h, f)
    <3>1. /\ g \in Frame /\ g.op = "JetStream" /\ g.tenant \in Tenants
          /\ Sound(g, tenants, committed, creds)
      BY <1>3, FrameFacts DEF JetStreamReseed, At, Sound
    <3>2. tenants[g.tenant].jwt \in committed[g.tenant] /\ tenants[g.tenant].jwt \in Claims
      BY <2>1, <3>1 DEF Visible, IInv, DbOK
    <3>3. f \in Frame /\ Sound(f, tenants, committed, creds)
      BY <3>1, <3>2 DEF Frame, Sound, PcNames
    <3>4. QED
      BY <1>3, <2>1, <3>3, LocalStep DEF JetStreamReseed
  <2>2. CASE Return(h)
    BY <1>3, <2>2, QuietNet, ReturnStep DEF JetStreamReseed
  <2>3. QED
    BY <1>3, <2>1, <2>2 DEF JetStreamReseed
<1>4. CASE JetStreamPush(h)
  BY <1>4, PushOrReturnStep DEF JetStreamPush, At
<1>5. CASE JetStreamAnswer(h)
  BY <1>5, AnsweredKeeps, ReturnStep DEF JetStreamAnswer
<1>6. QED
  BY <1>1, <1>2, <1>3, <1>4, <1>5 DEF JetStreamStep

\* A write to the credentials that removes none.
LEMMA CredsWritten ==
    ASSUME IInv, UNCHANGED dbVars, CredentialTypeOK', OwnersOK',
           \A u \in Users : creds[u] # None => creds'[u] # None
    PROVE  DbOK' /\ Grows
BY DEF IInv, DbOK, Grows, dbVars

LEMMA IssueKeeps ==
    ASSUME IInv, NEW h \in Procs, IssueStep(h)
    PROVE  IInv'
<1>1. CASE IssueGet(h)
  <2>1. PICK t \in Tenants, u \in Users :
            /\ Visible(t)
            /\ Enter(h, [Opened("Issue", "loadSeed", t) EXCEPT !.user = u])
    BY <1>1 DEF IssueGet
  <2> DEFINE f == [Opened("Issue", "loadSeed", t) EXCEPT !.user = u]
  <2>2. f \in Frame /\ Sound(f, tenants, committed, creds)
    BY <2>1 DEF Visible, Opened, IdleFrame, Frame, OpNames, PcNames, Nothing, Sound
  <2>3. QED
    BY <1>1, <2>1, <2>2, LocalStep DEF IssueGet
<1>2. CASE IssueLoadSeed(h)
  BY <1>2, QuietNet, ReturnStep, GotoStep DEF IssueLoadSeed, At, PcNames
<1>3. CASE IssueInsert(h)
  <2>1. /\ frame[h].tenant \in Tenants /\ frame[h].user \in Users
        /\ tenants[frame[h].tenant] # None
        /\ UNCHANGED <<dbVars, acked, netVars, hostVars>> /\ Return(h)
    BY <1>3, FrameFacts DEF IssueInsert, At, Sound
  <2> DEFINE c == [tenant |-> frame[h].tenant, revoked |-> FALSE]
  <2>2. c \in Credential /\ c # None
    <3>1. c \in Credential
      BY <2>1 DEF Credential
    <3>2. QED
      BY <3>1, CredentialAssumption
  <2>3. creds' = creds \/ creds' = [creds EXCEPT ![frame[h].user] = c]
    BY <1>3 DEF IssueInsert
  <2>4. CredentialTypeOK' /\ \A u \in Users : creds[u] # None => creds'[u] # None
    BY <2>1, <2>2, <2>3 DEF IInv, DbOK, CredentialTypeOK
  <2>5. OwnersOK'
    <3>1. \A u \in Users : creds'[u] = creds[u] \/ creds'[u] = c
      BY <2>1, <2>3 DEF IInv, DbOK, CredentialTypeOK
    <3>2. QED
      BY <2>1, <3>1 DEF IInv, DbOK, OwnersOK, dbVars
  <2>6. QED
    BY <2>1, <2>4, <2>5, CredsWritten, IdleIsFrame, IdleIsSound, DbStep DEF Return
<1>4. QED
  BY <1>1, <1>2, <1>3 DEF IssueStep

LEMMA RevokeKeeps ==
    ASSUME IInv, NEW h \in Procs, RevokeStep(h)
    PROVE  IInv'
<1> DEFINE g == frame[h]
<1>0. g \in Frame /\ Sound(g, tenants, committed, creds)
  BY FrameFacts
<1>1. CASE RevokeGet(h)
  <2>1. PICK u \in Users :
            /\ creds[u] # None
            /\ \/ acked' = acked \union {u} /\ UNCHANGED frame
               \/ /\ Enter(h, [Opened("Revoke", "getTenant", creds[u].tenant) EXCEPT !.user = u])
                  /\ UNCHANGED acked
    BY <1>1 DEF RevokeGet
  <2>2. UNCHANGED <<dbVars, creds, netVars, hostVars>>
    BY <1>1 DEF RevokeGet
  <2>3. CASE acked' = acked \union {u} /\ UNCHANGED frame
    <3>1. DbOK' /\ Grows
      BY <2>2, <2>3, NoGrowth, OwnersKept, CredsWritten DEF IInv, DbOK, CredentialTypeOK
    <3>2. QED
      BY <2>2, <2>3, <3>1, NetKept, HostKept, FramesKept DEF IInv
  <2>4. CASE /\ Enter(h, [Opened("Revoke", "getTenant", creds[u].tenant) EXCEPT !.user = u])
             /\ UNCHANGED acked
    <3> DEFINE f == [Opened("Revoke", "getTenant", creds[u].tenant) EXCEPT !.user = u]
    <3>1. creds[u].tenant \in Tenants /\ tenants[creds[u].tenant] # None
      BY <2>1 DEF IInv, DbOK, CredentialTypeOK, Credential, OwnersOK
    <3>2. f \in Frame /\ Sound(f, tenants, committed, creds)
      BY <2>1, <3>1 DEF Opened, IdleFrame, Frame, OpNames, PcNames, Nothing, Sound
    <3>3. QED
      BY <2>2, <2>4, <3>2, LocalStep DEF credVars
  <2>5. QED
    BY <2>1, <2>3, <2>4
<1>2. CASE RevokeGetTenant(h)
  BY <1>2, QuietNet, ReturnStep, GotoStep DEF RevokeGetTenant, At, PcNames
<1>3. CASE RevokeSelect(h)
  <2> DEFINE jwt == WithRevocation(tenants[g.tenant].jwt, g.user)
  <2> DEFINE f == [g EXCEPT !.pc = "write", !.jwt = jwt]
  <2>1. CASE Enter(h, f)
    <3>1. /\ g.op = "Revoke" /\ g.tenant \in Tenants /\ tenants[g.tenant] # None
          /\ g.user \in Users
      BY <1>0, <1>3 DEF RevokeSelect, At, Sound
    <3>2. tenants[g.tenant].jwt \in Claims
      BY <3>1 DEF IInv, DbOK
    <3>3. jwt \in Claims
      BY <3>1, <3>2, ClaimsClosed
    <3>4. f \in Frame /\ Sound(f, tenants, committed, creds)
      BY <1>0, <3>1, <3>3 DEF Frame, Sound, PcNames
    <3>5. QED
      BY <1>3, <2>1, <3>4, LocalStep DEF RevokeSelect
  <2>2. CASE Return(h)
    BY <1>3, <2>2, QuietNet, ReturnStep DEF RevokeSelect
  <2>3. QED
    BY <1>3, <2>1, <2>2 DEF RevokeSelect
<1>4. CASE RevokeWrite(h)
  <2> DEFINE row == [tenants[g.tenant] EXCEPT !.jwt = g.jwt]
  <2>1. /\ g.op = "Revoke" /\ g.pc = "write"
        /\ g.tenant \in Tenants /\ tenants[g.tenant] # None /\ g.jwt \in Claims
    BY <1>0, <1>4 DEF RevokeWrite, At, Sound
  <2>2. row \in Row /\ row.jwt = g.jwt
    BY <2>1 DEF IInv, DbOK, Row
  <2>3. PICK r \in DbOutcomes :
            /\ IF r.applied THEN WriteJWT(g.tenant, row) ELSE UNCHANGED dbVars
            /\ IF r.err THEN Return(h) ELSE Goto(h, "mark")
    BY <1>4 DEF RevokeWrite
  <2>4. UNCHANGED <<credVars, netVars, hostVars>> /\ (~r.err => r.applied)
    BY <1>4, OutcomeFacts DEF RevokeWrite
  <2>5. /\ DbOK' /\ Grows
        /\ r.applied => g.jwt \in committed'[g.tenant] /\ tenants'[g.tenant] # None
    BY <2>1, <2>2, <2>3, <2>4, WriteJWTKeepsDb, DbKept
  <2>6. CASE r.err
    BY <2>3, <2>4, <2>5, <2>6, IdleIsFrame, IdleIsSound, DbStep DEF Return
  <2>7. CASE ~r.err
    <3>1. PICK f \in Frame : f = [g EXCEPT !.pc = "mark"] /\ Enter(h, f)
      BY <2>3, <2>7, GotoEnters DEF PcNames
    <3>2. Sound(g, tenants', committed', creds')
      BY <1>0, <2>5, GrowthKeepsSound
    <3>3. Sound(f, tenants', committed', creds')
      BY <1>0, <2>1, <2>4, <2>5, <2>7, <3>1, <3>2 DEF Sound, Frame
    <3>4. QED
      BY <2>4, <2>5, <3>1, <3>3, DbStep
  <2>8. QED
    BY <2>6, <2>7
<1>5. CASE RevokeMark(h)
  <2>1. /\ g.op = "Revoke" /\ g.pc = "mark" /\ g.user \in Users /\ creds[g.user] # None
        /\ g.tenant \in Tenants /\ g.jwt \in Claims \union {None}
        /\ UNCHANGED <<dbVars, acked, netVars, hostVars>>
    BY <1>0, <1>5 DEF RevokeMark, At, Sound, Frame
  <2>2. creds' = creds \/ creds' = [creds EXCEPT ![g.user].revoked = TRUE]
    BY <1>5 DEF RevokeMark
  <2>3. creds[g.user] \in Credential
    BY <2>1 DEF IInv, DbOK, CredentialTypeOK
  <2> DEFINE c == [creds[g.user] EXCEPT !.revoked = TRUE]
  <2>4. c \in Credential
    BY <2>3 DEF Credential
  <2>5. c # None
    BY <2>4, CredentialAssumption
  <2>6. creds' = creds \/ creds' = [creds EXCEPT ![g.user] = c]
    BY <2>2
  <2>7. CredentialTypeOK' /\ \A u \in Users : creds[u] # None => creds'[u] # None
    BY <2>1, <2>4, <2>5, <2>6 DEF IInv, DbOK, CredentialTypeOK
  <2>8. DbOK' /\ Grows
    <3>1. \A u \in Users : creds'[u] = creds[u] \/ (creds[u] # None /\ creds'[u].tenant = creds[u].tenant)
      BY <2>1, <2>3, <2>6 DEF IInv, DbOK, CredentialTypeOK, Credential
    <3>2. OwnersOK'
      BY <2>1, <3>1 DEF IInv, DbOK, OwnersOK, dbVars
    <3>3. QED
      BY <2>1, <2>7, <3>2, CredsWritten
  <2>9. CASE Return(h)
    BY <2>1, <2>8, <2>9, IdleIsFrame, IdleIsSound, DbStep DEF Return
  <2>10. CASE Goto(h, "push")
    <3>1. PICK f \in Frame : f = [g EXCEPT !.pc = "push"] /\ Enter(h, f)
      BY <2>10, GotoEnters DEF PcNames
    <3>2. Sound(f, tenants, committed, creds)
      BY <1>0, <2>1, <3>1 DEF Sound, Frame
    <3>3. Sound(f, tenants', committed', creds')
      BY <2>8, <3>2, GrowthKeepsSound
    <3>4. QED
      BY <2>1, <2>8, <3>1, <3>3, DbStep
  <2>11. QED
    BY <1>5, <2>9, <2>10 DEF RevokeMark
<1>6. CASE RevokePush(h)
  BY <1>6, PushOrReturnStep DEF RevokePush, At
<1>7. CASE RevokeAnswer(h)
  <2>1. /\ UNCHANGED <<dbVars, creds, hostVars>> /\ Return(h)
        /\ acked' = acked \/ acked' = acked \union {g.user}
        /\ g.user \in Users
    BY <1>0, <1>7 DEF RevokeAnswer, At, Sound
  <2>2. NetOK'
    BY <1>7, <2>1, AnsweredKeeps DEF RevokeAnswer
  <2>3. DbOK' /\ Grows
    BY <2>1, NoGrowth, OwnersKept, CredsWritten DEF IInv, DbOK, CredentialTypeOK
  <2>4. FramesOK'
    BY <2>1, <2>3, IdleIsFrame, IdleIsSound, FrameStep DEF Return, Enter
  <2>5. QED
    BY <2>1, <2>2, <2>3, <2>4, HostKept DEF IInv
<1>8. QED
  BY <1>1, <1>2, <1>3, <1>4, <1>5, <1>6, <1>7 DEF RevokeStep

-----------------------------------------------------------------------------
\* The process and its environment.

LEMMA HandleKeeps ==
    ASSUME IInv, NEW h \in Handlers, Handle(h)
    PROVE  IInv'
BY HandlersAreProcs, TenantStepKeeps, JetStreamKeeps, IssueKeeps, RevokeKeeps
   DEF Handle, CredentialStep

LEMMA MainIsProc == Main \in Procs
BY DEF Procs

LEMMA BootKeeps == ASSUME IInv, Boot PROVE IInv'
<1>1. /\ UNCHANGED <<dbVars, credVars>>
      /\ Dial
      /\ HostOK'
  BY DEF Boot, HostOK
<1>2. PICK f \in {ReconcileFrame(ActiveJWTs(tenants)),
                  [ReconcileFrame(Nothing) EXCEPT !.failed = TRUE]} : Enter(Main, f)
  BY DEF Boot
<1>3. f \in Frame /\ Sound(f, tenants, committed, creds)
  BY ReconcileFrameSound
<1>4. DbOK' /\ Grows /\ NetOK'
  BY <1>1, DbKept, DialKeeps DEF dbVars
<1>5. FramesOK'
  BY <1>2, <1>3, <1>4, MainIsProc, GrowthKeepsSound, FrameStep DEF Enter
<1>6. QED
  BY <1>1, <1>4, <1>5 DEF IInv

LEMMA BootDoneKeeps == ASSUME IInv, BootDone PROVE IInv'
<1>1. UNCHANGED <<dbVars, credVars, netVars>> /\ HostOK' /\ Return(Main)
  BY DEF BootDone, HostOK, IInv
<1>2. DbOK' /\ Grows /\ NetOK'
  BY <1>1, DbKept, QuietNet
<1>3. FramesOK'
  BY <1>1, <1>2, MainIsProc, IdleIsFrame, IdleIsSound, FrameStep DEF Return, Enter
<1>4. QED
  BY <1>1, <1>2, <1>3 DEF IInv

LEMMA BootDegradedKeeps == ASSUME IInv, BootDegraded PROVE IInv'
<1>1. UNCHANGED <<dbVars, credVars, netVars, frame>> /\ HostOK'
  BY DEF BootDegraded, HostOK
<1>2. QED
  BY <1>1, DbKept, QuietNet, FramesKept DEF IInv

LEMMA CrashKeeps == ASSUME IInv, Crash PROVE IInv'
<1>1. UNCHANGED <<dbVars, credVars>> /\ HostOK' /\ CutWire
  BY DEF Crash, HostOK
<1>2. DbOK' /\ NetOK'
  BY <1>1, DbKept, CutKeeps DEF dbVars
<1>3. FramesOK'
  BY IdleIsFrame, IdleIsSound DEF Crash, FramesOK
<1>4. QED
  BY <1>1, <1>2, <1>3 DEF IInv

LEMMA WipeKeeps == ASSUME IInv, Wipe PROVE IInv'
<1>1. UNCHANGED <<dbVars, credVars, hostVars, frame>> /\ LoseStore
  BY DEF Wipe
<1>2. QED
  BY <1>1, DbKept, LoseKeeps, HostKept, FramesKept DEF IInv, dbVars

LEMMA ServeStepKeeps == ASSUME IInv, Serve PROVE IInv'
<1>1. UNCHANGED <<dbVars, credVars, hostVars, frame>> /\ ServeRequest
  BY DEF Serve
<1>2. QED
  BY <1>1, DbKept, ServeKeeps, HostKept, FramesKept DEF IInv, dbVars

LEMMA ServeLateKeeps == ASSUME IInv, ServeLate PROVE IInv'
<1>1. UNCHANGED <<dbVars, credVars, hostVars, frame>> /\ ServeOld
  BY DEF ServeLate
<1>2. QED
  BY <1>1, DbKept, ServeOldKeeps, HostKept, FramesKept DEF IInv, dbVars

\* Nothing happens at all.
LEMMA StutterKeeps == ASSUME IInv, UNCHANGED vars PROVE IInv'
<1>1. UNCHANGED <<dbVars, credVars, netVars, hostVars, frame>>
  BY DEF vars, dbVars, credVars, netVars, hostVars
<1>2. QED
  BY <1>1, DbKept, NetKept, HostKept, FramesKept DEF IInv

LEMMA InitEstablishes == Init => IInv
<1> SUFFICES ASSUME Init PROVE IInv
  OBVIOUS
<1>1. DbOK
  BY DEF Init, TenantInit, CredentialInit, DbOK, CredentialTypeOK, Nothing, OwnersOK
<1>2. NetOK
  BY EmptySeq DEF Init, NetInit, NetOK, NetTypeOK, Replies, Recorded
<1>3. FramesOK
  BY IdleIsFrame, IdleIsSound DEF Init, TenantInit, FramesOK
<1>4. HostOK
  BY DEF Init, TenantInit, HostOK
<1>5. QED
  BY <1>1, <1>2, <1>3, <1>4 DEF IInv

LEMMA NextKeeps == IInv /\ [Next]_vars => IInv'
<1> SUFFICES ASSUME IInv, [Next]_vars PROVE IInv'
  OBVIOUS
<1>1. CASE BootReconcile
  BY <1>1, MainIsProc, ReconcileLoopKeeps DEF BootReconcile
<1>2. ASSUME NEW h \in Handlers, Handle(h) PROVE IInv'
  BY <1>2, HandleKeeps
<1>3. QED
  BY <1>1, <1>2, BootKeeps, BootDoneKeeps, BootDegradedKeeps, CrashKeeps, WipeKeeps,
     ServeStepKeeps, ServeLateKeeps, StutterKeeps
  DEF Next

(***************************************************************************)
(* The inductive invariant holds in every reachable state: the tables are  *)
(* well formed, a frame only carries what its operation has read, and      *)
(* every JWT that is stored, sent or about to be pushed is a recorded one. *)
(***************************************************************************)
THEOREM Invariance == Spec => []IInv
<1>1. QED
  BY InitEstablishes, NextKeeps, PTL DEF Spec

(***************************************************************************)
(* Every variable keeps its type: no handler writes a half-made row, sends *)
(* a request for no account, or leaves an answer nobody waits for in a     *)
(* state the code does not know.                                           *)
(***************************************************************************)
THEOREM TypeCorrect == Spec => []TypeOK
<1>1. IInv => TypeOK
  BY DEF IInv, DbOK, NetOK, FramesOK, HostOK, TypeOK, TenantTypeOK
<1>2. QED
  BY <1>1, Invariance, PTL

(***************************************************************************)
(* Create, UpdateLimits and Revoke store a JWT before they push it, and    *)
(* Activate, the reseed and ReconcileAll push what they read: whatever     *)
(* runs at the same time, fails or crashes, the resolver never serves, and *)
(* is never sent, claims the database has not held.                        *)
(***************************************************************************)
THEOREM OnlyRecordedIsPublished == Spec => []PublishedWasCommitted
<1>1. IInv => PublishedWasCommitted
  <2> SUFFICES ASSUME IInv PROVE PublishedWasCommitted
    OBVIOUS
  <2>1. ASSUME NEW p \in Procs
        PROVE  /\ \A t \in Tenants : frame[p].todo[t] \in Recorded(t)
               /\ frame[p].pc = "push" /\ frame[p].op # "Reconcile"
                      => frame[p].jwt \in committed[frame[p].tenant]
    BY FrameFacts DEF Sound, Recorded
  <2>2. QED
    BY <2>1 DEF IInv, NetOK, PublishedWasCommitted
<1>2. QED
  BY <1>1, Invariance, PTL
=============================================================================
