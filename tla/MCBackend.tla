------------------------------ MODULE MCBackend ------------------------------
EXTENDS Backend, TLC

CONSTANTS h1, h2

Symmetry == Permutations(Handlers)

\* No action reads the history of JWTs; a run whose properties do not either
\* may tell states apart without it.
WithoutHistory ==
    <<tenants, seeds, creds, acked, frame, phase, sysConn, store, wire, inbox, old, late>>

\* Nor does any read which entries are the work of a late request.  BootHeals
\* does, when a boot ends, of the tenants it has pushed by then.
WithoutLate ==
    <<tenants, seeds, committed, creds, acked, frame, phase, sysConn, store, wire, inbox, old,
      {t \in late : phase = "booting" /\ frame[Main].todo[t] = None}>>

\* `acked` only matters to what is said of acknowledged revocations.
WithoutAcked ==
    <<tenants, seeds, committed, creds, frame, phase, sysConn, store, wire, inbox, old, late>>
=============================================================================
