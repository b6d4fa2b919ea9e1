------------------------- MODULE TransactionProofs -------------------------
(***************************************************************************)
(* Proofs about the coordinator model of Transaction, for every value of  *)
(* the constants that satisfies ConstantsAssumption.                      *)
(***************************************************************************)
EXTENDS Transaction, TLAPS

USE ConstantsAssumption DEF parts, tasks, coord, env, hist

(* The strengthening of the 2PC invariants that is inductive:            *)
(*  - the store commits in the same step as the coordinator becomes       *)
(*    Committed, at the epoch commit read;                                *)
(*  - the commit steps run only in Preparing, record_abort only after     *)
(*    Aborted was set;                                                    *)
(*  - a participant whose prepare task completed Ok has a range server    *)
(*    that prepared (or has since committed) unless the transaction is    *)
(*    decided aborted or the coordinator panicked;                        *)
(*  - prepare and commit RPCs go only to participants.                    *)
IInv ==
    /\ TypeOK
    /\ decision = "committed" <=> state = "Committed"
    /\ state = "Committed" => commitEpoch = readEpoch
    /\ pc \in {"prepare", "join"} => state = "Preparing"
    /\ pc = "aborting" => state = "Aborted"
    /\ \A p \in FullRangeIds :
          pc # "panicked" /\ prep[p] \in {"ok", "joined"} /\ ~AbortDecided
              => rs[p] \in {"prepared", "committed"}
    /\ \A m \in net : m.type \in {"prepare", "commit"} => m.to \in touched
    /\ HintsAgreeWithDecision
    /\ CommitRequiresAllPrepared
    /\ state = "Aborted" /\ pc = "idle" => decision = "aborted"

(* The three ways Get(n, k) can go, on participant p: served from the    *)
(* buffered writes, a read RPC whose leader check fails (record_abort),   *)
(* a read RPC that is accepted.                                           *)
GetLocal(n, k) ==
    /\ UNCHANGED <<state, pc, readset, lsn, decision, net, seen>>
    /\ \E v \in Values \cup {None} : lastGet' = [ks |-> n, key |-> k, val |-> v]

GetRpc(p, obs) ==
    /\ seen' = [seen EXCEPT ![p] = @ \cup {obs}]
    /\ lsn' = [lsn EXCEPT ![p] = Pinned(obs, @)]

GetAborts(p, obs) ==
    /\ obs # lsn'[p]
    /\ RecordAbort(touched')
    /\ UNCHANGED <<readset, lastGet>>

GetReads(n, k, p, obs) ==
    /\ obs = lsn'[p]
    /\ readset' = [readset EXCEPT ![p] = @ \cup {k}]
    /\ \E val \in Values \cup {None} : lastGet' = [ks |-> n, key |-> k, val |-> val]
    /\ UNCHANGED <<state, pc, decision, net>>

LEMMA GetShape ==
    ASSUME TypeOK, NEW n \in Keyspaces, NEW k \in Keys, Get(n, k)
    PROVE  \E p \in FullRangeIds :
              /\ p = <<KeyspaceIdOf(n), owner[k]>>
              /\ ClientCall /\ CheckStillRunning
              /\ KeyspaceIdOf(n) \in KeyspaceIds /\ CacheKeyspace(n)
              /\ touched' = touched \cup {p}
              /\ UNCHANGED <<writeset, deleteset, tasks, readEpoch, commitEpoch, rs, leader,
                             epoch, universe, owner, moves, intent>>
              /\ \/ GetLocal(n, k)
                 \/ \E obs \in {leader[p], INVALID} : GetRpc(p, obs) /\ GetAborts(p, obs)
                 \/ \E obs \in {leader[p], INVALID} : GetRpc(p, obs) /\ GetReads(n, k, p, obs)
<1> DEFINE q == <<KeyspaceIdOf(n), owner[k]>>
<1>1. q \in FullRangeIds
    BY DEF Get, TypeOK, FullRangeIds
<1>2. /\ ClientCall /\ CheckStillRunning
      /\ KeyspaceIdOf(n) \in KeyspaceIds /\ CacheKeyspace(n)
      /\ touched' = touched \cup {q}
      /\ UNCHANGED <<writeset, deleteset, tasks, readEpoch, commitEpoch, rs, leader,
                     epoch, universe, owner, moves, intent>>
    BY DEF Get
<1>3. writeset[q][k] \in Values \cup {NoVal}
    BY <1>1 DEF TypeOK
<1>4. \/ GetLocal(n, k)
      \/ \E obs \in {leader[q], INVALID} : GetRpc(q, obs) /\ GetAborts(q, obs)
      \/ \E obs \in {leader[q], INVALID} : GetRpc(q, obs) /\ GetReads(n, k, q, obs)
    <2>1. CASE writeset[q][k] # NoVal
        BY <1>3, <2>1 DEF Get, GetLocal
    <2>2. CASE writeset[q][k] = NoVal /\ k \in deleteset[q]
        BY <2>2 DEF Get, GetLocal
    <2>3. CASE writeset[q][k] = NoVal /\ k \notin deleteset[q]
        BY <2>3 DEF Get, GetRpc, GetAborts, GetReads
    <2>4. QED
        BY <2>1, <2>2, <2>3
<1>5. QED
    BY <1>1, <1>2, <1>4

(* Every step of Next keeps every variable in its type.                   *)
LEMMA TypeStep == TypeOK /\ [Next]_vars => TypeOK'
<1> SUFFICES ASSUME TypeOK, [Next]_vars PROVE TypeOK'
    OBVIOUS
<1>1. ASSUME NEW n \in Keyspaces, NEW k \in Keys, ResolveFails(n, k) PROVE TypeOK'
    BY <1>1 DEF ResolveFails, ClientCall, CacheKeyspace, KeyspaceIdOf, TypeOK
<1>2. CASE Rejected
    BY <1>2 DEF Rejected, ClientCall, TypeOK
<1>3. ASSUME NEW n \in Keyspaces, NEW k \in Keys, Get(n, k) PROVE TypeOK'
    <2>1. PICK p \in FullRangeIds :
              /\ p = <<KeyspaceIdOf(n), owner[k]>>
              /\ ClientCall /\ CheckStillRunning
              /\ KeyspaceIdOf(n) \in KeyspaceIds /\ CacheKeyspace(n)
              /\ touched' = touched \cup {p}
              /\ UNCHANGED <<writeset, deleteset, tasks, readEpoch, commitEpoch, rs, leader,
                             epoch, universe, owner, moves, intent>>
              /\ \/ GetLocal(n, k)
                 \/ \E obs \in {leader[p], INVALID} : GetRpc(p, obs) /\ GetAborts(p, obs)
                 \/ \E obs \in {leader[p], INVALID} : GetRpc(p, obs) /\ GetReads(n, k, p, obs)
        BY <1>3, GetShape
    <2>2. /\ touched' \subseteq FullRangeIds
          /\ resolved' \in [Keyspaces -> KeyspaceIds \cup {NoId}]
          /\ ops' \in 0..MaxOps
        <3>1. touched' \subseteq FullRangeIds
            BY <2>1 DEF TypeOK
        <3>2. resolved' \in [Keyspaces -> KeyspaceIds \cup {NoId}]
            BY <2>1 DEF CacheKeyspace, TypeOK
        <3>3. ops' \in 0..MaxOps
            BY <2>1 DEF ClientCall, TypeOK
        <3>4. QED
            BY <3>1, <3>2, <3>3
    <2>3. CASE GetLocal(n, k)
        BY <2>1, <2>2, <2>3 DEF GetLocal, TypeOK
    <2>4. ASSUME NEW obs \in {leader[p], INVALID}, GetRpc(p, obs)
          PROVE  /\ lsn' \in [FullRangeIds -> LeaderSeqs \cup {UNSET}]
                 /\ seen' \in [FullRangeIds -> SUBSET (LeaderSeqs \cup {INVALID})]
        BY <2>4 DEF GetRpc, TypeOK, Pinned, INVALID, UNSET, LeaderSeqs
    <2>5. ASSUME NEW obs \in {leader[p], INVALID}, GetRpc(p, obs), GetAborts(p, obs)
          PROVE  TypeOK'
        BY <2>1, <2>2, <2>4, <2>5 DEF GetAborts, RecordAbort, TypeOK, Msgs
    <2>6. ASSUME NEW obs \in {leader[p], INVALID}, GetRpc(p, obs), GetReads(n, k, p, obs)
          PROVE  TypeOK'
        BY <2>1, <2>2, <2>4, <2>6 DEF GetReads, TypeOK
    <2>7. QED
        BY <2>1, <2>3, <2>5, <2>6
<1>4. ASSUME NEW n \in Keyspaces, NEW k \in Keys, GetRpcFails(n, k) PROVE TypeOK'
    BY <1>4 DEF GetRpcFails, ClientCall, CacheKeyspace, KeyspaceIdOf, TypeOK, FullRangeIds
<1>5. ASSUME NEW n \in Keyspaces, NEW k \in Keys, NEW v \in Values, Put(n, k, v) PROVE TypeOK'
    BY <1>5 DEF Put, ClientCall, CacheKeyspace, KeyspaceIdOf, TypeOK, FullRangeIds, NoRead
<1>6. ASSUME NEW n \in Keyspaces, NEW k \in Keys, Del(n, k) PROVE TypeOK'
    BY <1>6 DEF Del, ClientCall, CacheKeyspace, KeyspaceIdOf, TypeOK, FullRangeIds, NoRead
<1>7. CASE Abort
    BY <1>7 DEF Abort, ClientCall, RecordAbort, TypeOK, Msgs
<1>8. CASE CommitStart
    BY <1>8 DEF CommitStart, ClientCall, TypeOK, Msgs
<1>9. CASE ReadEpoch \/ StoreAbort
    BY <1>9 DEF ReadEpoch, StoreAbort, TypeOK
<1>10. ASSUME NEW p \in FullRangeIds, JoinPrepare(p) PROVE TypeOK'
    <2>1. /\ prep' \in [FullRangeIds -> {"none", "pending", "ok", "failed", "rpcerr", "joined"}]
          /\ UNCHANGED <<lease, parts, touched, resolved, readEpoch, commitEpoch, rs, leader,
                         epoch, universe, owner, moves, hist>>
        BY <1>10 DEF JoinPrepare, TypeOK
    <2>2. \/ UNCHANGED <<state, pc, decision, net>>
          \/ RecordAbort(touched)
          \/ pc' = "panicked" /\ UNCHANGED <<state, decision, net>>
        BY <1>10 DEF JoinPrepare
    <2>3. QED
        BY <2>1, <2>2 DEF RecordAbort, TypeOK, Msgs
<1>11. CASE TryCommit
    BY <1>11 DEF TryCommit, TypeOK, Msgs
<1>12. ASSUME NEW p \in FullRangeIds,
              ServerPrepare(p) \/ PrepareRejected(p) \/ PrepareTaskFails(p) \/ LeaderChange(p)
       PROVE TypeOK'
    <2>1. CASE ServerPrepare(p)
        BY <2>1 DEF ServerPrepare, TypeOK
    <2>2. CASE PrepareRejected(p)
        BY <2>2 DEF PrepareRejected, TypeOK
    <2>3. CASE PrepareTaskFails(p)
        BY <2>3 DEF PrepareTaskFails, TypeOK
    <2>4. CASE LeaderChange(p)
        BY <2>4 DEF LeaderChange, TypeOK, LeaderSeqs
    <2>5. QED
        BY <1>12, <2>1, <2>2, <2>3, <2>4
<1>13. ASSUME NEW m \in Msgs, ServerCommit(m) \/ ServerAbort(m) \/ LoseHint(m) PROVE TypeOK'
    BY <1>13 DEF ServerCommit, ServerAbort, LoseHint, TypeOK, Msgs
<1>14. CASE TimeoutAbort \/ EpochTick
    BY <1>14 DEF TimeoutAbort, EpochTick, TypeOK
<1>15. ASSUME NEW n \in Keyspaces, RecreateKeyspace(n) PROVE TypeOK'
    BY <1>15 DEF RecreateKeyspace, TypeOK
<1>16. ASSUME NEW k \in Keys, Reassign(k) PROVE TypeOK'
    BY <1>16 DEF Reassign, TypeOK
<1>17. CASE UNCHANGED vars
    BY <1>17 DEF vars, TypeOK
<1>18. QED
    BY <1>1, <1>2, <1>3, <1>4, <1>5, <1>6, <1>7, <1>8, <1>9, <1>10, <1>11, <1>12,
       <1>13, <1>14, <1>15, <1>16, <1>17 DEF Next, Client, Commit, Environment

(* Type correctness: every reachable state of the coordinator and its     *)
(* environment gives every variable a value of its type (TypeOK).         *)
THEOREM TypeCorrect == Spec => []TypeOK
<1>1. Init => TypeOK
    BY DEF Init, TypeOK, LeaderSeqs, NoRead, UNSET
<1>2. QED
    BY <1>1, TypeStep, PTL DEF Spec

(* A step that leaves the protocol state alone (at most it panics the     *)
(* coordinator, drops RPCs or, while Running, adds participants) keeps    *)
(* IInv.                                                                   *)
LEMMA FrameStep ==
    ASSUME IInv, TypeOK',
           UNCHANGED <<state, prep, decision, commitEpoch, readEpoch, rs>>,
           pc' \in {pc, "panicked"},
           net' \subseteq net,
           touched \subseteq touched',
           touched' = touched \/ state = "Running"
    PROVE  IInv'
<1>1. state = "Running" => decision # "committed"
    BY DEF IInv
<1>2. QED
    BY <1>1 DEF IInv, HintsAgreeWithDecision, CommitRequiresAllPrepared, AbortDecided

(* record_abort's first half, from a Running or Preparing transaction,    *)
(* keeps IInv: the store cannot have committed, so setting Aborted and     *)
(* sending abort RPCs agrees with the decision; prep may change with it.  *)
LEMMA RecordAbortStep ==
    ASSUME IInv, TypeOK',
           NEW S, S \subseteq touched',
           state \in {"Running", "Preparing"},
           RecordAbort(S),
           UNCHANGED <<commitEpoch, readEpoch, rs>>,
           touched \subseteq touched'
    PROVE  IInv'
<1>1. decision \in {"undecided", "aborted"}
    BY DEF IInv, TypeOK
<1>2. AbortDecided'
    BY <1>1 DEF RecordAbort, AbortDecided
<1>3. \A m \in net : m.type # "commit"
    BY <1>1 DEF IInv, HintsAgreeWithDecision
<1>4. \A p \in FullRangeIds : rs[p] # "committed"
    BY <1>1 DEF IInv, HintsAgreeWithDecision
<1>5. \A m \in net' : m.type \in {"prepare", "commit"} => m.to \in touched'
    BY DEF IInv, RecordAbort
<1>6. HintsAgreeWithDecision'
    BY <1>2, <1>3, <1>4 DEF RecordAbort, HintsAgreeWithDecision
<1>7. QED
    BY <1>1, <1>2, <1>5, <1>6 DEF IInv, RecordAbort, CommitRequiresAllPrepared

(* Every step of Next keeps the inductive invariant.                      *)
LEMMA IInvStep == IInv /\ [Next]_vars => IInv'
<1> SUFFICES ASSUME IInv, [Next]_vars PROVE IInv'
    OBVIOUS
<1>0. TypeOK /\ TypeOK'
    BY TypeStep DEF IInv
<1>1. ASSUME NEW n \in Keyspaces, NEW k \in Keys, ResolveFails(n, k) PROVE IInv'
    BY <1>0, <1>1, FrameStep DEF ResolveFails
<1>21. CASE Rejected
    BY <1>0, <1>21, FrameStep DEF Rejected
<1>2. ASSUME NEW n \in Keyspaces, NEW k \in Keys, Get(n, k) PROVE IInv'
    <2>1. PICK p \in FullRangeIds :
              /\ p = <<KeyspaceIdOf(n), owner[k]>>
              /\ ClientCall /\ CheckStillRunning
              /\ KeyspaceIdOf(n) \in KeyspaceIds /\ CacheKeyspace(n)
              /\ touched' = touched \cup {p}
              /\ UNCHANGED <<writeset, deleteset, tasks, readEpoch, commitEpoch, rs, leader,
                             epoch, universe, owner, moves, intent>>
              /\ \/ GetLocal(n, k)
                 \/ \E obs \in {leader[p], INVALID} : GetRpc(p, obs) /\ GetAborts(p, obs)
                 \/ \E obs \in {leader[p], INVALID} : GetRpc(p, obs) /\ GetReads(n, k, p, obs)
        BY <1>0, <1>2, GetShape
    <2>2. CASE GetLocal(n, k)
        BY <1>0, <2>1, <2>2, FrameStep DEF GetLocal, CheckStillRunning
    <2>3. ASSUME NEW obs \in {leader[p], INVALID}, GetRpc(p, obs), GetAborts(p, obs)
          PROVE  IInv'
        BY <1>0, <2>1, <2>3, RecordAbortStep DEF GetAborts, CheckStillRunning
    <2>4. ASSUME NEW obs \in {leader[p], INVALID}, GetRpc(p, obs), GetReads(n, k, p, obs)
          PROVE  IInv'
        BY <1>0, <2>1, <2>4, FrameStep DEF GetReads, CheckStillRunning
    <2>5. QED
        BY <2>1, <2>2, <2>3, <2>4
<1>3. ASSUME NEW n \in Keyspaces, NEW k \in Keys,
             \/ GetRpcFails(n, k)
             \/ Del(n, k)
             \/ \E v \in Values : Put(n, k, v)
      PROVE  IInv'
    BY <1>0, <1>3, FrameStep DEF GetRpcFails, Put, Del, CheckStillRunning
<1>4. CASE Abort
    BY <1>0, <1>4, RecordAbortStep DEF Abort, CheckStillRunning
<1>5. CASE CommitStart
    <2>1. decision # "committed" /\ (AbortDecided <=> decision = "aborted")
        BY <1>5 DEF CommitStart, CheckStillRunning, IInv, AbortDecided
    <2>2. AbortDecided' <=> decision' = "aborted"
        BY <1>5 DEF CommitStart, AbortDecided
    <2>3. \A q \in FullRangeIds : prep'[q] \in {"ok", "joined"} => prep[q] \in {"ok", "joined"}
        BY <1>0, <1>5 DEF CommitStart, TypeOK
    <2>4. QED
        BY <1>0, <1>5, <2>1, <2>2, <2>3
        DEF CommitStart, ClientCall, IInv, HintsAgreeWithDecision, CommitRequiresAllPrepared
<1>6. CASE ReadEpoch
    BY <1>0, <1>6 DEF ReadEpoch, IInv, HintsAgreeWithDecision, CommitRequiresAllPrepared,
                      AbortDecided
<1>7. CASE StoreAbort
    <2>1. state = "Aborted" /\ decision \in {"undecided", "aborted"}
        BY <1>0, <1>7 DEF StoreAbort, IInv, TypeOK
    <2>2. decision' = "aborted" /\ pc' = "idle"
        BY <2>1, <1>7 DEF StoreAbort
    <2>3. /\ \A m \in net : m.type # "commit"
          /\ \A q \in FullRangeIds : rs[q] # "committed"
        BY <2>1 DEF IInv, HintsAgreeWithDecision
    <2>4. QED
        BY <1>0, <1>7, <2>1, <2>2, <2>3
        DEF StoreAbort, IInv, HintsAgreeWithDecision, CommitRequiresAllPrepared, AbortDecided
<1>8. ASSUME NEW p \in FullRangeIds, JoinPrepare(p) PROVE IInv'
    <2>1. state = "Preparing"
        BY <1>8 DEF JoinPrepare, IInv
    <2>2. CASE prep[p] = "ok" /\ prep' = [prep EXCEPT ![p] = "joined"]
               /\ UNCHANGED <<state, pc, decision, net>>
        <3>1. \A q \in FullRangeIds : prep'[q] \in {"ok", "joined"} => prep[q] \in {"ok", "joined"}
            BY <1>0, <2>2 DEF TypeOK
        <3>2. QED
            BY <1>0, <1>8, <2>2, <3>1
            DEF JoinPrepare, IInv, HintsAgreeWithDecision, CommitRequiresAllPrepared,
                AbortDecided
    <2>3. CASE prep[p] = "failed" /\ prep' = [prep EXCEPT ![p] = "joined"] /\ RecordAbort(touched)
        BY <1>0, <1>8, <2>1, <2>3, RecordAbortStep DEF JoinPrepare
    <2>4. CASE prep[p] = "rpcerr" /\ prep' = [prep EXCEPT ![p] = "joined"]
               /\ pc' = "panicked" /\ UNCHANGED <<state, decision, net>>
        BY <1>0, <1>8, <2>4
        DEF JoinPrepare, IInv, HintsAgreeWithDecision, CommitRequiresAllPrepared, AbortDecided
    <2>5. QED
        BY <1>8, <2>2, <2>3, <2>4 DEF JoinPrepare
<1>9. CASE TryCommit
    <2>1. state = "Preparing" /\ decision \in {"undecided", "aborted"} /\ pc = "join"
        BY <1>0, <1>9 DEF TryCommit, IInv, TypeOK
    <2>2. CASE decision = "aborted"
        BY <1>0, <1>9, <2>1, <2>2
        DEF TryCommit, IInv, HintsAgreeWithDecision, CommitRequiresAllPrepared, AbortDecided
    <2>3. CASE decision = "undecided"
        <3>1. /\ decision' = "committed" /\ commitEpoch' = readEpoch /\ pc' = "idle"
              /\ state' = "Committed"
              /\ net' = net \cup {[type |-> "commit", to |-> q, epoch |-> readEpoch] : q \in touched}
            BY <1>9, <2>3 DEF TryCommit
        <3>2. ~AbortDecided
            BY <2>1, <2>3 DEF AbortDecided
        <3>3. \A q \in FullRangeIds : prep[q] \in {"ok", "joined"} => rs[q] \in {"prepared", "committed"}
            BY <2>1, <3>2 DEF IInv
        <3>4. /\ \A m \in net : m.type \notin {"commit", "abort"}
              /\ \A q \in FullRangeIds : rs[q] \notin {"committed", "aborted"}
            BY <2>3, <3>2 DEF IInv, HintsAgreeWithDecision
        <3>5. CommitRequiresAllPrepared'
            BY <1>0, <1>9, <3>1, <3>3 DEF TryCommit, CommitRequiresAllPrepared, TypeOK
        <3>6. HintsAgreeWithDecision'
            <4>1. rs' = rs
                BY <1>9 DEF TryCommit
            <4>2. \A m \in net' : m.type = "commit" => decision' = "committed" /\ m.epoch = commitEpoch'
                BY <3>1, <3>4
            <4>3. \A m \in net' : m.type # "abort"
                BY <3>1, <3>4
            <4>4. \A q \in FullRangeIds : rs'[q] \notin {"committed", "aborted"}
                BY <3>4, <4>1
            <4>5. QED
                BY <4>2, <4>3, <4>4 DEF HintsAgreeWithDecision
        <3>7. QED
            BY <1>0, <1>9, <3>1, <3>3, <3>5, <3>6 DEF TryCommit, IInv, AbortDecided
    <2>4. QED
        BY <2>1, <2>2, <2>3
<1>10. ASSUME NEW p \in FullRangeIds, ServerPrepare(p) PROVE IInv'
    <2>1. p \in touched
        BY <1>10 DEF ServerPrepare, IInv
    <2>2. \A q \in FullRangeIds :
             /\ rs'[q] \in {"prepared", "committed"} \/ rs'[q] = rs[q]
             /\ rs'[q] \in {"committed", "aborted"} => rs'[q] = rs[q]
             /\ prep'[q] \in {"ok", "joined"} =>
                   prep[q] \in {"ok", "joined"} \/ rs'[q] \in {"prepared", "committed"} \/ rs[q] = "aborted"
        BY <1>0, <1>10 DEF ServerPrepare, TypeOK
    <2>3. \A q \in FullRangeIds : rs[q] = "aborted" => AbortDecided
        BY DEF IInv, HintsAgreeWithDecision
    <2>4. QED
        BY <1>0, <1>10, <2>2, <2>3
        DEF ServerPrepare, IInv, HintsAgreeWithDecision, CommitRequiresAllPrepared, AbortDecided
<1>11. ASSUME NEW p \in FullRangeIds, PrepareRejected(p) \/ PrepareTaskFails(p) PROVE IInv'
    <2>1. \A q \in FullRangeIds : prep'[q] \in {"ok", "joined"} => prep[q] \in {"ok", "joined"}
        BY <1>0, <1>11 DEF PrepareRejected, PrepareTaskFails, TypeOK
    <2>2. QED
        BY <1>0, <1>11, <2>1
        DEF PrepareRejected, PrepareTaskFails, IInv, HintsAgreeWithDecision,
            CommitRequiresAllPrepared, AbortDecided
<1>12. ASSUME NEW m \in Msgs, ServerCommit(m) PROVE IInv'
    <2>1. decision = "committed"
        BY <1>12 DEF ServerCommit, IInv, HintsAgreeWithDecision
    <2>2. QED
        BY <1>0, <1>12, <2>1
        DEF ServerCommit, IInv, HintsAgreeWithDecision, CommitRequiresAllPrepared, AbortDecided
<1>13. ASSUME NEW m \in Msgs, ServerAbort(m) PROVE IInv'
    <2>1. AbortDecided /\ decision # "committed"
        BY <1>13 DEF ServerAbort, IInv, HintsAgreeWithDecision, AbortDecided
    <2>2. QED
        BY <1>0, <1>13, <2>1
        DEF ServerAbort, IInv, HintsAgreeWithDecision, CommitRequiresAllPrepared, AbortDecided
<1>14. ASSUME NEW m \in Msgs, LoseHint(m) PROVE IInv'
    BY <1>0, <1>14, FrameStep DEF LoseHint
<1>15. CASE TimeoutAbort
    <2>1. decision = "undecided" /\ state # "Committed"
        BY <1>15 DEF TimeoutAbort, IInv
    <2>2. /\ \A m \in net : m.type # "commit"
          /\ \A q \in FullRangeIds : rs[q] # "committed"
        BY <2>1 DEF IInv, HintsAgreeWithDecision
    <2>3. QED
        BY <1>0, <1>15, <2>1, <2>2
        DEF TimeoutAbort, IInv, HintsAgreeWithDecision, CommitRequiresAllPrepared, AbortDecided
<1>16. CASE EpochTick \/ UNCHANGED vars
    BY <1>0, <1>16, FrameStep DEF EpochTick, vars
<1>17. ASSUME NEW p \in FullRangeIds, LeaderChange(p) PROVE IInv'
    BY <1>0, <1>17, FrameStep DEF LeaderChange
<1>18. ASSUME NEW n \in Keyspaces, RecreateKeyspace(n) PROVE IInv'
    BY <1>0, <1>18, FrameStep DEF RecreateKeyspace
<1>19. ASSUME NEW k \in Keys, Reassign(k) PROVE IInv'
    BY <1>0, <1>19, FrameStep DEF Reassign
<1>20. QED
    BY <1>1, <1>2, <1>3, <1>4, <1>5, <1>6, <1>7, <1>8, <1>9, <1>10, <1>11, <1>12,
       <1>13, <1>14, <1>15, <1>16, <1>17, <1>18, <1>19, <1>21 DEF Next, Client, Commit, Environment

(* IInv holds initially and in every reachable state.                      *)
LEMMA IInvInit == Init => IInv
BY DEF Init, IInv, TypeOK, HintsAgreeWithDecision, CommitRequiresAllPrepared,
       AbortDecided, LeaderSeqs, NoRead, UNSET

LEMMA IInvHolds == Spec => []IInv
BY IInvInit, IInvStep, PTL DEF Spec

(* Two-phase commit is safe for every instance: the hints agree with the  *)
(* store's decision, the store commits only with every participant        *)
(* prepared, and the coordinator's state agrees with the store            *)
(* (HintsAgreeWithDecision, CommitRequiresAllPrepared,                    *)
(* CoordinatorAgreesWithStore: commit, record_abort and the timeout       *)
(* daemon racing them).                                                    *)
THEOREM TwoPhaseCommitSafe ==
    Spec => [](HintsAgreeWithDecision /\ CommitRequiresAllPrepared /\ CoordinatorAgreesWithStore)
<1>1. IInv => HintsAgreeWithDecision /\ CommitRequiresAllPrepared /\ CoordinatorAgreesWithStore
    BY DEF IInv, CoordinatorAgreesWithStore
<1>2. QED
    BY <1>1, IInvHolds, PTL

(* The store records a commit only once every participant range has      *)
(* prepared (CommitRequiresAllPrepared: commit joins every prepare task   *)
(* before try_commit_transaction), for every instance.                    *)
THEOREM CommitNeedsAllPrepared == Spec => []CommitRequiresAllPrepared
BY TwoPhaseCommitSafe, PTL

(* The coordinator's state never contradicts the store                    *)
(* (CoordinatorAgreesWithStore: commit's handling of try_commit's answer  *)
(* and record_abort's try_abort), for every instance.                     *)
THEOREM CoordinatorStoreAgreement == Spec => []CoordinatorAgreesWithStore
BY TwoPhaseCommitSafe, PTL

-----------------------------------------------------------------------------
(* Action properties.                                                      *)

(* Which steps can move the coordinator to panicked, and from where.      *)
LEMMA PanicSteps ==
    ASSUME [Next]_vars, pc' = "panicked", pc # "panicked"
    PROVE  \/ pc = "idle"
           \/ pc = "join"
           \/ pc = "aborting" /\ decision = "committed"
<1>1. CASE Client
    <2>1. CASE Rejected \/ Abort \/ CommitStart
        BY <2>1 DEF Rejected, Abort, CommitStart, ClientCall
    <2>2. ASSUME NEW n \in Keyspaces, NEW k \in Keys,
                 \/ ResolveFails(n, k) \/ Get(n, k) \/ GetRpcFails(n, k) \/ Del(n, k)
                 \/ \E v \in Values : Put(n, k, v)
          PROVE  pc = "idle"
        BY <2>2 DEF ResolveFails, Get, GetRpcFails, Del, Put, ClientCall
    <2>3. QED
        BY <1>1, <2>1, <2>2 DEF Client
<1>2. CASE Commit
    BY <1>2 DEF Commit, StoreAbort, ReadEpoch, TryCommit, JoinPrepare
<1>3. CASE Environment
    BY <1>3 DEF Environment, ServerPrepare, PrepareRejected, PrepareTaskFails, ServerCommit,
                ServerAbort, LoseHint, TimeoutAbort, LeaderChange, EpochTick,
                RecreateKeyspace, Reassign
<1>4. QED
    BY <1>1, <1>2, <1>3 DEF Next, vars

(* The panic of record_abort ("transaction committed without coordinator  *)
(* consent!") is unreachable, for every instance (StoreAbortNeverPanics). *)
THEOREM RecordAbortNoPanic == Spec => StoreAbortNeverPanics
<1>1. IInv /\ [Next]_vars => [pc = "aborting" => pc' # "panicked"]_vars
    <2> SUFFICES ASSUME IInv, [Next]_vars, pc = "aborting", pc' = "panicked"
                 PROVE  FALSE
        OBVIOUS
    <2>1. decision # "committed"
        BY DEF IInv
    <2>2. QED
        BY <2>1, PanicSteps
<1>2. QED
    BY <1>1, IInvHolds, PTL DEF Spec, StoreAbortNeverPanics

-----------------------------------------------------------------------------
(* resolve_keyspace's cache.                                               *)

(* Caching the id of n keeps every entry the cache already had: an entry *)
(* is overwritten only when it was empty (NoId).                          *)
LEMMA CacheKeeps ==
    ASSUME TypeOK, NEW n \in Keyspaces, CacheKeyspace(n)
    PROVE  /\ \A m \in Keyspaces : resolved[m] # NoId => resolved'[m] = resolved[m]
           /\ resolved'[n] = KeyspaceIdOf(n)
BY DEF CacheKeyspace, KeyspaceIdOf, TypeOK

(* A step that caches n and adds at most a participant of the id it       *)
(* returned keeps KeyspaceStable.                                          *)
LEMMA CacheStep ==
    ASSUME TypeOK, KeyspaceStable, NEW n \in Keyspaces, CacheKeyspace(n), NEW r,
           touched' \subseteq touched \cup {<<KeyspaceIdOf(n), r>>}
    PROVE  KeyspaceStable'
<1> SUFFICES ASSUME NEW q \in touched' PROVE \E m \in Keyspaces : resolved'[m] = q[1]
    BY DEF KeyspaceStable
<1>1. CASE q \in touched
    <2>1. PICK m \in Keyspaces : resolved[m] = q[1]
        BY <1>1 DEF KeyspaceStable
    <2>2. resolved[m] # NoId
        BY <1>1, <2>1 DEF TypeOK, FullRangeIds
    <2>3. QED
        BY <2>1, <2>2, CacheKeeps
<1>2. CASE q = <<KeyspaceIdOf(n), r>>
    BY <1>2, CacheKeeps
<1>3. QED
    BY <1>1, <1>2

(* The keyspace of every participant stays the id the transaction         *)
(* resolved for some name, however the universe drops and recreates       *)
(* keyspaces (KeyspaceStable: resolve_keyspace's cache).                  *)
THEOREM KeyspaceCacheStable == Spec => []KeyspaceStable
<1> DEFINE KInv == TypeOK /\ KeyspaceStable
<1>1. Init => KInv
    BY DEF Init, TypeOK, KeyspaceStable, LeaderSeqs, NoRead, UNSET
<1>2. KInv /\ [Next]_vars => KInv'
    <2> SUFFICES ASSUME KInv, [Next]_vars PROVE KInv'
        OBVIOUS
    <2>0. TypeOK'
        BY TypeStep
    <2>1. ASSUME NEW n \in Keyspaces, NEW k \in Keys, Get(n, k) PROVE KeyspaceStable'
        BY <2>1, GetShape, CacheStep
    <2>2. ASSUME NEW n \in Keyspaces, NEW k \in Keys,
                 \/ GetRpcFails(n, k) \/ Del(n, k) \/ \E v \in Values : Put(n, k, v)
          PROVE  KeyspaceStable'
        BY <2>2, CacheStep DEF GetRpcFails, Del, Put
    <2>3. ASSUME NEW n \in Keyspaces, NEW k \in Keys, ResolveFails(n, k) PROVE KeyspaceStable'
        <3>1. CASE UNCHANGED resolved
            BY <2>3, <3>1 DEF ResolveFails, KeyspaceStable
        <3>2. CASE CacheKeyspace(n)
            BY <2>3, <3>2, CacheStep DEF ResolveFails
        <3>3. QED
            BY <2>3, <3>1, <3>2 DEF ResolveFails
    <2>4. CASE touched' = touched /\ resolved' = resolved
        BY <2>0, <2>4 DEF KInv, KeyspaceStable
    <2>5. QED
        BY <2>0, <2>1, <2>2, <2>3, <2>4
        DEF KInv, Next, Client, Commit, Environment, vars, Rejected, Abort, CommitStart, ReadEpoch,
            StoreAbort, JoinPrepare, TryCommit, ServerPrepare, PrepareRejected,
            PrepareTaskFails, ServerCommit, ServerAbort, LoseHint, TimeoutAbort,
            LeaderChange, EpochTick, RecreateKeyspace, Reassign
<1>3. QED
    BY <1>1, <1>2, PTL DEF Spec

-----------------------------------------------------------------------------
(* Leader pinning in get.                                                  *)

(* No step takes the transaction out of Aborted: every operation that     *)
(* sets state checks Running first, and commit's own steps run only in    *)
(* Preparing.                                                              *)
LEMMA AbortedStays ==
    ASSUME IInv, [Next]_vars, state = "Aborted"
    PROVE  state' = "Aborted"
<1>1. pc \notin {"prepare", "join"} /\ ~CheckStillRunning
    BY DEF IInv, CheckStillRunning
<1>2. CASE Client
    <2>1. ASSUME NEW n \in Keyspaces, NEW k \in Keys,
                 \/ ResolveFails(n, k) \/ Get(n, k) \/ GetRpcFails(n, k) \/ Del(n, k)
                 \/ \E v \in Values : Put(n, k, v)
          PROVE  FALSE
        BY <1>1, <2>1 DEF ResolveFails, Get, GetRpcFails, Del, Put
    <2>2. QED
        BY <1>1, <1>2, <2>1 DEF Client, Rejected, Abort, CommitStart
<1>3. CASE Commit
    BY <1>1, <1>3 DEF Commit, StoreAbort, ReadEpoch, TryCommit, JoinPrepare
<1>4. CASE Environment
    BY <1>4 DEF Environment, ServerPrepare, PrepareRejected, PrepareTaskFails, ServerCommit,
                ServerAbort, LoseHint, TimeoutAbort, LeaderChange, EpochTick,
                RecreateKeyspace, Reassign
<1>5. QED
    BY <1>2, <1>3, <1>4 DEF Next, vars

(* Only get touches the read history: every other step leaves seen and    *)
(* the pinned leader sequence numbers alone.                              *)
LEMMA OnlyGetReads ==
    ASSUME [Next]_vars
    PROVE  \/ \E n \in Keyspaces, k \in Keys : Get(n, k)
           \/ seen' = seen /\ lsn' = lsn
<1>1. CASE Client
    <2>1. CASE Rejected \/ Abort \/ CommitStart
        BY <2>1 DEF Rejected, Abort, CommitStart
    <2>2. ASSUME NEW n \in Keyspaces, NEW k \in Keys,
                 \/ ResolveFails(n, k) \/ GetRpcFails(n, k) \/ Del(n, k)
                 \/ \E v \in Values : Put(n, k, v)
          PROVE  seen' = seen /\ lsn' = lsn
        BY <2>2 DEF ResolveFails, GetRpcFails, Del, Put
    <2>3. QED
        BY <1>1, <2>1, <2>2 DEF Client
<1>2. CASE Commit
    BY <1>2 DEF Commit, StoreAbort, ReadEpoch, TryCommit, JoinPrepare
<1>3. CASE Environment
    BY <1>3 DEF Environment, ServerPrepare, PrepareRejected, PrepareTaskFails, ServerCommit,
                ServerAbort, LoseHint, TimeoutAbort, LeaderChange, EpochTick,
                RecreateKeyspace, Reassign
<1>4. QED
    BY <1>1, <1>2, <1>3 DEF Next, vars

(* What get keeps as the pinned leader sequence number: the one already   *)
(* recorded, or, when none was, the one it observed if that is valid.     *)
LEMMA PinnedCases ==
    ASSUME NEW obs, NEW recorded
    PROVE  \/ Pinned(obs, recorded) = recorded
           \/ recorded = UNSET /\ obs # INVALID /\ Pinned(obs, recorded) = obs
BY DEF Pinned

(* While the transaction is not aborted, every read of a participant was  *)
(* answered by the leader whose sequence number it pinned                 *)
(* (ReadsFromPinnedLeader: get's check of leader_sequence_number).        *)
THEOREM PinnedReads == Spec => []ReadsFromPinnedLeader
<1> DEFINE PInv == IInv /\ ReadsFromPinnedLeader
<1>1. Init => PInv
    <2>1. Init => ReadsFromPinnedLeader
        BY DEF Init, ReadsFromPinnedLeader
    <2>2. QED
        BY <2>1, IInvInit DEF PInv
<1>2. PInv /\ [Next]_vars => PInv'
    <2> SUFFICES ASSUME PInv, [Next]_vars, state' # "Aborted"
                 PROVE  \A q \in FullRangeIds : seen'[q] \subseteq {lsn'[q]}
        BY IInvStep DEF PInv, ReadsFromPinnedLeader
    <2>0. state # "Aborted" /\ TypeOK /\ TypeOK'
        BY AbortedStays, TypeStep DEF PInv, IInv
    <2>1. \A q \in FullRangeIds : seen[q] \subseteq {lsn[q]}
        BY <2>0 DEF PInv, ReadsFromPinnedLeader
    <2>2. ASSUME NEW n \in Keyspaces, NEW k \in Keys, Get(n, k)
          PROVE  \A q \in FullRangeIds : seen'[q] \subseteq {lsn'[q]}
        <3>1. PICK p \in FullRangeIds :
                  \/ GetLocal(n, k)
                  \/ \E obs \in {leader[p], INVALID} : GetRpc(p, obs) /\ GetAborts(p, obs)
                  \/ \E obs \in {leader[p], INVALID} : GetRpc(p, obs) /\ GetReads(n, k, p, obs)
            BY <2>0, <2>2, GetShape
        <3>2. CASE GetLocal(n, k)
            BY <2>1, <3>2 DEF GetLocal
        <3>3. ASSUME NEW obs \in {leader[p], INVALID}, GetRpc(p, obs), GetAborts(p, obs)
              PROVE  FALSE
            BY <3>3 DEF GetAborts, RecordAbort
        <3>4. ASSUME NEW obs \in {leader[p], INVALID}, GetRpc(p, obs), GetReads(n, k, p, obs)
              PROVE  \A q \in FullRangeIds : seen'[q] \subseteq {lsn'[q]}
            <4>1. lsn[p] = UNSET => seen[p] = {}
                BY <2>0, <2>1 DEF TypeOK, UNSET, INVALID, LeaderSeqs
            <4>2. lsn'[p] = lsn[p] \/ (lsn[p] = UNSET /\ lsn'[p] = obs)
                BY <2>0, <3>4, PinnedCases DEF GetRpc, TypeOK
            <4>3. seen'[p] \subseteq {lsn'[p]}
                BY <2>0, <2>1, <3>4, <4>1, <4>2 DEF GetRpc, GetReads, TypeOK
            <4>4. QED
                BY <2>0, <2>1, <3>4, <4>3 DEF GetRpc, TypeOK
        <3>5. QED
            BY <3>1, <3>2, <3>3, <3>4
    <2>3. CASE seen' = seen /\ lsn' = lsn
        BY <2>1, <2>3
    <2>4. QED
        BY <2>2, <2>3, OnlyGetReads DEF PInv
<1>3. QED
    BY <1>1, <1>2, PTL DEF Spec, PInv

-----------------------------------------------------------------------------
(* Refinement of AtomicCommit.                                             *)

(* A step that leaves the decision, the state and the range servers       *)
(* alone, and adds participants, is AtomicCommit's Enlist unless the      *)
(* store committed.                                                        *)
LEMMA ACEnlistStep ==
    ASSUME TypeOK', decision # "committed", touched \subseteq touched', rs' = rs,
           Outcome' = Outcome
    PROVE  AC!ACNext
<1>1. touched' \in SUBSET FullRangeIds /\ touched' = touched \cup touched'
    BY DEF TypeOK
<1>2. AC!Enlist(touched')
    BY <1>1 DEF AC!Enlist, Outcome, RmState
<1>3. QED
    BY <1>1, <1>2 DEF AC!ACNext

(* record_abort from Running or Preparing, possibly adding participants:  *)
(* AtomicCommit decides abort, or enlists them if the store aborted       *)
(* already.                                                                *)
LEMMA ACRecordAbortStep ==
    ASSUME IInv, TypeOK', state \in {"Running", "Preparing"}, NEW S, RecordAbort(S),
           touched \subseteq touched', rs' = rs
    PROVE  AC!ACNext
<1>1. decision \in {"undecided", "aborted"} /\ decision' = decision
    BY DEF IInv, TypeOK, RecordAbort
<1>2. Outcome' = "aborted"
    BY <1>1 DEF RecordAbort, Outcome, AbortDecided
<1>3. touched' \in SUBSET FullRangeIds /\ touched' = touched \cup touched'
    BY DEF TypeOK
<1>4. CASE decision = "undecided"
    <2>1. AC!DecideAbort(touched')
        BY <1>2, <1>3, <1>4 DEF AC!DecideAbort, Outcome, AbortDecided, RmState
    <2>2. QED
        BY <1>3, <2>1 DEF AC!ACNext
<1>5. CASE decision = "aborted"
    BY <1>1, <1>2, <1>5, ACEnlistStep DEF Outcome, AbortDecided
<1>6. QED
    BY <1>1, <1>4, <1>5

(* A step that leaves the decision, the state, the range servers and the  *)
(* participants alone is an AtomicCommit stutter.                          *)
LEMMA ACStutterStep ==
    ASSUME UNCHANGED <<decision, state, rs, touched>>
    PROVE  UNCHANGED <<Outcome, RmState, touched>>
BY DEF Outcome, AbortDecided, RmState

(* Every step of Next, between two states of IInv, is a step of         *)
(* AtomicCommit or leaves its state alone.                                 *)
LEMMA RefinementStep ==
    ASSUME IInv, IInv', [Next]_vars
    PROVE  [AC!ACNext]_<<Outcome, RmState, touched>>
<1>0. TypeOK /\ TypeOK'
    BY DEF IInv
<1>1. ASSUME NEW n \in Keyspaces, NEW k \in Keys, Get(n, k) PROVE AC!ACNext
    <2>1. PICK p \in FullRangeIds :
              /\ CheckStillRunning
              /\ touched' = touched \cup {p}
              /\ UNCHANGED <<commitEpoch, rs>>
              /\ \/ GetLocal(n, k)
                 \/ \E obs \in {leader[p], INVALID} : GetRpc(p, obs) /\ GetAborts(p, obs)
                 \/ \E obs \in {leader[p], INVALID} : GetRpc(p, obs) /\ GetReads(n, k, p, obs)
        BY <1>0, <1>1, GetShape
    <2>2. decision # "committed"
        BY <2>1 DEF CheckStillRunning, IInv
    <2>3. CASE GetLocal(n, k) \/ \E obs \in {leader[p], INVALID} : GetReads(n, k, p, obs)
        <3>1. UNCHANGED <<state, decision>>
            BY <2>3 DEF GetLocal, GetReads
        <3>2. Outcome' = Outcome
            BY <3>1 DEF Outcome, AbortDecided
        <3>3. QED
            BY <1>0, <2>1, <2>2, <3>2, ACEnlistStep
    <2>4. ASSUME NEW obs \in {leader[p], INVALID}, GetAborts(p, obs) PROVE AC!ACNext
        BY <1>0, <2>1, <2>4, ACRecordAbortStep DEF GetAborts, CheckStillRunning
    <2>5. QED
        BY <2>1, <2>3, <2>4
<1>2. ASSUME NEW n \in Keyspaces, NEW k \in Keys,
             \/ GetRpcFails(n, k) \/ Del(n, k) \/ \E v \in Values : Put(n, k, v)
      PROVE  AC!ACNext
    <2>1. /\ state = "Running" /\ decision # "committed"
          /\ UNCHANGED <<state, decision, rs>>
          /\ touched \subseteq touched'
        BY <1>0, <1>2 DEF GetRpcFails, Del, Put, CheckStillRunning, IInv
    <2>2. QED
        BY <1>0, <2>1, ACEnlistStep DEF Outcome, AbortDecided
<1>3. CASE Abort
    BY <1>0, <1>3, ACRecordAbortStep DEF Abort, CheckStillRunning, RecordAbort
<1>4. ASSUME NEW p \in FullRangeIds, JoinPrepare(p) PROVE [AC!ACNext]_<<Outcome, RmState, touched>>
    <2>1. state = "Preparing"
        BY <1>4 DEF JoinPrepare, IInv
    <2>2. CASE RecordAbort(touched)
        BY <1>0, <1>4, <2>1, <2>2, ACRecordAbortStep DEF JoinPrepare
    <2>3. CASE UNCHANGED <<state, decision>>
        BY <1>4, <2>3, ACStutterStep DEF JoinPrepare
    <2>4. QED
        BY <1>4, <2>2, <2>3 DEF JoinPrepare
<1>5. CASE TryCommit
    <2>1. state = "Preparing" /\ pc = "join" /\ decision # "committed"
        BY <1>5 DEF TryCommit, IInv
    <2>2. CASE decision = "aborted"
        BY <1>5, <2>1, <2>2, ACStutterStep DEF TryCommit
    <2>3. CASE decision = "undecided"
        <3>1. \A q \in touched : rs[q] = "prepared"
            <4>1. \A q \in touched : rs[q] \in {"prepared", "committed"}
                BY <1>0, <1>5, <2>1, <2>3 DEF TryCommit, IInv, AbortDecided, TypeOK
            <4>2. \A q \in FullRangeIds : rs[q] # "committed"
                BY <2>1 DEF IInv, HintsAgreeWithDecision
            <4>3. QED
                BY <1>0, <4>1, <4>2 DEF TypeOK
        <3>2. decision' = "committed" /\ UNCHANGED <<rs, touched>>
            BY <1>5, <2>3 DEF TryCommit
        <3>3. AC!DecideCommit
            BY <1>0, <2>1, <2>3, <3>1, <3>2 DEF AC!DecideCommit, Outcome, AbortDecided, RmState, TypeOK
        <3>4. QED
            BY <3>3 DEF AC!ACNext
    <2>4. QED
        BY <1>0, <2>1, <2>2, <2>3 DEF TypeOK
<1>6. ASSUME NEW p \in FullRangeIds, ServerPrepare(p) PROVE [AC!ACNext]_<<Outcome, RmState, touched>>
    <2>1. CASE rs[p] = "idle"
        <3>1. p \in touched
            BY <1>6 DEF ServerPrepare, IInv
        <3>2. AC!Prepare(p)
            BY <1>0, <1>6, <2>1, <3>1 DEF ServerPrepare, AC!Prepare, RmState, Outcome, AbortDecided, TypeOK
        <3>3. QED
            BY <3>2 DEF AC!ACNext
    <2>5. CASE rs[p] # "idle"
        BY <1>0, <1>6, <2>5, ACStutterStep DEF ServerPrepare, TypeOK
    <2>6. QED
        BY <2>1, <2>5
<1>7. ASSUME NEW m \in Msgs, ServerCommit(m) PROVE [AC!ACNext]_<<Outcome, RmState, touched>>
    <2>1. decision = "committed" /\ m.to \in touched /\ m.to \in FullRangeIds
        BY <1>7 DEF ServerCommit, IInv, HintsAgreeWithDecision, Msgs
    <2>2. rs[m.to] \in {"prepared", "committed"}
        BY <2>1 DEF IInv, CommitRequiresAllPrepared
    <2>3. CASE rs[m.to] = "committed"
        BY <1>0, <1>7, <2>3, ACStutterStep DEF ServerCommit, TypeOK
    <2>4. CASE rs[m.to] = "prepared"
        <3>1. AC!LearnCommit(m.to)
            BY <1>0, <1>7, <2>1, <2>4 DEF ServerCommit, AC!LearnCommit, RmState, Outcome, TypeOK
        <3>2. QED
            BY <2>1, <3>1 DEF AC!ACNext
    <2>5. QED
        BY <2>2, <2>3, <2>4
<1>8. ASSUME NEW m \in Msgs, ServerAbort(m) PROVE [AC!ACNext]_<<Outcome, RmState, touched>>
    <2>1. AbortDecided /\ decision # "committed" /\ m.to \in FullRangeIds
        BY <1>8 DEF ServerAbort, IInv, HintsAgreeWithDecision, AbortDecided, Msgs
    <2>2. rs[m.to] # "committed"
        BY <2>1 DEF IInv, HintsAgreeWithDecision
    <2>3. CASE rs[m.to] = "aborted"
        BY <1>0, <1>8, <2>3, ACStutterStep DEF ServerAbort, TypeOK
    <2>4. CASE rs[m.to] \in {"idle", "prepared"}
        <3>1. AC!LearnAbort(m.to)
            BY <1>0, <1>8, <2>1, <2>4 DEF ServerAbort, AC!LearnAbort, RmState, Outcome,
                                          AbortDecided, TypeOK
        <3>2. QED
            BY <2>1, <3>1 DEF AC!ACNext
    <2>5. QED
        BY <1>0, <2>1, <2>2, <2>3, <2>4 DEF TypeOK
<1>9. CASE TimeoutAbort
    <2>1. CASE state = "Aborted"
        BY <1>9, <2>1 DEF TimeoutAbort, Outcome, AbortDecided, RmState
    <2>2. CASE state # "Aborted"
        <3>1. state # "Committed"
            BY <1>9 DEF TimeoutAbort, IInv
        <3>2. AC!DecideAbort({})
            BY <1>9, <2>2, <3>1 DEF TimeoutAbort, AC!DecideAbort, Outcome, AbortDecided, RmState
        <3>3. QED
            BY <3>2 DEF AC!ACNext
    <2>3. QED
        BY <2>1, <2>2
<1>10. CASE StoreAbort
    <2>1. state = "Aborted" /\ decision # "committed"
        BY <1>10 DEF StoreAbort, IInv
    <2>2. QED
        BY <1>10, <2>1 DEF StoreAbort, Outcome, AbortDecided, RmState
<1>11. CASE \/ Rejected \/ CommitStart \/ ReadEpoch \/ EpochTick \/ UNCHANGED vars
    <2>1. CASE CommitStart
        <3>1. state = "Running"
            BY <2>1 DEF CommitStart, CheckStillRunning
        <3>2. QED
            BY <2>1, <3>1 DEF CommitStart, Outcome, AbortDecided, RmState
    <2>2. CASE Rejected \/ ReadEpoch \/ EpochTick \/ UNCHANGED vars
        BY <2>2, ACStutterStep DEF Rejected, ReadEpoch, EpochTick, vars
    <2>3. QED
        BY <1>11, <2>1, <2>2
<1>12. ASSUME NEW p \in FullRangeIds,
              PrepareRejected(p) \/ PrepareTaskFails(p) \/ LeaderChange(p)
       PROVE  UNCHANGED <<Outcome, RmState, touched>>
    BY <1>12, ACStutterStep DEF PrepareRejected, PrepareTaskFails, LeaderChange
<1>13. ASSUME NEW m \in Msgs, LoseHint(m) PROVE UNCHANGED <<Outcome, RmState, touched>>
    BY <1>13, ACStutterStep DEF LoseHint
<1>14. ASSUME NEW n \in Keyspaces, RecreateKeyspace(n) PROVE UNCHANGED <<Outcome, RmState, touched>>
    BY <1>14, ACStutterStep DEF RecreateKeyspace
<1>15. ASSUME NEW k \in Keys, Reassign(k) PROVE UNCHANGED <<Outcome, RmState, touched>>
    BY <1>15, ACStutterStep DEF Reassign
<1>16. ASSUME NEW n \in Keyspaces, NEW k \in Keys, ResolveFails(n, k)
       PROVE  UNCHANGED <<Outcome, RmState, touched>>
    BY <1>16, ACStutterStep DEF ResolveFails
<1>17. QED
    BY <1>1, <1>2, <1>3, <1>4, <1>5, <1>6, <1>7, <1>8, <1>9, <1>10, <1>11, <1>12, <1>13,
       <1>14, <1>15, <1>16 DEF Next, Client, Commit, Environment

(* The coordinator with its state store and range servers implements      *)
(* atomic commitment (ImplementsAtomicCommit): under the refinement       *)
(* mapping Outcome / RmState / touched, every behaviour of Spec is one of  *)
(* AtomicCommit's ACSpec.                                                  *)
THEOREM TransactionRefinement == Spec => ImplementsAtomicCommit
<1>1. Init => AC!ACInit
    BY DEF Init, AC!ACInit, Outcome, AbortDecided, RmState
<1>2. IInv /\ IInv' /\ [Next]_vars => [AC!ACNext]_<<Outcome, RmState, touched>>
    BY RefinementStep
<1>3. QED
    BY <1>1, <1>2, IInvHolds, PTL DEF Spec, ImplementsAtomicCommit, AC!ACSpec, AC!acVars

(* Atomicity at the range servers, obtained through the refinement: no    *)
(* range commits the transaction while another aborts it, a range commits *)
(* only what the store committed, and a committed transaction has every   *)
(* participant prepared or committed. It is AtomicCommit's ACSafe carried *)
(* over by TransactionRefinement.                                          *)
THEOREM RangesAtomic ==
    Spec => [](/\ \A p, q \in FullRangeIds : ~(rs[p] = "committed" /\ rs[q] = "aborted")
               /\ \A p \in FullRangeIds : rs[p] = "committed" => decision = "committed")
<1>1. AC!ACInv => /\ \A p, q \in FullRangeIds : ~(rs[p] = "committed" /\ rs[q] = "aborted")
                  /\ \A p \in FullRangeIds : rs[p] = "committed" => decision = "committed"
    BY DEF AC!ACInv, AC!ACConsistent, RmState, Outcome
<1>2. AC!ACSpec => []AC!ACInv
    BY AC!ACSafe
<1>3. QED
    BY <1>1, <1>2, TransactionRefinement, PTL DEF ImplementsAtomicCommit

=============================================================================
