---------------------------- MODULE Transaction ----------------------------
(***************************************************************************)
(* The transaction coordinator of src/coordinator/src/transaction.rs, one  *)
(* transaction, together with the collaborators it races against:         *)
(*   - the transaction state store, a decide-once registry that a timeout  *)
(*     daemon may abort behind the coordinator's back;                     *)
(*   - the range servers, which receive prepare, commit and abort RPCs    *)
(*     over a network that may lose the commit/abort hints;                *)
(*   - the universe directory (keyspace name -> id, may drop/recreate), the *)
(*     range assignment oracle (key -> range, may move), the leaders of    *)
(*     the ranges (leader sequence numbers grow) and the cluster epoch.    *)
(* Client operations are serialized (one owner per transaction), so the   *)
(* coordinator is one process; its only suspension points that matter are *)
(* inside commit, where the prepare fan-out runs in parallel tasks.        *)
(***************************************************************************)
EXTENDS Integers, FiniteSets

CONSTANTS
    Keyspaces,      \* keyspace names
    KeyspaceIds,    \* keyspace ids the universe may hand out
    Keys,           \* record keys
    Ranges,         \* range ids within a keyspace
    Values,         \* record values
    MaxLeaderSeq,   \* bound on leader changes of a range
    MaxEpoch,       \* bound on the cluster epoch
    MaxOps,         \* bound on client operations on the transaction
    MaxMoves,       \* bound on keyspace recreations and range moves
    LeaseSpan,      \* length of the epoch lease a range server grants
    NotFound,       \* universe answer: no such keyspace
    NoId,           \* resolved-keyspace cache: no entry
    NoVal,          \* writeset: no entry for the key
    None            \* get: no value (the key is absent or deleted)

ASSUME ConstantsAssumption ==
    /\ MaxLeaderSeq \in Nat \ {0}
    /\ MaxEpoch \in Nat \ {0}
    /\ MaxOps \in Nat
    /\ MaxMoves \in Nat
    /\ LeaseSpan \in Nat
    /\ NotFound \notin KeyspaceIds
    /\ NoId \notin KeyspaceIds
    /\ NoVal \notin Values
    /\ None \notin Values
    /\ Ranges # {}

(* constants::UNSET_LEADER_SEQUENCE_NUMBER and INVALID_LEADER_SEQUENCE_NUMBER *)
UNSET == 0
INVALID == -1
LeaderSeqs == 1..MaxLeaderSeq

(* FullRangeId: (keyspace_id, range_id). *)
FullRangeIds == KeyspaceIds \X Ranges

VARIABLES
    state,          \* Transaction.state
    pc,             \* where the coordinator is: idle between client calls,
                    \* "prepare"/"join" inside commit, "aborting" inside
                    \* record_abort, "panicked" after a panic
    readset,        \* Transaction.participant_ranges, one function per field
    writeset,       \*   of ParticipantRange, each total over FullRangeIds
    deleteset,
    lsn,            \*   (leader_sequence_number)
    touched,        \* the keys of participant_ranges
    resolved,       \* Transaction.resolved_keyspaces
    prep,           \* per participant: the prepare task in prepare_join_set
    lease,          \* per participant: the epoch_lease its prepare returned
    readEpoch,      \* the epoch read by commit (0 before the read)
    decision,       \* state store: "undecided", "committed" or "aborted"
    commitEpoch,    \* state store: the epoch the commit was recorded with
    rs,             \* range servers: what each knows of this transaction
    net,            \* RPCs sent to range servers and not yet delivered
    leader,         \* range servers: current leader sequence number
    epoch,          \* epoch reader: the cluster epoch
    universe,       \* universe directory: keyspace name -> id
    owner,          \* assignment oracle: key -> range
    moves,          \* keyspace recreations and range moves so far
    ops,            \* client calls made so far
    seen,           \* history: leader sequence numbers returned by reads
    intent,         \* history: the last put/del of the client per key
    lastGet         \* history: the answer of the last get, cleared by put/del

parts == <<readset, writeset, deleteset, lsn>>
tasks == <<prep, lease>>
coord == <<state, pc, parts, touched, resolved, tasks, readEpoch>>
env == <<decision, commitEpoch, rs, net, leader, epoch, universe, owner, moves>>
hist == <<ops, seen, intent, lastGet>>
vars == <<coord, env, hist>>


Msgs == [type : {"prepare", "abort"}, to : FullRangeIds]
            \cup [type : {"commit"}, to : FullRangeIds, epoch : 0..MaxEpoch]

NoRead == [ks |-> NoId, key |-> NoVal, val |-> NoVal]

TypeOK ==
    /\ state \in {"Running", "Preparing", "Aborted", "Committed"}
    /\ pc \in {"idle", "prepare", "join", "aborting", "panicked"}
    /\ readset \in [FullRangeIds -> SUBSET Keys]
    /\ writeset \in [FullRangeIds -> [Keys -> Values \cup {NoVal}]]
    /\ deleteset \in [FullRangeIds -> SUBSET Keys]
    /\ lsn \in [FullRangeIds -> LeaderSeqs \cup {UNSET}]
    /\ touched \subseteq FullRangeIds
    /\ resolved \in [Keyspaces -> KeyspaceIds \cup {NoId}]
    /\ prep \in [FullRangeIds -> {"none", "pending", "ok", "failed", "rpcerr", "joined"}]
    /\ lease \in [FullRangeIds -> (0..MaxEpoch) \X (0..(MaxEpoch + LeaseSpan))]
    /\ readEpoch \in 0..MaxEpoch
    /\ decision \in {"undecided", "committed", "aborted"}
    /\ commitEpoch \in 0..MaxEpoch
    /\ rs \in [FullRangeIds -> {"idle", "prepared", "committed", "aborted"}]
    /\ net \subseteq Msgs
    /\ leader \in [FullRangeIds -> LeaderSeqs]
    /\ epoch \in 1..MaxEpoch
    /\ universe \in [Keyspaces -> KeyspaceIds \cup {NotFound}]
    /\ owner \in [Keys -> Ranges]
    /\ moves \in 0..MaxMoves
    /\ ops \in 0..MaxOps
    /\ seen \in [FullRangeIds -> SUBSET (LeaderSeqs \cup {INVALID})]
    /\ intent \in [Keyspaces -> [Keys -> Values \cup {None, NoVal}]]
    /\ lastGet \in [ks : Keyspaces, key : Keys, val : Values \cup {None}] \cup {NoRead}

Init ==
    /\ state = "Running"
    /\ pc = "idle"
    \* get_participant_range creates entries with empty sets and UNSET
    /\ readset = [p \in FullRangeIds |-> {}]
    /\ writeset = [p \in FullRangeIds |-> [k \in Keys |-> NoVal]]
    /\ deleteset = [p \in FullRangeIds |-> {}]
    /\ lsn = [p \in FullRangeIds |-> UNSET]
    /\ touched = {}
    /\ resolved = [n \in Keyspaces |-> NoId]
    /\ prep = [p \in FullRangeIds |-> "none"]
    /\ lease = [p \in FullRangeIds |-> <<0, 0>>]
    /\ readEpoch = 0
    /\ decision = "undecided"
    /\ commitEpoch = 0
    /\ rs = [p \in FullRangeIds |-> "idle"]
    /\ net = {}
    /\ leader = [p \in FullRangeIds |-> 1]
    /\ epoch = 1
    /\ universe \in [Keyspaces -> KeyspaceIds \cup {NotFound}]
    /\ owner \in [Keys -> Ranges]
    /\ moves = 0
    /\ ops = 0
    /\ seen = [p \in FullRangeIds |-> {}]
    /\ intent = [n \in Keyspaces |-> [k \in Keys |-> NoVal]]
    /\ lastGet = NoRead

-----------------------------------------------------------------------------
(* Helpers of the coordinator.                                             *)

(* check_still_running: only a Running transaction accepts data ops.      *)
(* Fault variant: check_still_running rejecting only Aborted.             *)
CheckNotAborted == state # "Aborted"

CheckStillRunning == state = "Running"

(* Fault variant: resolve_keyspace without the cache lookup.               *)
KeyspaceIdUncached(n) == universe[n]

(* resolve_keyspace on a hit or a successful lookup: the id it returns.    *)
KeyspaceIdOf(n) == IF resolved[n] # NoId THEN resolved[n] ELSE universe[n]

(* resolve_keyspace caches the id it looked up; a hit leaves the cache.    *)
CacheKeyspace(n) == resolved' = [resolved EXCEPT ![n] = KeyspaceIdOf(n)]

(* A client call: the transaction is idle and the client has calls left.   *)
ClientCall == pc = "idle" /\ ops < MaxOps /\ ops' = ops + 1

(* record_abort up to its first await: state := Aborted and an abort RPC  *)
(* task spawned for every participant in S; the RPCs may be delivered     *)
(* before the state store hears of the abort.                             *)
RecordAbort(S) ==
    /\ state' = "Aborted"
    /\ net' = net \cup {[type |-> "abort", to |-> p] : p \in S}
    /\ pc' = "aborting"
    /\ UNCHANGED decision

(* Fault variant: pin the leader of every read, not only the first one.   *)
PinnedAlways(obs, recorded) == IF obs # INVALID THEN obs ELSE recorded

(* Fault variant: pin the first answer even when it is the INVALID         *)
(* sentinel (the != INVALID_LEADER_SEQUENCE_NUMBER test dropped).         *)
PinnedInvalidToo(obs, recorded) == IF recorded = UNSET THEN obs ELSE recorded

(* get: the leader sequence number the participant keeps after a read     *)
(* that observed obs: the first valid one observed is pinned.             *)
Pinned(obs, recorded) ==
    IF obs # INVALID /\ recorded = UNSET THEN obs ELSE recorded

-----------------------------------------------------------------------------
(* Client operations.                                                      *)

(* get/put/del on (n, k) while Running fail in resolve_full_record_key:    *)
(* the universe lookup fails (transport error or NotFound, nothing        *)
(* cached), or the keyspace resolves (and is cached) but the oracle has no *)
(* range for the key. The operation returns an error and changes nothing  *)
(* else.                                                                   *)
ResolveFails(n, k) ==
    /\ ClientCall
    /\ CheckStillRunning
    /\ \/ resolved[n] = NoId /\ UNCHANGED resolved
       \/ KeyspaceIdOf(n) \in KeyspaceIds /\ CacheKeyspace(n)
    /\ UNCHANGED <<state, pc, parts, touched, tasks, readEpoch, env, seen, intent, lastGet>>

(* A call made after the transaction left Running: check_still_running    *)
(* returns TransactionAborted or TransactionNoLongerRunning; abort() on an *)
(* Aborted transaction returns Ok. No state changes.                       *)
Rejected ==
    /\ ClientCall
    /\ ~CheckStillRunning
    /\ UNCHANGED <<coord, env, seen, intent, lastGet>>

(* Transaction::get, after the keyspace and the range were resolved.       *)
Get(n, k) ==
    /\ ClientCall
    /\ CheckStillRunning
    /\ KeyspaceIdOf(n) \in KeyspaceIds
    /\ CacheKeyspace(n)
    /\ LET p == <<KeyspaceIdOf(n), owner[k]>>
       IN
       /\ touched' = touched \cup {p}
       /\ \/ \* read-your-writes: served from the writeset
             /\ writeset[p][k] # NoVal
             /\ lastGet' = [ks |-> n, key |-> k, val |-> writeset[p][k]]
             /\ UNCHANGED <<state, pc, readset, lsn, decision, net, seen>>
          \/ \* read-your-writes: the key was deleted
             /\ writeset[p][k] = NoVal
             /\ k \in deleteset[p]
             /\ lastGet' = [ks |-> n, key |-> k, val |-> None]
             /\ UNCHANGED <<state, pc, readset, lsn, decision, net, seen>>
          \/ \* a read RPC to the range, which reports its leader
             /\ writeset[p][k] = NoVal
             /\ k \notin deleteset[p]
             /\ \E obs \in {leader[p], INVALID}, val \in Values \cup {None} :
                /\ seen' = [seen EXCEPT ![p] = @ \cup {obs}]
                /\ lsn' = [lsn EXCEPT ![p] = Pinned(obs, @)]
                /\ \/ /\ obs # lsn'[p]
                      /\ RecordAbort(touched')
                      /\ UNCHANGED <<readset, lastGet>>
                   \/ /\ obs = lsn'[p]
                      /\ readset' = [readset EXCEPT ![p] = @ \cup {k}]
                      /\ lastGet' = [ks |-> n, key |-> k, val |-> val]
                      /\ UNCHANGED <<state, pc, decision, net>>
    /\ UNCHANGED <<writeset, deleteset, tasks, readEpoch, commitEpoch, rs, leader, epoch, universe, owner, moves, intent>>

(* The read RPC of get returns an error: the .unwrap() panics.            *)
GetRpcFails(n, k) ==
    /\ ClientCall
    /\ CheckStillRunning
    /\ KeyspaceIdOf(n) \in KeyspaceIds
    /\ CacheKeyspace(n)
    /\ LET p == <<KeyspaceIdOf(n), owner[k]>>
       IN /\ writeset[p][k] = NoVal
          /\ k \notin deleteset[p]
          /\ touched' = touched \cup {p}
    /\ pc' = "panicked"
    /\ UNCHANGED <<state, parts, tasks, readEpoch, env, seen, intent, lastGet>>

(* Transaction::put: drop the key from the deleteset, overwrite it in the  *)
(* writeset.                                                               *)
Put(n, k, v) ==
    /\ ClientCall
    /\ CheckStillRunning
    /\ KeyspaceIdOf(n) \in KeyspaceIds
    /\ CacheKeyspace(n)
    /\ LET p == <<KeyspaceIdOf(n), owner[k]>>
       IN /\ touched' = touched \cup {p}
          /\ deleteset' = [deleteset EXCEPT ![p] = @ \ {k}]
          /\ writeset' = [writeset EXCEPT ![p][k] = v]
    /\ intent' = [intent EXCEPT ![n][k] = v]
    /\ lastGet' = NoRead
    /\ UNCHANGED <<state, pc, readset, lsn, tasks, readEpoch, env, seen>>

(* Transaction::del: drop the key from the writeset, add it to the        *)
(* deleteset.                                                              *)
Del(n, k) ==
    /\ ClientCall
    /\ CheckStillRunning
    /\ KeyspaceIdOf(n) \in KeyspaceIds
    /\ CacheKeyspace(n)
    /\ LET p == <<KeyspaceIdOf(n), owner[k]>>
       IN /\ touched' = touched \cup {p}
          /\ writeset' = [writeset EXCEPT ![p][k] = NoVal]
          /\ deleteset' = [deleteset EXCEPT ![p] = @ \cup {k}]
    /\ intent' = [intent EXCEPT ![n][k] = None]
    /\ lastGet' = NoRead
    /\ UNCHANGED <<state, pc, readset, lsn, tasks, readEpoch, env, seen>>

(* Transaction::abort on a Running transaction: record_abort.             *)
Abort ==
    /\ ClientCall
    /\ CheckStillRunning
    /\ RecordAbort(touched)
    /\ UNCHANGED <<parts, touched, resolved, tasks, readEpoch, commitEpoch, rs,
                   leader, epoch, universe, owner, moves, seen, intent, lastGet>>

(* Transaction::commit, first part: state := Preparing and one prepare    *)
(* task per participant is spawned; each sends its prepare RPC.           *)
CommitStart ==
    /\ ClientCall
    /\ CheckStillRunning
    /\ state' = "Preparing"
    /\ prep' = [p \in FullRangeIds |-> IF p \in touched THEN "pending" ELSE prep[p]]
    /\ net' = net \cup {[type |-> "prepare", to |-> p] : p \in touched}
    /\ pc' = "prepare"
    /\ UNCHANGED <<lease, parts, touched, resolved, readEpoch, decision, commitEpoch, rs,
                   leader, epoch, universe, owner, moves, seen, intent, lastGet>>

(* commit: read the cluster epoch while the prepares are in flight.       *)
ReadEpoch ==
    /\ pc = "prepare"
    /\ readEpoch' = epoch
    /\ pc' = "join"
    /\ UNCHANGED <<state, parts, touched, resolved, tasks, env, hist>>

(* Fault variant: record_abort returning without try_abort_transaction.  *)
StoreAbortSkipped ==
    /\ pc = "aborting"
    /\ pc' = "idle"
    /\ UNCHANGED <<state, parts, touched, resolved, tasks, readEpoch, env, hist>>

(* record_abort, the rest: try_abort_transaction (a Committed answer is   *)
(* the panic), then the abort RPC tasks are awaited, failures ignored.    *)
StoreAbort ==
    /\ pc = "aborting"
    /\ decision' = IF decision = "undecided" THEN "aborted" ELSE decision
    /\ pc' = IF decision = "committed" THEN "panicked" ELSE "idle"
    /\ UNCHANGED <<state, parts, touched, resolved, tasks, readEpoch, commitEpoch, rs,
                   net, leader, epoch, universe, owner, moves, hist>>

(* Fault variant: join_next handling only tasks that completed Ok.        *)
JoinPrepareOkOnly(p) ==
    /\ pc = "join"
    /\ p \in touched
    /\ prep[p] = "ok"
    /\ prep' = [prep EXCEPT ![p] = "joined"]
    /\ UNCHANGED <<lease, state, pc, decision, net, parts, touched, resolved, readEpoch,
                   commitEpoch, rs, leader, epoch, universe, owner, moves, hist>>

(* commit: join_next returns the prepare task of p. A task failure        *)
(* (JoinError) is record_abort + PrepareFailed; an error returned by the  *)
(* range client goes to error_from_rangeclient_error, which panics.       *)
JoinPrepare(p) ==
    /\ pc = "join"
    /\ p \in touched
    /\ \/ /\ prep[p] = "ok"
          /\ prep' = [prep EXCEPT ![p] = "joined"]
          /\ UNCHANGED <<state, pc, decision, net>>
       \/ /\ prep[p] = "failed"
          /\ prep' = [prep EXCEPT ![p] = "joined"]
          /\ RecordAbort(touched)
       \/ /\ prep[p] = "rpcerr"
          /\ prep' = [prep EXCEPT ![p] = "joined"]
          /\ pc' = "panicked"
          /\ UNCHANGED <<state, decision, net>>
    /\ UNCHANGED <<lease, parts, touched, resolved, readEpoch, commitEpoch, rs, leader,
                   epoch, universe, owner, moves, hist>>

(* Fault variant: try_commit_transaction without waiting for the joins.   *)
TryCommitBeforeJoins ==
    /\ pc = "join"
    /\ decision' = IF decision = "undecided" THEN "committed" ELSE decision
    /\ commitEpoch' = IF decision = "undecided" THEN readEpoch ELSE commitEpoch
    /\ pc' = "idle"
    /\ \/ /\ decision' = "aborted"
          /\ UNCHANGED <<state, net>>
       \/ /\ decision' = "committed"
          /\ state' = "Committed"
          /\ net' = net \cup {[type |-> "commit", to |-> p, epoch |-> readEpoch] : p \in touched}
    /\ UNCHANGED <<parts, touched, resolved, tasks, readEpoch, rs, leader, epoch,
                   universe, owner, moves, hist>>

(* Fault variant: a store answer of Aborted does not end commit: the      *)
(* commit RPCs go out anyway.                                              *)
TryCommitIgnoresAbort ==
    /\ pc = "join"
    /\ \A p \in touched : prep[p] = "joined"
    /\ decision' = IF decision = "undecided" THEN "committed" ELSE decision
    /\ commitEpoch' = IF decision = "undecided" THEN readEpoch ELSE commitEpoch
    /\ pc' = "idle"
    /\ state' = "Committed"
    /\ net' = net \cup {[type |-> "commit", to |-> p, epoch |-> readEpoch] : p \in touched}
    /\ UNCHANGED <<parts, touched, resolved, tasks, readEpoch, rs, leader, epoch,
                   universe, owner, moves, hist>>

(* commit: every prepare joined; try_commit_transaction with the epoch    *)
(* read. If the store answers Aborted, commit returns TransactionAborted  *)
(* and leaves the state as it is; otherwise state := Committed and a      *)
(* commit RPC carrying the epoch goes to every participant.               *)
TryCommit ==
    /\ pc = "join"
    /\ \A p \in touched : prep[p] = "joined"
    /\ decision' = IF decision = "undecided" THEN "committed" ELSE decision
    /\ commitEpoch' = IF decision = "undecided" THEN readEpoch ELSE commitEpoch
    /\ pc' = "idle"
    /\ \/ /\ decision' = "aborted"
          /\ UNCHANGED <<state, net>>
       \/ /\ decision' = "committed"
          /\ state' = "Committed"
          /\ net' = net \cup {[type |-> "commit", to |-> p, epoch |-> readEpoch] : p \in touched}
    /\ UNCHANGED <<parts, touched, resolved, tasks, readEpoch, rs, leader, epoch,
                   universe, owner, moves, hist>>

-----------------------------------------------------------------------------
(* The environment.                                                        *)

(* Fault variant: a prepare delivered after the abort prepares again.    *)
ServerPrepareIgnoresAbort(p) ==
    /\ [type |-> "prepare", to |-> p] \in net
    /\ net' = net \ {[type |-> "prepare", to |-> p]}
    /\ rs' = [rs EXCEPT ![p] = IF @ = "committed" THEN @ ELSE "prepared"]
    /\ prep' = [prep EXCEPT ![p] = IF @ = "pending" THEN "ok" ELSE @]
    /\ lease' = [lease EXCEPT ![p] = IF prep[p] = "pending"
                                      THEN <<epoch, epoch + LeaseSpan>> ELSE @]
    /\ UNCHANGED <<state, pc, parts, touched, resolved, readEpoch, decision,
                   commitEpoch, leader, epoch, universe, owner, moves, hist>>

(* A range server handles the prepare RPC of p (RangeManager::prepare):   *)
(* it prepares unless it already knows the transaction aborted, and the   *)
(* task, if still waiting, completes Ok with a PrepareResult whose lease  *)
(* starts at the epoch the server knows.                                  *)
ServerPrepare(p) ==
    /\ [type |-> "prepare", to |-> p] \in net
    /\ net' = net \ {[type |-> "prepare", to |-> p]}
    /\ rs' = [rs EXCEPT ![p] = IF @ = "idle" THEN "prepared" ELSE @]
    /\ prep' = [prep EXCEPT ![p] = IF @ = "pending" THEN "ok" ELSE @]
    /\ lease' = [lease EXCEPT ![p] = IF prep[p] = "pending"
                                      THEN <<epoch, epoch + LeaseSpan>> ELSE @]
    /\ UNCHANGED <<state, pc, parts, touched, resolved, readEpoch, decision,
                   commitEpoch, leader, epoch, universe, owner, moves, hist>>

(* The range server rejects the prepare (a conflict, a lease expired, a   *)
(* transport error): the task completes with a range client error.        *)
PrepareRejected(p) ==
    /\ [type |-> "prepare", to |-> p] \in net
    /\ net' = net \ {[type |-> "prepare", to |-> p]}
    /\ prep' = [prep EXCEPT ![p] = IF @ = "pending" THEN "rpcerr" ELSE @]
    /\ UNCHANGED <<lease, state, pc, parts, touched, resolved, readEpoch, decision,
                   commitEpoch, rs, leader, epoch, universe, owner, moves, hist>>

(* The prepare task itself fails (panic, cancellation): join_next returns *)
(* Err. Its RPC may already be on the wire.                               *)
PrepareTaskFails(p) ==
    /\ prep[p] = "pending"
    /\ prep' = [prep EXCEPT ![p] = "failed"]
    /\ UNCHANGED <<lease, state, pc, parts, touched, resolved, readEpoch, env, hist>>

(* A range server applies a commit RPC (RangeManager::commit).            *)
ServerCommit(m) ==
    /\ m \in net
    /\ m.type = "commit"
    /\ net' = net \ {m}
    /\ rs' = [rs EXCEPT ![m.to] = "committed"]
    /\ UNCHANGED <<coord, decision, commitEpoch, leader, epoch, universe, owner, moves, hist>>

(* A range server applies an abort RPC (RangeManager::abort).             *)
ServerAbort(m) ==
    /\ m \in net
    /\ m.type = "abort"
    /\ net' = net \ {m}
    /\ rs' = [rs EXCEPT ![m.to] = "aborted"]
    /\ UNCHANGED <<coord, decision, commitEpoch, leader, epoch, universe, owner, moves, hist>>

(* A commit or abort RPC is lost; the coordinator ignores the failure.    *)
LoseHint(m) ==
    /\ m \in net
    /\ m.type \in {"commit", "abort"}
    /\ net' = net \ {m}
    /\ UNCHANGED <<coord, decision, commitEpoch, rs, leader, epoch, universe, owner, moves, hist>>

(* The timeout daemon aborts the transaction in the state store.          *)
TimeoutAbort ==
    /\ decision = "undecided"
    /\ decision' = "aborted"
    /\ UNCHANGED <<coord, commitEpoch, rs, net, leader, epoch, universe, owner, moves, hist>>

(* Leadership of a range moves: its leader sequence number grows. Only a *)
(* participant's leader matters: the first read of a range pins whatever  *)
(* leader it finds, so changes before the range is touched are not seen. *)
LeaderChange(p) ==
    /\ p \in touched
    /\ leader[p] < MaxLeaderSeq
    /\ leader' = [leader EXCEPT ![p] = @ + 1]
    /\ UNCHANGED <<coord, decision, commitEpoch, rs, net, epoch, universe, owner, moves, hist>>

(* The cluster epoch advances. Only ticks while the prepares are in       *)
(* flight matter: commit reads the epoch once, and the range servers put  *)
(* the epoch they know into the leases their prepares return.             *)
EpochTick ==
    /\ pc \in {"prepare", "join"}
    /\ epoch < MaxEpoch
    /\ epoch' = epoch + 1
    /\ UNCHANGED <<coord, decision, commitEpoch, rs, net, leader, universe, owner, moves, hist>>

(* A keyspace is dropped, or dropped and recreated under a new id.        *)
RecreateKeyspace(n) ==
    /\ state = "Running"
    /\ moves < MaxMoves
    /\ moves' = moves + 1
    /\ \E id \in (KeyspaceIds \cup {NotFound}) \ {universe[n]} :
          universe' = [universe EXCEPT ![n] = id]
    /\ UNCHANGED <<coord, decision, commitEpoch, rs, net, leader, epoch, owner, hist>>

(* The assignment oracle moves a key to another range.                     *)
Reassign(k) ==
    /\ state = "Running"
    /\ moves < MaxMoves
    /\ moves' = moves + 1
    /\ \E r \in Ranges \ {owner[k]} : owner' = [owner EXCEPT ![k] = r]
    /\ UNCHANGED <<coord, decision, commitEpoch, rs, net, leader, epoch, universe, hist>>

-----------------------------------------------------------------------------
Client ==
    \/ Rejected
    \/ Abort
    \/ CommitStart
    \/ \E n \in Keyspaces, k \in Keys :
          \/ ResolveFails(n, k)
          \/ Get(n, k)
          \/ GetRpcFails(n, k)
          \/ Del(n, k)
          \/ \E v \in Values : Put(n, k, v)

Commit ==
    \/ StoreAbort
    \/ ReadEpoch
    \/ TryCommit
    \/ \E p \in FullRangeIds : JoinPrepare(p)

Environment ==
    \/ TimeoutAbort
    \/ EpochTick
    \/ \E p \in FullRangeIds :
          ServerPrepare(p) \/ PrepareRejected(p) \/ PrepareTaskFails(p) \/ LeaderChange(p)
    \/ \E m \in Msgs : ServerCommit(m) \/ ServerAbort(m) \/ LoseHint(m)
    \/ \E n \in Keyspaces : RecreateKeyspace(n)
    \/ \E k \in Keys : Reassign(k)

Next == Client \/ Commit \/ Environment

(* The coordinator's steps after an await run to completion (the awaited  *)
(* store and epoch reader answer), and a range server                     *)
(* eventually answers a prepare RPC it has been sent.                     *)
Fairness ==
    /\ WF_vars(ReadEpoch)
    /\ WF_vars(TryCommit)
    /\ WF_vars(StoreAbort)
    /\ \A p \in FullRangeIds : WF_vars(JoinPrepare(p)) /\ WF_vars(ServerPrepare(p))

Spec == Init /\ [][Next]_vars /\ Fairness

-----------------------------------------------------------------------------
(* Properties.                                                             *)

(* The transaction is decided aborted: the store aborted it, or the       *)
(* coordinator set Aborted, which (record_abort's comment) it may do on   *)
(* its own since the store can commit only through the coordinator.       *)
AbortDecided ==
    decision = "aborted" \/ (decision = "undecided" /\ state = "Aborted")

(* The RPCs that reach range servers agree with the decision: a range     *)
(* server commits only a transaction the store committed, at the epoch    *)
(* the store recorded, and aborts only one that is decided aborted. This  *)
(* is the ordering of commit (hints after try_commit) and of record_abort *)
(* (hints after state := Aborted, possibly before try_abort).              *)
HintsAgreeWithDecision ==
    /\ \A m \in net : m.type = "commit" => decision = "committed" /\ m.epoch = commitEpoch
    /\ \A m \in net : m.type = "abort" => AbortDecided
    /\ \A p \in FullRangeIds :
          /\ rs[p] = "committed" => decision = "committed"
          /\ rs[p] = "aborted" => AbortDecided

(* The refinement mapping onto AtomicCommit: the outcome is the store's  *)
(* decision, except that the coordinator setting Aborted already decides  *)
(* abort; a range server that has not heard of the transaction is         *)
(* working; the participants are the keys of participant_ranges.          *)
Outcome ==
    IF decision = "committed" THEN "committed"
    ELSE IF AbortDecided THEN "aborted" ELSE "undecided"

RmState == [p \in FullRangeIds |-> IF rs[p] = "idle" THEN "working" ELSE rs[p]]

AC == INSTANCE AtomicCommit
        WITH RM <- FullRangeIds, outcome <- Outcome, rmState <- RmState, parts <- touched

(* The coordinator, the store and the range servers together implement    *)
(* atomic commitment: every step of get/put/del/abort/commit/record_abort *)
(* and of the range servers is a step of AtomicCommit or leaves its       *)
(* state alone.                                                            *)
ImplementsAtomicCommit == AC!ACSpec

(* Two-phase commit: the store records a commit only after every          *)
(* participant range of the transaction has prepared it (commit joins     *)
(* every prepare task before try_commit_transaction).                     *)
CommitRequiresAllPrepared ==
    decision = "committed" => \A p \in touched : rs[p] \in {"prepared", "committed"}

(* The coordinator's own state never contradicts the store: Committed     *)
(* only when the store committed at the epoch commit read, never Running  *)
(* or Aborted when the store committed, and Aborted after record_abort    *)
(* returned only when the store aborted.                                  *)
CoordinatorAgreesWithStore ==
    /\ state = "Committed" => decision = "committed" /\ commitEpoch = readEpoch
    /\ decision = "committed" => state \in {"Preparing", "Committed"}
    /\ state = "Aborted" /\ pc = "idle" => decision = "aborted"

(* record_abort's panic ("transaction committed without coordinator      *)
(* consent!") is unreachable: once record_abort has set Aborted and sent  *)
(* the abort RPCs, the store never answers Committed, whichever of        *)
(* get, abort, a failed prepare or the timeout daemon got there first.    *)
StoreAbortNeverPanics ==
    [][pc = "aborting" => pc' # "panicked"]_vars

(* Leader pinning in get: as long as the transaction is not aborted, every *)
(* read RPC of a participant range was answered by the one leader whose   *)
(* sequence number the participant pinned.                                 *)
ReadsFromPinnedLeader ==
    state # "Aborted" =>
        \A p \in FullRangeIds : seen[p] \subseteq {lsn[p]}

(* resolve_keyspace caches a name's id for the life of the transaction:   *)
(* every participant range belongs to the keyspace id some name is        *)
(* resolved to, even when the universe drops and recreates keyspaces.     *)
KeyspaceStable ==
    \A p \in touched : \E n \in Keyspaces : resolved[n] = p[1]

(* Read-your-writes (spec 8, property 4): a get of a key the client put or *)
(* deleted in this transaction returns that put or delete.                *)
ReadYourWrites ==
    lastGet # NoRead /\ intent[lastGet.ks][lastGet.key] # NoVal
        => lastGet.val = intent[lastGet.ks][lastGet.key]

(* Epoch-lease revalidation (spec 4.5.3 step 5): the store commits only   *)
(* at an epoch that the lease returned by every participant's prepare     *)
(* covers.                                                                 *)
LeaseCoversCommitEpoch ==
    decision = "committed" =>
        \A p \in touched : lease[p][1] <= commitEpoch /\ commitEpoch <= lease[p][2]

(* Preparing is not a state a client sees (spec 3): once a call returns,  *)
(* the transaction is Running, Aborted or Committed.                      *)
NoPreparingAtRest ==
    pc = "idle" => state # "Preparing"

(* commit's join loop never panics: a prepare that a range server        *)
(* rejects with a range-client error is handled like a failed task, by    *)
(* record_abort and TransactionAborted (spec 4.5.3 step 4, 7, scenario 5). *)
PrepareErrorNoPanic ==
    [][pc = "join" => pc' # "panicked"]_vars

(* A commit call returns: once the prepares are sent, commit eventually   *)
(* returns to its caller (or the process panics).                         *)
CommitTerminates ==
    pc \in {"prepare", "join"} ~> pc \in {"idle", "panicked"}

=============================================================================
