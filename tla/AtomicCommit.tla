---------------------------- MODULE AtomicCommit ----------------------------
(***************************************************************************)
(* What the coordinator promises the range servers of one transaction:    *)
(* atomic commitment. The transaction has one outcome, decided once; it   *)
(* is committed only when every participant range has prepared; a range  *)
(* learns only the outcome that was decided. Ranges are enlisted as the  *)
(* transaction runs, and a range may prepare (or learn of an abort) at   *)
(* any time. Transaction refines this module (TransactionRefinement).    *)
(***************************************************************************)
EXTENDS TLAPS

CONSTANT RM         \* the ranges that can take part in the transaction

VARIABLES
    outcome,        \* "undecided", "committed" or "aborted"
    rmState,        \* per range: "working", "prepared", "committed", "aborted"
    parts           \* the ranges enlisted in the transaction

acVars == <<outcome, rmState, parts>>

ACTypeOK ==
    /\ outcome \in {"undecided", "committed", "aborted"}
    /\ rmState \in [RM -> {"working", "prepared", "committed", "aborted"}]
    /\ parts \subseteq RM

ACInit ==
    /\ outcome = "undecided"
    /\ rmState = [r \in RM |-> "working"]
    /\ parts = {}

(* The transaction touches more ranges; not once it is committed.         *)
Enlist(P) ==
    /\ outcome # "committed"
    /\ parts' = parts \cup P
    /\ UNCHANGED <<outcome, rmState>>

(* A participant range votes to commit.                                    *)
Prepare(r) ==
    /\ r \in parts
    /\ rmState[r] = "working"
    /\ rmState' = [rmState EXCEPT ![r] = "prepared"]
    /\ UNCHANGED <<outcome, parts>>

(* Commit is decided once every participant has prepared.                 *)
DecideCommit ==
    /\ outcome = "undecided"
    /\ \A r \in parts : rmState[r] = "prepared"
    /\ outcome' = "committed"
    /\ UNCHANGED <<rmState, parts>>

(* Abort is decided, possibly by the step that enlists the ranges P.      *)
DecideAbort(P) ==
    /\ outcome = "undecided"
    /\ outcome' = "aborted"
    /\ parts' = parts \cup P
    /\ UNCHANGED rmState

(* A prepared range learns that the transaction committed.                *)
LearnCommit(r) ==
    /\ outcome = "committed"
    /\ rmState[r] = "prepared"
    /\ rmState' = [rmState EXCEPT ![r] = "committed"]
    /\ UNCHANGED <<outcome, parts>>

(* A range that has not committed learns that the transaction aborted.   *)
LearnAbort(r) ==
    /\ outcome = "aborted"
    /\ rmState[r] \in {"working", "prepared"}
    /\ rmState' = [rmState EXCEPT ![r] = "aborted"]
    /\ UNCHANGED <<outcome, parts>>

ACNext ==
    \/ DecideCommit
    \/ \E P \in SUBSET RM : Enlist(P) \/ DecideAbort(P)
    \/ \E r \in RM : Prepare(r) \/ LearnCommit(r) \/ LearnAbort(r)

ACSpec == ACInit /\ [][ACNext]_acVars

(* Atomicity: no range commits while another aborts, a range commits only *)
(* a committed transaction and aborts only an aborted one, and a          *)
(* committed transaction has every participant prepared or committed.    *)
ACConsistent ==
    /\ \A r \in RM : rmState[r] = "committed" => outcome = "committed"
    /\ \A r \in RM : rmState[r] = "aborted" => outcome = "aborted"
    /\ outcome = "committed" => \A r \in parts : rmState[r] \in {"prepared", "committed"}

ACInv == ACTypeOK /\ ACConsistent

(* The abstract protocol is atomic: ACConsistent holds in every state.    *)
THEOREM ACSafe == ACSpec => []ACInv
<1>1. ACInit => ACInv
    BY DEF ACInit, ACInv, ACTypeOK, ACConsistent
<1>2. ACInv /\ [ACNext]_acVars => ACInv'
    <2> SUFFICES ASSUME ACInv, [ACNext]_acVars PROVE ACInv'
        OBVIOUS
    <2>1. CASE DecideCommit
        BY <2>1 DEF DecideCommit, ACInv, ACTypeOK, ACConsistent
    <2>2. ASSUME NEW P \in SUBSET RM, Enlist(P) PROVE ACInv'
        BY <2>2 DEF Enlist, ACInv, ACTypeOK, ACConsistent
    <2>3. ASSUME NEW P \in SUBSET RM, DecideAbort(P) PROVE ACInv'
        BY <2>3 DEF DecideAbort, ACInv, ACTypeOK, ACConsistent
    <2>4. ASSUME NEW r \in RM, Prepare(r) PROVE ACInv'
        BY <2>4 DEF Prepare, ACInv, ACTypeOK, ACConsistent
    <2>5. ASSUME NEW r \in RM, LearnCommit(r) PROVE ACInv'
        BY <2>5 DEF LearnCommit, ACInv, ACTypeOK, ACConsistent
    <2>6. ASSUME NEW r \in RM, LearnAbort(r) PROVE ACInv'
        BY <2>6 DEF LearnAbort, ACInv, ACTypeOK, ACConsistent
    <2>7. CASE UNCHANGED acVars
        BY <2>7 DEF acVars, ACInv, ACTypeOK, ACConsistent
    <2>8. QED
        BY <2>1, <2>2, <2>3, <2>4, <2>5, <2>6, <2>7 DEF ACNext
<1>3. QED
    BY <1>1, <1>2, PTL DEF ACSpec
=============================================================================
