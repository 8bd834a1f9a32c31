------------------------------ MODULE AuditLog ------------------------------
(***************************************************************************)
(* What the enforcement event log promises its readers (the audit commands *)
(* `mati history --enforcement`, `mati verify-chain`, `mati doctor`): a    *)
(* list of events linked by hashes, which grows only at its head.          *)
(***************************************************************************)
EXTENDS Naturals

VARIABLES
    entries,   \* the events, each with its hash and its predecessor's hash
    head       \* the hash of the newest event, 0 when there is none

Init == entries = {} /\ head = 0

Append(id) ==
    /\ id # 0
    /\ \A e \in entries : e.id # id
    /\ entries' = entries \cup {[id |-> id, prev |-> head]}
    /\ head' = id

Next == Append(head')

Spec == Init /\ [][Next]_<<entries, head>>
=============================================================================
