----------------------------- MODULE MCLogWriter ------------------------------
(* Small instances of LogWriter for TLC. *)
EXTENDS LogWriter

CONSTANTS l1, l2, l3, ann, bob

\* The third request is another owner's.
MCOwnerOf == [l \in Logs |-> IF l = l3 THEN bob ELSE ann]

\* Two bodies, one body, none.
MCSizes == [l \in Logs |-> CASE l = l1 -> <<1, 2>> [] l = l2 -> <<2>> [] l = l3 -> <<>>]
===============================================================================
