--------------------------- MODULE OneShotApproval --------------------------
(***************************************************************************)
(* What the gate promises about approvals, without memory, tables, tokens  *)
(* or faults: an approval is given by an operator, is spent at most once,  *)
(* and only spending it can make its action happen, in the same step or    *)
(* never ("at-most-once approval-consumption semantics").                  *)
(***************************************************************************)
CONSTANT Approvals

VARIABLES
  given,     \* approvals operators gave
  spent,     \* approvals handed to the backend
  performed  \* approvals whose action changed the mailbox

Init == given = {} /\ spent = {} /\ performed = {}

Give(a) ==
  /\ a \notin given
  /\ given' = given \cup {a}
  /\ UNCHANGED <<spent, performed>>

Spend(a) ==
  /\ a \in given \ spent
  /\ spent' = spent \cup {a}
  /\ performed' \in {performed, performed \cup {a}}
  /\ UNCHANGED given

Next == \E a \in Approvals : Give(a) \/ Spend(a)

Spec == Init /\ [][Next]_<<given, spent, performed>>
=============================================================================
