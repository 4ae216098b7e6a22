------------------------------ MODULE MCWorkflow ------------------------------
(***************************************************************************)
(* Two small workflows for TLC.  Both take a transactional step with a     *)
(* compensation; the first then meets a changed behaviour, a timer and a   *)
(* signal, the second two more steps with a compensation between them.     *)
(***************************************************************************)
EXTENDS Workflow

O(op, name) == [op |-> op, name |-> name, since |-> "none"]

Order == <<O("tx", "reserve"), O("compensate", "release"),
           O("version", "receipts"),
           [op |-> "step", name |-> "print", since |-> "receipts"],
           O("sleep", "grace"),
           O("signal", "payment"), O("compensate", "refund"),
           O("step", "ship")>>

Payment == <<O("step", "charge"), O("compensate", "refund"),
             O("step", "ship"), O("step", "email")>>

===============================================================================
