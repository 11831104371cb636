--------------------------- MODULE WriteBackStore ---------------------------
(***************************************************************************)
(* What a write-back cache over a BlockDevice promises its callers: every   *)
(* read returns the last value written to the block, whatever has been      *)
(* evicted meanwhile; a successful flush makes the persistent blocks equal  *)
(* to the visible ones; only a restart may bring back an older value, and   *)
(* then exactly the persistent one.  Write-back is internal: any operation  *)
(* may make some blocks persistent on the way.  An operation that fails     *)
(* leaves the visible contents alone; it may spoil the persistent copy of   *)
(* the one block it was writing back.                                       *)
(***************************************************************************)
CONSTANTS Addr,     \* block addresses the callers use
          Data      \* contents of a block

VARIABLES store,      \* what a read returns, per block
          persistent, \* what survives a restart, per block
          res         \* the last operation and its outcome

vars == <<store, persistent, res>>

Init == /\ store \in [Addr -> Data]
        /\ persistent = store
        /\ res = [op |-> "new", ok |-> TRUE]

(* Persistent contents after writing back a set of blocks and no other.     *)
WrittenBack(W) == [a \in Addr |-> IF a \in W THEN store[a] ELSE persistent[a]]

(* The outcome of an operation that may write blocks back on the way.       *)
WriteBack == \E W \in SUBSET Addr : persistent' = WrittenBack(W)

(* A write-back that stops at a block f, whose persistent copy is then lost. *)
FailedWriteBack ==
  \E W \in SUBSET Addr :
    \/ persistent' = WrittenBack(W)
    \/ \E f \in Addr, d \in Data :
         /\ f \notin W
         /\ persistent' = [WrittenBack(W) EXCEPT ![f] = d]

Read(b) == /\ res' = [op |-> "read", ok |-> TRUE, block |-> b, data |-> store[b]]
           /\ WriteBack
           /\ UNCHANGED store

Write(b, d) == /\ res' = [op |-> "write", ok |-> TRUE, block |-> b]
               /\ WriteBack
               /\ store' = [store EXCEPT ![b] = d]

Sync(op) == /\ res' = [op |-> op, ok |-> TRUE]
            /\ persistent' = store
            /\ UNCHANGED store

Fail(op) == /\ res' = [op |-> op, ok |-> FALSE]
            /\ FailedWriteBack
            /\ UNCHANGED store

Save == /\ res' = [op |-> "save", ok |-> TRUE, image |-> persistent]
        /\ UNCHANGED <<store, persistent>>

(* The device is resized and keeps every block that callers use.            *)
Resize(done) == /\ res' = [op |-> "resize", ok |-> done]
                /\ UNCHANGED <<store, persistent>>

Restart == /\ res' = [op |-> "new", ok |-> TRUE]
           /\ store' = persistent
           /\ UNCHANGED persistent

Next == \/ \E b \in Addr : Read(b) \/ \E d \in Data : Write(b, d)
        \/ \E op \in {"flush", "drop"} : Sync(op)
        \/ \E op \in {"read", "write", "flush", "drop", "panic"} : Fail(op)
        \/ Save
        \/ \E done \in BOOLEAN : Resize(done)
        \/ Restart

Spec == Init /\ [][Next]_vars
=============================================================================
