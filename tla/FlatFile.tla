------------------------------ MODULE FlatFile ------------------------------
(***************************************************************************)
(* What the file calls promise: every file is one array of bytes with a     *)
(* size.  Blocks, pointer blocks and allocation are hidden; what remains of *)
(* them is backed, the length for which there is storage, and that a write  *)
(* may be shorter than asked for, or fail.                                  *)
(*                                                                          *)
(* What no read can return is left open: the bytes past the end of the file *)
(* may be kept or cleared by every call that changes it, and the size may   *)
(* or may not exceed the storage.  The documentation of the format promises *)
(* more in both cases than the code keeps: HolesZero of module FileIO is    *)
(* what it says of the bytes.                                               *)
(***************************************************************************)
EXTENDS Integers, Sequences, FiniteSetsExt

CONSTANTS File, Handle,
          Byte,     \* values of a byte, 0 among them
          Limit,    \* the longest file
          Offset,   \* offsets and sizes a file can have
          Goal,     \* offsets callers ask for by number
          Length    \* lengths they ask for

VARIABLES bytes,    \* file -> position -> byte
          size,     \* file -> its size
          backed,   \* file -> length of its storage
          cursor,   \* handle -> set of the file and offset it has, {} when closed
          answer    \* of the last read or write

vars == <<bytes, size, backed, cursor, answer>>

Position == 0 .. Limit - 1
Failed == <<-1>>

Init == /\ bytes = [f \in File |-> [p \in Position |-> 0]]
        /\ size = [f \in File |-> 0]
        /\ backed = [f \in File |-> 0]
        /\ cursor = [h \in Handle |-> {}]
        /\ answer = <<>>

Moved(h, f, at) == cursor' = [cursor EXCEPT ![h] = {<<f, at>>}]

Open(h, f) == /\ cursor[h] = {} /\ Moved(h, f, 0) /\ answer' = <<>>
              /\ UNCHANGED <<bytes, size, backed>>
Close(h) == /\ cursor' = [cursor EXCEPT ![h] = {}] /\ answer' = <<>>
            /\ UNCHANGED <<bytes, size, backed>>
Seek(h, f) == /\ answer' = <<>>
              /\ \E at \in Offset : Moved(h, f, at)
              /\ UNCHANGED <<bytes, size, backed>>

(* A read returns the bytes up to the end of the file.  It fails exactly    *)
(* when the size promises more than there is storage for.                   *)
Read(h, f, at, n) ==
  LET len == Max({0, Min({n, size[f] - at})})
      ok  == size[f] <= backed[f]
  IN  /\ Moved(h, f, IF ok THEN at + len ELSE at)
      /\ answer' = IF ok THEN [k \in 1 .. len |-> bytes[f][at + k - 1]] ELSE Failed
      /\ UNCHANGED <<size, backed, bytes>>

(* The bytes b of a file with the positions of Z cleared.                   *)
Cleared(b, Z) == [p \in Position |-> IF p \in Z THEN 0 ELSE b[p]]

(* A write stores as much as the storage then reaches, and no other byte    *)
(* within a file changes: not one before, after or in another file.  The    *)
(* size covers what was written.                                            *)
Write(h, f, at, n, v) ==
  /\ backed' \in {[backed EXCEPT ![f] = b] : b \in backed[f] .. Limit}
  /\ LET w == Max({0, Min({n, backed'[f] - at})})
     IN  /\ answer' = <<w>>
         /\ Moved(h, f, at + w)
         /\ \/ size' = [size EXCEPT ![f] = Max({@, at + w})]
            \/ w = 0 /\ size' = size
         /\ \E Z \in SUBSET {p \in Position : p >= size[f]} :
              bytes' = [bytes EXCEPT ![f] = [p \in Position |->
                         IF at <= p /\ p < at + w THEN v ELSE Cleared(@, Z)[p]]]
WriteFails(h, f, at) == /\ answer' = Failed /\ Moved(h, f, at)
                        /\ UNCHANGED <<size, backed, bytes>>

(* A new size s keeps the bytes below it, and the storage they have.        *)
Resize(f) ==
  /\ answer' = <<>> /\ UNCHANGED cursor
  /\ \E s \in Offset :
       /\ size' = [size EXCEPT ![f] = s]
       /\ backed' \in {[backed EXCEPT ![f] = b] :
                         b \in {b \in 0 .. Limit : b >= s \/ b >= backed[f]}}
       /\ \E Z \in SUBSET {p \in Position : p >= s \/ p >= size[f]} :
            bytes' = [bytes EXCEPT ![f] = Cleared(@, Z)]

(* The offset of a call: the handle's, or one it is given (the FUSE calls). *)
At(h, f) == Goal \cup {at \in Offset : <<f, at>> \in cursor[h]}

Next == \/ \E h \in Handle, f \in File :
             \/ Open(h, f)
             \/ Close(h)
             \/ /\ \E c \in cursor[h] : c[1] = f
                /\ \/ Seek(h, f)
                   \/ \E at \in At(h, f) :
                        \/ \E n \in Length : Read(h, f, at, n)
                        \/ \E n \in Length, v \in Byte : Write(h, f, at, n, v)
                        \/ WriteFails(h, f, at)
        \/ \E f \in File : Resize(f)

Spec == Init /\ [][Next]_vars
=============================================================================
