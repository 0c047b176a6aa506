----------------------------- MODULE BlockDevice -----------------------------
(***************************************************************************)
(* What a blockdev_t (kernel/src/blockdev.h) promises the file system.     *)
(* A call moves its sectors one by one and in order between its buffer and *)
(* the disk; it answers 0 when all have been moved and -1 at any time; no  *)
(* other sector changes.  When the power fails a sector holds something it *)
(* held since the last flush that answered 0.                              *)
(***************************************************************************)
EXTENDS Integers, Sequences

CONSTANT Capacity       \* sectors of the disk

VARIABLES content,      \* the disk
          held,         \* what each sector has held since the last flush
          op,           \* "none", "read", "write" or "flush"
          lba, count,   \* arguments of the call
          data,         \* the buffer that is written
          buffer,       \* what has been read
          moved,        \* sectors moved so far
          ret           \* the answer of the last call

vars == <<content, held, op, lba, count, data, buffer, moved, ret>>

Init ==
  /\ held = [l \in 0 .. Capacity - 1 |-> {content[l]}]
  /\ op = "none"

Call ==
  /\ op = "none" /\ op' \in {"read", "write", "flush"}
  /\ moved' = 0 /\ buffer' = <<>>
  /\ UNCHANGED <<content, held>>

Move ==
  /\ moved < count /\ lba + moved < Capacity
  /\ moved' = moved + 1
  /\ \/ /\ op = "read"
        /\ buffer' = Append(buffer, content[lba + moved])
        /\ UNCHANGED <<content, held>>
     \/ /\ op = "write"
        /\ content' = [content EXCEPT ![lba + moved] = data[moved + 1]]
        /\ held' = [held EXCEPT ![lba + moved] = @ \cup {data[moved + 1]}]
        /\ UNCHANGED buffer
  /\ UNCHANGED <<op, lba, count, data, ret>>

Succeed ==
  /\ op # "none" /\ op' = "none"
  /\ ret' = 0
  /\ op # "flush" => moved = count /\ UNCHANGED held
  /\ op = "flush" => held' = [l \in 0 .. Capacity - 1 |-> {content[l]}]
  /\ UNCHANGED content

Fail == op # "none" /\ op' = "none" /\ ret' = -1 /\ UNCHANGED <<content, held>>

PowerLoss ==
  /\ op' = "none"
  /\ \A l \in 0 .. Capacity - 1 : content'[l] \in held[l]
  /\ UNCHANGED held

Next == Call \/ Move \/ Succeed \/ Fail \/ PowerLoss

Spec == Init /\ [][Next]_vars

=============================================================================
