------------------------------ MODULE NorStore ------------------------------
(***************************************************************************)
(* What the users of the flash rely on: one operation at a time changes    *)
(* bytes of its own range only, each of them to the value the operation    *)
(* asks for; it reports success only when all of them have got there; an   *)
(* operation that is refused changes nothing.  A reset may end it earlier, *)
(* and the part of it that is under way then still takes effect.           *)
(***************************************************************************)
EXTENDS Integers

VARIABLES mem,  \* contents, a function from addresses to bytes
          op,   \* operation under way: the value each byte of its range is to get
          ret   \* result of the last operation

vars == <<mem, op, ret>>

NoOp == <<>>
Erased == 1
Byte == {0, Erased}

\* Programming only clears bits; a target of Erased + 1 stands for erasing.
Erase == 2
Target(b, want) == IF want = Erase THEN Erased ELSE IF want < b THEN want ELSE b

Begin ==
  /\ op = NoOp /\ op' # NoOp /\ DOMAIN op' \subseteq DOMAIN mem
  /\ ret' = "none" /\ UNCHANGED mem

\* Bytes of the range get their value, in any order and number.
Takes ==
  /\ DOMAIN mem' = DOMAIN mem
  /\ \A a \in DOMAIN mem :
       \/ mem'[a] = mem[a]
       \/ a \in DOMAIN op /\ mem'[a] = Target(mem[a], op[a])

Complete(m) == \A a \in DOMAIN op : m[a] = Target(m[a], op[a])

Proceed == op # NoOp /\ Takes /\ op' = op /\ ret' = ret

\* A byte that could not get the value that was to be written, since it was not
\* erased, is found by reading back.
Return ==
  /\ op # NoOp /\ Complete(mem) /\ UNCHANGED mem /\ op' = NoOp
  /\ ret' = IF \A a \in DOMAIN op : op[a] \in {Erase, mem[a]} THEN "ok" ELSE "differs"

\* After a reset what the flash was doing goes on; a power cut ends that, too.
Abandon ==
  /\ op # NoOp /\ Takes /\ ret' = "none"
  /\ \A a \in DOMAIN op' : a \in DOMAIN op /\ op'[a] = op[a]

\* Refusals, and calls that have nothing to do.
Trivial == op = NoOp /\ op' = NoOp /\ UNCHANGED mem /\ ret' \in {"none", "ok", "refused"}

Init == mem \in [DOMAIN mem -> Byte] /\ op = NoOp /\ ret = "none"

Next == Begin \/ Proceed \/ Return \/ Abandon \/ Trivial

Spec == Init /\ [][Next]_vars
=============================================================================
