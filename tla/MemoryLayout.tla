------------------------------ MODULE MemoryLayout ------------------------------
(***************************************************************************)
(* Regions of addresses and the checks the kernel makes on them: the       *)
(* report of lesson 4 (src/memory.rs), AddressRange (src/process.rs) and   *)
(* the stacks of a user process (src/user.rs).                             *)
(***************************************************************************)
EXTENDS Integers

CONSTANTS
    BootStackBytes,   \* 64 KiB in the code
    StackBytes,       \* 16 KiB in the code
    SpAlign           \* the 16 bytes to which a stack pointer is aligned

ASSUME LayoutAssumption ==
    /\ BootStackBytes \in Nat \ {0} /\ SpAlign \in Nat \ {0}
    /\ StackBytes \in Nat /\ StackBytes >= SpAlign

Address == Nat

(* Half open: [start, end).                                                *)
Region == [start : Address, end : Address]

Span(start, end) == [start |-> start, end |-> end]

IsWellFormed(r) == r.start <= r.end

(* saturating_sub                                                          *)
Size(r) == IF r.end <= r.start THEN 0 ELSE r.end - r.start

Contains(r, address) == r.start <= address /\ address < r.end

Overlaps(left, right) == left.start < right.end /\ right.start < left.end

Parts == {"text", "rodata", "data", "boot_stack", "bss"}

Layout ==
    [text : Region, rodata : Region, data : Region, boot_stack : Region, bss : Region]

(* Mutant: each part begins behind the beginning of the one before.        *)
StartsInOrder(l) ==
    /\ l.text.start <= l.rodata.start
    /\ l.rodata.start <= l.data.start
    /\ l.data.start <= l.boot_stack.start
    /\ l.boot_stack.start <= l.bss.start

InOrder(l) ==
    /\ l.text.end <= l.rodata.start
    /\ l.rodata.end <= l.data.start
    /\ l.data.end <= l.boot_stack.start
    /\ l.boot_stack.end <= l.bss.start

(* sp may be at the top of the stack, where nothing has been pushed yet.   *)
SpInside(l, sp) == l.boot_stack.start <= sp /\ sp <= l.boot_stack.end

(* The report panics unless all of this holds.                             *)
LayoutAccepted(l, entry, sp) ==
    /\ \A p \in Parts : IsWellFormed(l[p])
    /\ InOrder(l)
    /\ Size(l.boot_stack) = BootStackBytes
    /\ ~Overlaps(l.boot_stack, l.bss)
    /\ Contains(l.text, entry)
    /\ SpInside(l, sp)

(* AddressRange::new() refuses an empty range; validate_runtime_ranges().  *)
RuntimeRangesAccepted(user, trap, boot) ==
    /\ \A r \in {user, trap, boot} : r.start < r.end
    /\ Size(user) = StackBytes /\ Size(trap) = StackBytes
    /\ ~Overlaps(user, trap) /\ ~Overlaps(user, boot) /\ ~Overlaps(trap, boot)

(* Mutant: the sp is the end of the stack, which is outside.               *)
SpAtEnd(user) == user.end

InitialUserSp(user) == user.end - SpAlign

StackPointersAccepted(user, trap) ==
    /\ InitialUserSp(user) % SpAlign = 0
    /\ Contains(user, InitialUserSp(user))
    /\ trap.end % SpAlign = 0
================================================================================
