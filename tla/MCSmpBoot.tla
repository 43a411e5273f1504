----------------------------- MODULE MCSmpBoot -----------------------------
(* Machines with one application processor and the lists a BIOS may have.  *)
EXTENDS SmpBoot

Proc(id, bsp) == [kind |-> "proc", id |-> id, bsp |-> bsp]
Other(kind) == [kind |-> kind]
IoApic(e) == [kind |-> "ioapic", enabled |-> e]

Machine(m, f, e) == [multiboot |-> m, found |-> f, entries |-> e]

MCFirmware ==
    { Machine(FALSE, "table", <<Proc(1, FALSE)>>),
      Machine(TRUE, "nothing", <<>>),
      Machine(TRUE, "default", <<>>),
      Machine(TRUE, "table", <<>>),
      Machine(TRUE, "table", <<Proc(0, TRUE), Proc(1, FALSE), Other("bus"),
                               IoApic(TRUE), Other("intrsrc")>>),
      Machine(TRUE, "table", <<Proc(1, FALSE), Proc(0, FALSE), IoApic(FALSE)>>),
      Machine(TRUE, "table", <<Proc(0, TRUE), Proc(7, FALSE), Proc(1, FALSE)>>),
      Machine(TRUE, "table", <<Proc(0, TRUE), Proc(1, TRUE)>>),
      Machine(TRUE, "table", <<Proc(0, TRUE), Other("unknown"), Proc(1, FALSE)>>) }
=============================================================================
