----------------------------- MODULE MCProgram -----------------------------
(* Files that meet every branch of the loader; pages of two cells.          *)
EXTENDS Program

Seg(load, vaddr, data, memsz) ==
    [load |-> load, vaddr |-> vaddr, data |-> data, memsz |-> memsz]
Rel(off, type, sym, addend) ==
    [off |-> off, type |-> type, sym |-> sym, addend |-> addend, ifunc |-> 77]
Sec(type, info, off, rels) == [type |-> type, info |-> info, off |-> off, rels |-> rels]

Exec(segs, secs) ==
    [magic |-> "ELF", class |-> 64, data |-> "LSB", machine |-> "AMD64",
     version |-> 1, ident_version |-> 1, type |-> "EXEC", entry |-> 3,
     segs |-> segs, secs |-> secs, body |-> <<>>]

\* Cells 3..4 from the file, 5..6 cleared, which takes three pages; one cell
\* further up.
Two == <<Seg(FALSE, 0, <<>>, 1), Seg(TRUE, 3, <<11, 40>>, 4), Seg(TRUE, 9, <<13>>, 1)>>
\* The second segment starts in the last page of the first.
Shared == <<Seg(TRUE, 2, <<11, 12, 13>>, 3), Seg(TRUE, 5, <<14>>, 1)>>

Plainest == Exec(Two, <<>>)
Relocations ==
    Exec(Two, <<Sec("other", 0, 0, <<>>),
                Sec("RELA", 0, 0, <<Rel(3, "RELATIVE", 0, 5), Rel(5, "64", 0, 6)>>),
                Sec("REL", 0, 0, <<Rel(4, "PC32", 0, 0), Rel(9, "IRELATIVE", 0, 0)>>)>>)
With(r) == Exec(Two, <<Sec("RELA", 0, 0, <<Rel(3, "NONE", 0, 0), r>>)>>)

MCFiles ==
    { Plainest, Relocations, Exec(Shared, <<>>),
      [Plainest EXCEPT !.magic = "MZ"], [Plainest EXCEPT !.class = 32],
      [Plainest EXCEPT !.data = "MSB"], [Plainest EXCEPT !.machine = "386"],
      [Plainest EXCEPT !.version = 2], [Plainest EXCEPT !.ident_version = 0],
      [Plainest EXCEPT !.type = "DYN"], [Plainest EXCEPT !.entry = 0],
      With(Rel(4, "GOT", 0, 0)),    \* a type the loader does not know
      With(Rel(4, "64", 1, 2)),     \* a symbol
      With(Rel(0, "64", 0, 2)),     \* an address that is not mapped
      Exec(Two, <<Sec("RELA", 1, 0, <<Rel(3, "64", 0, 2)>>)>>),
      [Exec(Two, <<Sec("other", 0, 1, <<>>), Sec("REL", 0, 0, <<Rel(1, "64", 0, 0)>>)>>)
         EXCEPT !.type = "REL", !.body = <<8, 9>>] }

MCUndef == {BUF, ELF_LOAD_ERR, ELF_REL_ERR}
MCBuffers == {<<>>, <<"x", "y", NL>>, <<NL, "y", "x", "x", "y">>}
=============================================================================
