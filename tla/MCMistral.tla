----------------------------- MODULE MCMistral -----------------------------
(***************************************************************************)
(* A loader of twelve bytes, linked at address 32 behind one byte of file  *)
(* header, and payloads of several sizes: with an entry tag in front of    *)
(* the address tag, two address tags, a header longer than the loader's,   *)
(* in a file that ends too early, without an entry, or with a tag of size  *)
(* 0.  Command lines with every option in its right and wrong uses.        *)
(***************************************************************************)
EXTENDS Mistral

Hkaddr(header, load, end, bss) ==
    [header_addr |-> header, load_addr |-> load, load_end_addr |-> end,
     bss_end_addr |-> bss]

Address(fields) ==
    [type |-> "address", size |-> 3, shift |-> fields.load_addr - fields.header_addr,
     fields |-> fields]

Entry(addr) ==
    [type |-> "entry", size |-> 2, shift |-> 0, fields |-> [entry_addr |-> addr]]

Other == [type |-> "other", size |-> 1, shift |-> 0, fields |-> [none |-> 0]]

\* The loader's header is at byte 4 of its file, as long as two tags take.
MCLoaderFile ==
    [mistral |-> 2, header |-> 4, length |-> 8, size |-> 13,
     tags |-> <<Address(Hkaddr(35, 32, 44, 44)), Entry(32)>>]

\* A payload that is loaded at 16 from byte 1 of its file on.
Kernel(header, length, size, file, tags) ==
    [mistral |-> -1, header |-> header, length |-> length, size |-> file,
     tags |-> tags]

Loads(header, size) == Address(Hkaddr(15 + header, 16, 16 + size, 18 + size))

Plain  == Kernel(2, 8, 9, 12, <<Loads(2, 9), Entry(18)>>)
Turned == Kernel(1, 8, 8, 9, <<Entry(16), Loads(1, 8)>>)
Twice  == Kernel(1, 12, 11, 13, <<Address(Hkaddr(3, 3, 9, 9)), Entry(17), Loads(1, 12)>>)
Long   == Kernel(1, 10, 9, 10, <<Other, Loads(1, 9), Entry(17)>>)
Cut    == Kernel(2, 8, 9, 7, <<Loads(2, 9), Entry(18)>>)
NoEntry == Kernel(1, 6, 9, 12, <<Loads(1, 9), Entry(18)>>)
Headless == Kernel(-1, 0, 0, 3, <<>>)
Endless == Kernel(2, 8, 9, 12, <<Entry(18), [Other EXCEPT !.size = 0]>>)
Empty  == Kernel(1, 0, 9, 12, <<>>)

\* Linked in front of where its file begins, or to end in front of its beginning.
Before == Kernel(1, 8, 8, 9, <<Entry(16), Address(Hkaddr(20, 16, 24, 26))>>)
Backward == [MCLoaderFile EXCEPT !.tags[1] = Address(Hkaddr(35, 32, 30, 44))]

Option(name, arg) == [name |-> name, arg |-> arg]

Machine(opts, operand, kernel) ==
    [options |-> opts, operand |-> operand, loaders |-> {"b", "c"},
     disk |-> ("kernel" :> kernel @@ "b" :> MCLoaderFile @@ "c" :> Headless)]

Relinked == [Machine(<<>>, "kernel", Plain) EXCEPT !.disk["b"] = Backward]

CommandLines ==
    {<<Option("h", None)>>, <<Option("s", None), Option("V", None)>>,
     <<Option("s", None), Option("s", None)>>,
     <<Option("a", 100), Option("?", None), Option("h", None)>>,
     <<Option("a", Malformed)>>, <<Option("a", 100), Option("a", 64)>>,
     <<Option("o", "x"), Option("o", "y"), Option("h", None)>>,
     <<Option("C", <<"a">>)>>, <<Option("C", <<>>)>>,
     <<Option("C", <<"a", "c", "b">>)>>,
     <<Option("C", <<"b">>), Option("C", <<"b">>)>>,
     <<Option("a", 100), Option("o", "image"), Option("s", None)>>}

MCMachines ==
    {Machine(<<>>, "kernel", kernel) :
        kernel \in {Plain, Turned, Twice, Long, Cut, NoEntry, Headless, Endless, Empty,
                   Before}}
    \union {Machine(opts, "kernel", Plain) : opts \in CommandLines}
    \union {Machine(<<Option("o", name)>>, "kernel", Turned) : name \in {"kernel", "b"}}
    \union {Machine(<<>>, None, Plain), Relinked}

\* Every file on a disk.
MCInputs == UNION {{m.disk[name] : name \in DOMAIN m.disk} : m \in MCMachines}

MCDefaultPath == <<"a", "b", "c">>
=============================================================================
