------------------------------ MODULE Mistral ------------------------------
(***************************************************************************)
(* The program mistral (mistral/main.c, find_loader of mistral/loader.c):  *)
(* it reads its options, looks for the loader in a list of directories,    *)
(* parses the loader's file and the payload's, and writes the image.       *)
(*                                                                         *)
(* denied is a history variable: whether a file could not be opened or     *)
(* read.                                                                   *)
(***************************************************************************)
EXTENDS ImageBuilder, SchemeParser, SequencesExt

CONSTANTS DefaultPath,        \* DEFAULT_LOADER_PATH, DEFAULT_OUTPUT
          DefaultOutput,
          Machines            \* command lines and file systems

\* options : the options in order, as [name, arg]
\* operand : the name of the payload's file, or None
\* loaders : the directories with a regular file of the loader's name
\* disk    : the files by name, a loader by that of its directory.  A file is
\*           what SchemeParser parses, with its size; its tags have fields,
\*           those of the structures behind their headers
VARIABLES machine,
          options,      \* those that are still to be read
          args,         \* struct args
          phase,        \* the next part of main, or how it has exited
          denied

main == <<machine, options, args, phase, denied>>
vars == <<builder, parser, main>>

None == "none"

NoFile == [mistral |-> -1, header |-> -1, length |-> 0, size |-> 0, tags |-> <<>>]

\* What strtol and strtoul do not read to the end.
Malformed == -1

IsSequence(s) == Len(s) \in Nat /\ s = [k \in 1 .. Len(s) |-> s[k]]

Hkaddrs == [header_addr : 0 .. Word - 1, load_addr : 0 .. Word - 1,
            load_end_addr : 0 .. Word - 1, bss_end_addr : 0 .. Word - 1]

\* Whatever a command line names is on the disk: a file that is missing is one
\* that cannot be opened.
ASSUME MachineAssumption ==
    /\ IsSequence(DefaultPath)
    /\ \A m \in Machines :
          /\ IsSequence(m.options)
          /\ \A k \in DOMAIN m.options :
                /\ m.options[k].name = "C" => IsSequence(m.options[k].arg)
                /\ m.options[k].name = "o" => m.options[k].arg # None
          /\ m.operand \in DOMAIN m.disk \union {None}
          /\ m.loaders \subseteq DOMAIN m.disk
          /\ \A name \in DOMAIN m.disk :
                LET file == m.disk[name]
                IN  /\ file \in Inputs
                    /\ \A tag \in {file.tags[k] : k \in DOMAIN file.tags} :
                          tag.type = "address" =>
                          /\ tag.fields \in Hkaddrs
                          /\ tag.shift = tag.fields.load_addr - tag.fields.header_addr

\* The file of the output's name before it is opened.
Old == <<Byte("old", 0)>>

Init ==
    /\ machine \in Machines
    /\ options = machine.options
    /\ args = [print_schemes |-> FALSE, vaddr |-> [set |-> FALSE, addr |-> 0],
               output |-> None, path |-> [set |-> FALSE, dirs |-> <<>>]]
    /\ phase = "options"
    /\ denied = FALSE
    /\ input = NoFile /\ who = None /\ pc = "open" /\ off = 0 /\ dest = Unread
    /\ pair = [payload |-> Unread, loader |-> Unread]
    /\ out = Old
    /\ BuilderInit

-----------------------------------------------------------------------------
(***************************************************************************)
(* parse_options and parse_arguments.                                      *)
(***************************************************************************)
\* Mistaken: an option may come back.
UsedNever(o) == FALSE

\* Whether an option has been used before.
Used(o) ==
    \/ o.name = "o" /\ args.output # None
    \/ o.name = "s" /\ args.print_schemes
    \/ o.name = "a" /\ args.vaddr.set
    \/ o.name = "C" /\ args.path.set

Effect(o) ==
    CASE o.name = "o" -> [args EXCEPT !.output = o.arg]
      [] o.name = "s" -> [args EXCEPT !.print_schemes = TRUE]
      [] o.name = "a" -> [args EXCEPT !.vaddr = [set |-> TRUE, addr |-> o.arg]]
      [] o.name = "C" -> [args EXCEPT !.path = [set |-> TRUE, dirs |-> o.arg]]
      [] OTHER -> args

Bad(o) == Used(o) \/ (o.name = "a" /\ o.arg = Malformed)

\* One turn of getopt_long.  An option that it does not know is passed over.
NextOption ==
    LET o == Head(options)
    IN  /\ phase = "options" /\ options # <<>>
        /\ options' = Tail(options)
        /\ phase' = CASE o.name \in {"h", "V"} -> "success"
                      [] o.name \notin {"h", "V"} /\ Bad(o) -> "failure"
                      [] OTHER -> "options"
        /\ args' = Effect(o)
        /\ UNCHANGED <<builder, parser, machine, denied>>

ParseArguments ==
    /\ phase = "options" /\ options = <<>>
    /\ phase' = IF machine.operand = None THEN "failure" ELSE "find"
    /\ UNCHANGED <<builder, parser, machine, options, args, denied>>

-----------------------------------------------------------------------------
(***************************************************************************)
(* The parts of main.                                                      *)
(***************************************************************************)
\* A call of parse_loader or parse_payload.
Parse(file, reader) ==
    /\ input' = machine.disk[file] /\ who' = reader
    /\ pc' = "open" /\ off' = HeaderSize /\ dest' = Unread

Path == IF args.path.set THEN args.path.dirs ELSE DefaultPath

\* The first directory of the path that has a loader, 0 if none has.
FindLoader == SelectInSeq(Path, LAMBDA dir : dir \in machine.loaders)

Find ==
    /\ phase = "find"
    /\ IF FindLoader = 0
       THEN phase' = "failure" /\ UNCHANGED parser
       ELSE phase' = "loader" /\ Parse(Path[FindLoader], "loader")
    /\ UNCHANGED <<builder, machine, options, args, denied>>

ParseStep ==
    /\ phase \in {"loader", "payload"}
    /\ ParserNext
    /\ denied' = (denied \/ Fail)
    /\ UNCHANGED <<builder, machine, options, args, phase>>

Scheme(path) ==
    [image_path |-> path, header_length |-> input.length,
     mistral_offset |-> dest.mistral_offset, header_offset |-> dest.header_offset,
     load_offset |-> dest.load_offset,
     hkaddr |-> input.tags[dest.hkaddr].fields, hkaddr_offset |-> dest.hkaddr_offset,
     hentry |-> input.tags[dest.hentry].fields, hentry_offset |-> dest.hentry_offset]

ParseFails ==
    /\ phase \in {"loader", "payload"} /\ pc = "failed"
    /\ phase' = "failure"
    /\ UNCHANGED <<builder, parser, machine, options, args, denied>>

\* Mistaken: the output is opened before the payload has been parsed.
LoaderParsedOpens ==
    /\ phase = "loader" /\ pc = "parsed"
    /\ pair' = [pair EXCEPT !.loader = Scheme(Path[FindLoader])]
    /\ out' = <<>>
    /\ phase' = "payload"
    /\ Parse(machine.operand, "payload")
    /\ UNCHANGED <<step, pos, copy, failed, faults, machine, options, args, denied>>

LoaderParsed ==
    /\ phase = "loader" /\ pc = "parsed"
    /\ pair' = [pair EXCEPT !.loader = Scheme(Path[FindLoader])]
    /\ phase' = "payload"
    /\ Parse(machine.operand, "payload")
    /\ UNCHANGED <<step, pos, out, copy, failed, faults,
                   machine, options, args, denied>>

PayloadParsed ==
    /\ phase = "payload" /\ pc = "parsed"
    /\ pair' = [pair EXCEPT !.payload = Scheme(machine.operand)]
    /\ phase' = "open"
    /\ UNCHANGED <<step, pos, out, copy, failed, faults, parser,
                   machine, options, args, denied>>

Output == IF args.output = None THEN DefaultOutput ELSE args.output

\* initialize_basic, with the address of option -a, and open with O_TRUNC.
OpenOutput ==
    LET path == [of \in Files |-> pair[of].image_path]
    IN  /\ phase = "open"
        /\ pair' = [payload |-> pair.payload, loader |-> pair.loader,
                    vaddr   |-> args.vaddr,
                    length  |-> [of \in Files |-> machine.disk[path[of]].size],
                    alias   |-> {of \in Files : path[of] = Output}]
        /\ out' = <<>>
        /\ phase' = "write"
        /\ UNCHANGED <<step, pos, copy, failed, faults, parser,
                       machine, options, args, denied>>

OpenOutputFails ==
    /\ phase = "open"
    /\ phase' = "failure"
    /\ denied' = TRUE
    /\ UNCHANGED <<builder, parser, machine, options, args>>

WriteBasic(action) ==
    /\ phase = "write"
    /\ action
    /\ UNCHANGED <<parser, main>>

\* Whatever write_basic returns.
Exit ==
    /\ phase = "write" /\ Finished
    /\ phase' = "success"
    /\ UNCHANGED <<builder, parser, machine, options, args, denied>>

Advance ==
    \/ NextOption \/ ParseArguments \/ Find
    \/ ParseStep \/ ParseFails \/ LoaderParsed \/ PayloadParsed
    \/ OpenOutput \/ WriteBasic(BuildStep) \/ Exit

Next == Advance \/ OpenOutputFails \/ WriteBasic(OpenFails)

\* A sequential program whose system calls come back.
Spec == Init /\ [][Next]_vars /\ WF_vars(Advance)

-----------------------------------------------------------------------------
Exited == phase \in {"success", "failure"}

\* The options up to the k-th one are in order.
Proper(k) ==
    /\ \A i, j \in 1 .. k :
          i < j /\ machine.options[i].name = machine.options[j].name
          => machine.options[i].name \notin {"o", "s", "a", "C"}
    /\ \A i \in 1 .. k : machine.options[i].name = "a"
                        => machine.options[i].arg # Malformed

Asks(k) == machine.options[k].name \in {"h", "V"}

\* Something is asked about the program, before an option is misused.
Informs == \E k \in DOMAIN machine.options : Asks(k) /\ Proper(k - 1)

\* There is something to do, and all it takes.
Works ==
    /\ Proper(Len(machine.options)) /\ \A k \in DOMAIN machine.options : ~ Asks(k)
    /\ machine.operand # None
    /\ \E k \in DOMAIN Path :
          /\ Path[k] \in machine.loaders
          /\ \A j \in 1 .. k - 1 : Path[j] \notin machine.loaders
          /\ Complete(machine.disk[Path[k]], "loader")
    /\ Complete(machine.disk[machine.operand], "payload")

\* mistral exits with success when it has been asked for information, or when
\* its options are in order and the first loader of the path and the payload
\* have all that an image takes; with failure in all other cases, or when a
\* file cannot be opened or read before the image is written.
ExitRight ==
    /\ phase = "success" => Informs \/ Works
    /\ phase = "failure" => denied \/ ~ (Informs \/ Works)

\* When mistral exits with failure the file of the output's name, which may be
\* the image of an earlier run or one of the inputs, is as it was.
FailureKeepsOutput == phase = "failure" => out = Old

\* The parser is in one of the two states that it may never leave: before a tag
\* of size 0, or with a length that it has not read.
Stranded ==
    /\ phase \in {"loader", "payload"}
    /\ pc = "wild" \/ (pc = "walk" /\ Inside /\ Size = 0)

\* However files are cut, calls interrupted, and even if the output is one of
\* the files being copied, mistral ends; nothing but a tag of size 0, or a
\* header_length below its own end, keeps it from that.
MainEnds == <>(Exited \/ Stranded)
=============================================================================
