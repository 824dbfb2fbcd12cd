------------------------------- MODULE Printk -------------------------------
(***************************************************************************)
(* The formatted output of the loader (loader/printk.c) over its screen:   *)
(* printk hands the characters of a format to vga_putc, snprintk stores    *)
(* them in a buffer, and both do so through a handler that may refuse one. *)
(*                                                                         *)
(* A format is a sequence of characters; behind its last one comes NUL.    *)
(* text and field are history variables: what the call in progress has     *)
(* offered to its handler, and the last directive it has read.             *)
(***************************************************************************)
EXTENDS Vga, SequencesExt

CONSTANTS IntWord,       \* number of values of an uint32_t
          Calls,         \* the calls to make, see CallAssumption
          MaxCalls       \* bound on their number

\* to, len : the screen, or a buffer of len characters
\* args    : the arguments, of the types that the directives name
ASSUME CallAssumption ==
    /\ IntWord \in Nat \ {0}
    /\ \A c \in Calls : /\ c.to \in {"screen", "buffer"} /\ c.len \in Nat
                        /\ c.format \in Seq(ToSet(c.format))

VARIABLES call,      \* the call in progress, NoCall between two
          input,     \* the locals of vhprintk: position in the format,
          fmt,       \*  whether a % has just been read,
          arg,       \*  and number of arguments taken
          done,      \* the state's number of characters accepted
          stop,      \* and its flag to end the output
          queue,     \* characters of the item at hand, not yet printed
          out,       \* the buffer of vsnprintk, up to its pointer
          text, field, calls

locals == <<input, fmt, arg, done, stop, queue, out, text, field>>
vars == <<screen, call, locals, calls>>

NUL == "NUL"
NoCall == [to |-> "none", len |-> 0, format |-> <<>>, args |-> <<>>]

Idle(in, f, a, d, s, q, o, t, l) ==
    /\ in = 1 /\ f = FALSE /\ a = 0 /\ d = 0 /\ s = FALSE
    /\ q = <<>> /\ o = <<>> /\ t = <<>> /\ l = <<>>

Init ==
    /\ VgaInitialize
    /\ call = NoCall
    /\ Idle(input, fmt, arg, done, stop, queue, out, text, field)
    /\ calls = 0

-----------------------------------------------------------------------------
(***************************************************************************)
(* vhprintk_read_format.                                                   *)
(***************************************************************************)
At(k) == IF k <= Len(call.format) THEN call.format[k] ELSE NUL

Figures == <<"0", "1", "2", "3", "4", "5", "6", "7", "8", "9">>
Lower   == Figures \o <<"a", "b", "c", "d", "e", "f">>
Upper   == Figures \o <<"A", "B", "C", "D", "E", "F">>

Flags == {"#", "0", "-", " ", "+"}

\* The characters of the set that begin at k end before n.
EndsAt(set, k, n) == At(n) \notin set /\ \A m \in k .. n - 1 : At(m) \in set

Figure(c, base) == \E d \in 1 .. base : c \in {Lower[d], Upper[d]}

Worth(c, base) == (CHOOSE d \in 1 .. base : c \in {Lower[d], Upper[d]}) - 1

\* The value of the figures among some characters, in either notation, in a base.
ValueOf(chars, base) ==
    LET v[k \in 0 .. Len(chars)] ==
            IF k = 0 THEN 0
            ELSE IF Figure(chars[k], base) THEN base * v[k - 1] + Worth(chars[k], base)
            ELSE v[k - 1]
    IN  v[Len(chars)]

\* The directive with its flags from first on, its minimum size from size on and
\* its type behind them.  input is where the walk goes on: one behind the end
\* when the format ends inside the directive.
ReadFormat(first, size, type) ==
    LET last == IF At(type) = "l" THEN type + 1 ELSE type
    IN  [flags |-> {At(n) : n \in first .. size - 1}
                      \union IF At(last) = "p" THEN {"#"} ELSE {},
         minimum_size |-> ValueOf(SubSeq(call.format, size, type - 1), 10),
         type  |-> IF At(last) = "p" THEN "x" ELSE At(last),
         input |-> last + 1]

Directives ==
    {ReadFormat(input, ends[1], ends[2]) :
        ends \in {e \in (input .. Len(call.format) + 1) \X (input .. Len(call.format) + 1) :
                     /\ EndsAt(Flags, input, e[1])
                     /\ e[1] <= e[2]
                     /\ EndsAt(ToSet(Figures), e[1], e[2])}}

-----------------------------------------------------------------------------
(***************************************************************************)
(* What a directive prints.                                                *)
(***************************************************************************)
Repeat(n, c) == [k \in 1 .. n |-> c]

PadLength(d, len) == IF d.minimum_size > len THEN d.minimum_size - len ELSE 0

\* vhprintk_print_char, vhprintk_print_string
PadText(d, chars) ==
    LET len == IF chars = <<>> /\ " " \in d.flags /\ d.minimum_size = 0 THEN 1
               ELSE PadLength(d, Len(chars))
    IN  IF "-" \in d.flags THEN chars \o Repeat(len, " ")
                           ELSE Repeat(len, " ") \o chars

\* The divisors of the figures, from the last one on.
Divisors(base, len) ==
    LET div[k \in 1 .. len] == IF k = 1 THEN 1 ELSE base * div[k - 1] IN div

NumberLength(n, base) ==
    LET div == Divisors(base, n + 1)
    IN  CHOOSE l \in 1 .. n + 1 : n < base * div[l] /\ (l = 1 \/ div[l] <= n)

\* Mistaken: the first divisor is one power too high.
RadicalHigh(n, base, figures) ==
    LET len == NumberLength(n, base) + 1
        div == Divisors(base, len)
    IN  [k \in 1 .. len |-> figures[1 + ((n \div div[len + 1 - k]) % base)]]

\* vhprintk_print_radical
Radical(n, base, figures) ==
    LET len == NumberLength(n, base)
        div == Divisors(base, len)
    IN  [k \in 1 .. len |-> figures[1 + ((n \div div[len + 1 - k]) % base)]]

\* vhprintk_print_number, of a number that fits
PrintNumber(d, prefix, digits) ==
    LET pad == PadLength(d, Len(prefix) + Len(digits))
    IN  CASE "-" \in d.flags -> prefix \o digits \o Repeat(pad, " ")
          [] "-" \notin d.flags /\ "0" \in d.flags
             -> prefix \o Repeat(pad, "0") \o digits
          [] OTHER -> Repeat(pad, " ") \o prefix \o digits

SignPrefix(d) == IF "+" \in d.flags THEN <<"+">>
                 ELSE IF " " \in d.flags THEN <<" ">> ELSE <<>>

Prefix(d, n) ==
    CASE d.type \in {"d", "i"} -> IF n < 0 THEN <<"-">> ELSE SignPrefix(d)
      [] d.type = "u" -> SignPrefix(d)
      [] d.type \in {"x", "X", "o", "b"} ->
            IF "#" \notin d.flags THEN <<>>
            ELSE <<"0">> \o IF d.type = "o" THEN <<>>
                            ELSE IF d.type = "b" THEN <<"b">> ELSE <<"x">>

Base == [d |-> 10, i |-> 10, u |-> 10, x |-> 16, X |-> 16, o |-> 8, b |-> 2]

Magnitude(n) == IF n < 0 THEN -n ELSE n

Null == <<"NULL">>

\* The characters for an argument, none for an unknown type ("(null)" is
\* shortened, and so is "<too big>" below).
Printed(d, value) ==
    CASE d.type = "c" -> PadText(d, <<value>>)
      [] d.type = "s" ->
            PadText(d, IF value = Null THEN <<"(", "n", ")">> ELSE value)
      [] d.type \in DOMAIN Base ->
            PrintNumber(d, Prefix(d, value),
                        Radical(Magnitude(value), Base[d.type],
                                IF d.type = "X" THEN Upper ELSE Lower))
      [] OTHER -> <<>>

Takes(d) == d.type \in {"c", "s"} \union DOMAIN Base

\* A call gives the arguments that its directives name; nothing is said of another.
Fits(d, value) ==
    /\ d.type = "s" => value \in Seq(ToSet(value))
    /\ d.type \in {"d", "i"} => value \in Int
    /\ d.type \in DOMAIN Base \ {"d", "i"} => value \in Nat

\* vhprintk_print_number says so on the screen, whatever the handler.
TooBig(d, value) == d.type \in DOMAIN Base /\ Magnitude(value) >= IntWord

-----------------------------------------------------------------------------
(***************************************************************************)
(* The actions: a call, the turns of the loop of vhprintk, the characters. *)
(***************************************************************************)
Item(c, to) == [c |-> c, to |-> to]

Items(chars, to) == [k \in DOMAIN chars |-> Item(chars[k], to)]

Running == call # NoCall /\ queue = <<>>

Begin ==
    /\ call = NoCall
    /\ calls < MaxCalls /\ calls' = calls + 1
    /\ call' \in Calls
    /\ UNCHANGED <<screen, locals>>

\* A character that stands for itself, or the second of two %.
Literal ==
    /\ Running /\ ~ stop
    /\ At(input) # NUL
    /\ fmt = (At(input) = "%")
    /\ queue' = <<Item(At(input), call.to)>>
    /\ input' = input + 1
    /\ fmt' = FALSE
    /\ UNCHANGED <<screen, call, arg, done, stop, out, text, field, calls>>

\* Mistaken: the first % of a directive is read again.
PercentStays ==
    /\ Running /\ ~ stop
    /\ At(input) = "%" /\ ~ fmt
    /\ UNCHANGED vars

Percent ==
    /\ Running /\ ~ stop
    /\ At(input) = "%" /\ ~ fmt
    /\ input' = input + 1
    /\ fmt' = TRUE
    /\ UNCHANGED <<screen, call, arg, done, stop, queue, out, text, field, calls>>

Directive ==
    /\ Running /\ ~ stop
    /\ At(input) \notin {NUL, "%"} /\ fmt
    /\ \E d \in Directives :
         \E value \in {IF Takes(d) THEN call.args[arg + 1] ELSE 0} :
           /\ Takes(d) => Fits(d, value)
           /\ queue' = IF TooBig(d, value)
                       THEN Items(<<"<", ">">>, "screen itself")
                       ELSE Items(Printed(d, value), call.to)
           /\ field' = <<d, value>>
           /\ arg' = IF Takes(d) THEN arg + 1 ELSE arg
           /\ input' = d.input
    /\ fmt' = FALSE
    /\ UNCHANGED <<screen, call, done, stop, out, text, calls>>

\* Mistaken: stores one character more than there is room for.
StoreBehind(c) ==
    IF Len(out) > call.len
    THEN stop' = FALSE /\ UNCHANGED <<out, done>>
    ELSE out' = Append(out, c) /\ done' = done + 1 /\ UNCHANGED stop

\* vsnprintk_handler.  When it refuses, the flag is set to what it was.
Store(c) ==
    IF Len(out) >= call.len
    THEN stop' = FALSE /\ UNCHANGED <<out, done>>
    ELSE out' = Append(out, c) /\ done' = done + 1 /\ UNCHANGED stop

\* vhprintk_print_one, and the handler it calls.
PrintOne ==
    /\ queue # <<>>
    /\ queue' = Tail(queue)
    /\ IF stop THEN UNCHANGED <<screen, done, stop, out, text>>
       ELSE /\ \/ /\ Head(queue).to = "screen"
                  /\ VgaPutc(Head(queue).c)
                  /\ done' = done + 1
                  /\ UNCHANGED <<stop, out>>
               \/ /\ Head(queue).to = "buffer"
                  /\ Store(Head(queue).c)
                  /\ UNCHANGED screen
               \/ /\ Head(queue).to = "screen itself"
                  /\ VgaPutc(Head(queue).c)
                  /\ UNCHANGED <<done, stop, out>>
            /\ text' = IF Head(queue).to = call.to THEN Append(text, Head(queue).c)
                       ELSE text
    /\ UNCHANGED <<call, input, fmt, arg, field, calls>>

\* A walk that has left the format reads what is behind it: nothing is said of
\* it any more.
Return ==
    /\ Running
    /\ At(input) = NUL \/ stop
    /\ input <= Len(call.format) + 1
    /\ call' = NoCall
    /\ Idle(input', fmt', arg', done', stop', queue', out', text', field')
    /\ UNCHANGED <<screen, calls>>

Step == Literal \/ Percent \/ Directive \/ PrintOne \/ Return

Next == Begin \/ Step

Spec == Init /\ [][Next]_vars /\ WF_vars(Step)

-----------------------------------------------------------------------------
\* The handler gets every character, in order: the screen all of them, the
\* buffer as many as it has room for, and the number that the call returns is
\* the number of those, although the flag that should end the output after a
\* refusal is never set.
OutputWhole ==
    call # NoCall =>
    IF call.to = "screen" THEN done = Len(text) /\ out = <<>>
    ELSE LET room == IF Len(text) < call.len THEN Len(text) ELSE call.len
         IN  out = SubSeq(text, 1, room) /\ done = room

\* A number is printed so that reading its figures gives it back, in no less
\* than the minimum size, and in no more than it takes without padding.
FieldReadsBack ==
    call # NoCall /\ field # <<>> /\ field[1].type \in DOMAIN Base
    /\ ~ TooBig(field[1], field[2])
    => LET d     == field[1]
           base  == Base[d.type]
           chars == Printed(d, field[2])
       IN  /\ ValueOf(chars, base) = Magnitude(field[2])
           /\ ("-" \in ToSet(chars)) = (field[2] < 0)
           /\ Len(chars) >= d.minimum_size
           /\ Len(chars) > d.minimum_size
              => Len(chars) = Len(Prefix(d, field[2])) + NumberLength(Magnitude(field[2]), base)

\* The walk leaves the format.
Wild == Running /\ input > Len(call.format) + 1

\* A call returns, or has been given a format that ends inside a directive:
\* it then reads on behind the format, whatever is there.
PrintReturns == [](call # NoCall => <>(call = NoCall \/ Wild))
=============================================================================
