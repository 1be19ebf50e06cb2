------------------------------ MODULE ApeTty ------------------------------
(***************************************************************************)
(* The terminal of the APE server: the line discipline, the escape-sequence*)
(* parser on its output, the driver that talks to the host terminal, and   *)
(* the calls that reach them: read, readv, write, writev, TCSETS, ppoll.   *)
(*                                                                         *)
(* The dispatcher waits for the terminal with the manager locked, so there *)
(* is one call at a time; `phase' says which.  Only the keyboard moves     *)
(* while it runs.  A byte is a name: text, a control key, or a piece of an *)
(* escape sequence ("csi" is ESC [, "6n" and "c" are what may follow it).  *)
(***************************************************************************)
EXTENDS Naturals, Sequences, FiniteSets, SequencesExt

CONSTANTS
  Letters,      \* printable bytes: the n-th key pressed, if text, types Letters[n]
  Keys,         \* what else the keyboard can send
  MaxTyped,     \* bound: keys pressed in a behaviour
  HostChunk,    \* bytes the host hands over at once, 256 in the code
  MaxAhead,     \* bound: keys typed ahead of what was read from the host
  RwChunk,      \* FS_SYNC_RW_CHUNK
  Termios,      \* what TCSETS may install
  MaxSets,      \* bound: TCSETS calls in a behaviour
  ReadVectors,  \* lengths of the buffers of a read or readv
  WriteVectors, \* buffers of a write or writev
  MaxWrites,    \* bound: write calls in a behaviour
  OwnMask,      \* the mask the process has set
  Pending,      \* signals it may have pending when it calls ppoll
  Masks,        \* the masks it may give to ppoll
  PollEvents,   \* what ppoll may be asked: input or output of the terminal, closed descriptors
  Timeouts,     \* timeouts of ppoll in sleeps, NoTimeout for none
  NoTimeout

Iflag == {"IGNCR", "ICRNL", "INLCR"}
Oflag == {"OPOST", "ONLCR", "OCRNL"}
Lflag == {"ICANON", "ECHO"}
Special == {"cr", "nl", "erase", "kill", "eof", "csi", "6n", "c"}
Byte == Range(Letters) \cup Special
ReplyByte == "reply"
Rub == "rub"                            \* \b \b: rubs out one character on the host

ASSUME BoundAssumption ==
  /\ MaxTyped \in Nat /\ MaxAhead \in Nat /\ MaxSets \in Nat /\ MaxWrites \in Nat
  /\ HostChunk \in Nat \ {0} /\ RwChunk \in Nat \ {0}
  /\ Letters \in Seq(STRING) /\ Len(Letters) >= MaxTyped
  /\ Range(Letters) \cap (Special \cup {ReplyByte, Rub}) = {}
ASSUME ArgumentAssumption ==
  /\ Keys \subseteq Special
  /\ Termios \subseteq [iflag : SUBSET Iflag, oflag : SUBSET Oflag, lflag : SUBSET Lflag,
                        verase : Byte, vkill : Byte, veof : Byte, vmin : Nat]
  /\ \A v \in ReadVectors : v \in Seq(Nat \ {0}) /\ v # <<>>
  /\ \A v \in WriteVectors : v \in Seq(Seq(Byte) \ {<<>>}) /\ v # <<>>
  /\ PollEvents \subseteq SUBSET {"in", "out", "nval"}
  /\ Timeouts \subseteq Nat \cup {NoTimeout} /\ NoTimeout \notin Nat

VARIABLES
  termios, canonical_line_buf, readable_buf, last_was_cr, \* TtyCompatState
  in_csi,             \* external: the parser holds an unfinished control sequence
  host_in,            \* external: typed and not yet read from the host
  host_csi,           \* external: the last byte the host was sent is a "csi"
  phase,              \* the call in the dispatcher: "idle", "read", "write", "poll"
  want, out,          \* lengths the call has still to read, buffers it has still to write
  signal_pending, signal_blocked,
  old_mask,           \* the mask ppoll will put back
  events, left,       \* ppoll: the events asked for, sleeps until the deadline
  fed,                \* history: every byte given to feed_input, with the termios then
  taken,              \* history: every byte read out of readable_buf
  promised,           \* history: ppoll reported input; no read or TCSETS since
  asked,              \* history: the host was sent a status query
  sets, writes        \* history: calls made, for the bounds

ldisc == <<canonical_line_buf, readable_buf, last_was_cr, in_csi, host_csi, fed, asked>>
signals == <<signal_pending, signal_blocked, old_mask, events, left>>
vars == <<termios, ldisc, host_in, phase, want, out, signals, taken, promised, sets, writes>>

(***************************************************************************)
(* Line discipline                                                         *)
(***************************************************************************)
Has(t, flag) == flag \in t.iflag \cup t.oflag \cup t.lflag

default_termios ==
  [iflag |-> {"ICRNL"}, oflag |-> {"OPOST", "ONLCR"}, lflag |-> {"ICANON", "ECHO"},
   verase |-> "erase", vkill |-> "kill", veof |-> "eof", vmin |-> 1]

\* What a call of the driver works on: the buffers, and what to echo.
Ldisc == [line |-> canonical_line_buf, readable |-> readable_buf, cr |-> last_was_cr,
          csi |-> in_csi, echo |-> <<>>]

Echo(s, t, bytes) == IF Has(t, "ECHO") THEN [s EXCEPT !.echo = @ \o bytes] ELSE s
Flush(s) == [s EXCEPT !.readable = @ \o s.line, !.line = <<>>]
canonical_erase(s, t) ==
  IF s.line = <<>> THEN s ELSE Echo([s EXCEPT !.line = Front(@)], t, <<Rub>>)
canonical_kill(s, t) ==
  Echo([s EXCEPT !.line = <<>>], t, [i \in 1..Len(s.line) |-> Rub])

canonical_input(s, t, b) ==
  CASE b = t.verase -> canonical_erase(s, t)
    [] b # t.verase /\ b = t.vkill -> canonical_kill(s, t)
    [] b \notin {t.verase, t.vkill} /\ b = t.veof -> Flush(s)
    [] b \notin {t.verase, t.vkill, t.veof} ->
         LET pushed == Echo([s EXCEPT !.line = Append(@, b)], t, <<b>>)
         IN IF b = "nl" THEN Flush(pushed) ELSE pushed

\* Mutant of feed_byte: forgets that a newline after a carriage return is the
\* same key when the two arrive in different chunks.
feed_byte_forgets_cr(s, t, raw) ==
  LET b == CASE raw = "cr" /\ Has(t, "ICRNL") -> "nl"
             [] raw = "nl" /\ Has(t, "INLCR") -> "cr"
             [] OTHER -> raw
  IN IF raw = "cr" /\ Has(t, "IGNCR") THEN s
     ELSE IF Has(t, "ICANON") THEN canonical_input(s, t, b)
     ELSE Echo([s EXCEPT !.readable = Append(@, b)], t, <<b>>)

feed_byte(s, t, raw) ==
  LET next == [s EXCEPT !.cr = (raw = "cr")]
      b == CASE raw = "cr" /\ Has(t, "ICRNL") -> "nl"
             [] raw = "nl" /\ Has(t, "INLCR") -> "cr"
             [] OTHER -> raw
  IN IF (raw = "nl" /\ s.cr) \/ (raw = "cr" /\ Has(t, "IGNCR")) THEN next
     ELSE IF Has(t, "ICANON") THEN canonical_input(next, t, b)
     ELSE Echo([next EXCEPT !.readable = Append(@, b)], t, <<b>>)

feed_input(s, t, input) == FoldLeft(LAMBDA acc, b : feed_byte(acc, t, b), s, input)

can_read_now(readable, t) ==
  readable # <<>> /\ (Has(t, "ICANON") \/ Len(readable) >= t.vmin)

take_readable(readable, t, max_len) ==
  IF can_read_now(readable, t)
  THEN SubSeq(readable, 1, IF Len(readable) < max_len THEN Len(readable) ELSE max_len)
  ELSE <<>>

(***************************************************************************)
(* Output                                                                  *)
(***************************************************************************)
parse_dsr_query_len(b, next) == b = "csi" /\ next = "6n"

\* strip_dsr_queries: one write's bytes without the queries that lie inside it.
strip_dsr_queries(tx) ==
  LET Query(i) == i \in 1..(Len(tx) - 1) /\ parse_dsr_query_len(tx[i], tx[i + 1])
      keep == SetToSortSeq({i \in DOMAIN tx : ~Query(i) /\ ~Query(i - 1)}, <)
  IN [i \in DOMAIN keep |-> tx[keep[i]]]

tty_output_transform(t, bytes) ==
  LET Post(b) == CASE b = "nl" /\ Has(t, "ONLCR") -> <<"cr", "nl">>
                   [] b = "cr" /\ Has(t, "OCRNL") -> <<"nl">>
                   [] OTHER -> <<b>>
  IN IF Has(t, "OPOST") THEN FlattenSeq([i \in DOMAIN bytes |-> Post(bytes[i])]) ELSE bytes

\* respond: an answer of at least two bytes, put where typed bytes are read from.
respond(s) == [s EXCEPT !.readable = @ \o <<ReplyByte, ReplyByte>>]

\* The parser on one byte.  Control bytes are executed without ending a control
\* sequence.  Device attributes and window-size reports are answered, and "c"
\* stands for both; cursor movements, read by no decision, are left out.
Advance(s, b) ==
  CASE b = "csi" -> [s EXCEPT !.csi = TRUE]
    [] b = "c" /\ s.csi -> respond([s EXCEPT !.csi = FALSE])
    [] b = "6n" \/ b \in Range(Letters) -> [s EXCEPT !.csi = FALSE]
    [] OTHER -> s
process_output(s, tx) == FoldLeft(Advance, s, tx)

\* TtyDevice::write: the terminal's state after it, and what the host is to get.
write(s, t, bytes) ==
  LET tx == tty_output_transform(t, bytes)
  IN [state |-> process_output(s, tx), tx |-> strip_dsr_queries(tx)]

\* The host gets `bytes': a write whole or, if the host fails, nothing of it.
prism_stream_write(bytes) ==
  /\ host_csi' = IF bytes = <<>> THEN host_csi ELSE Last(bytes) = "csi"
  /\ asked' = (asked \/ \E i \in DOMAIN bytes :
                 bytes[i] = "6n" /\ IF i = 1 THEN host_csi ELSE bytes[i - 1] = "csi")

Store(s) ==
  /\ canonical_line_buf' = s.line /\ readable_buf' = s.readable
  /\ last_was_cr' = s.cr /\ in_csi' = s.csi

(***************************************************************************)
(* Input from the host, for read and for poll_readable                     *)
(***************************************************************************)
\* The bytes the host may hand over now.
prism_stream_read ==
  {SubSeq(host_in, 1, n) : n \in 1..(IF Len(host_in) < HostChunk THEN Len(host_in) ELSE HostChunk)}

\* The line discipline after `input', the echo written.
Fed(input) == LET s == feed_input(Ldisc, termios, input) IN write(s, termios, s.echo)

\* Reading `input' from the host.  A failure to send the echo is ignored.
FeedFromHost(input) ==
  /\ Store(Fed(input).state)
  /\ \E sent \in {<<>>, Fed(input).tx} : prism_stream_write(sent)
  /\ host_in' = SubSeq(host_in, Len(input) + 1, Len(host_in))
  /\ fed' = fed \o [i \in DOMAIN input |-> [byte |-> input[i], termios |-> termios]]

(***************************************************************************)
(* Keyboard and calls                                                      *)
(***************************************************************************)
Init ==
  /\ termios = default_termios
  /\ canonical_line_buf = <<>> /\ readable_buf = <<>> /\ last_was_cr = FALSE
  /\ in_csi = FALSE /\ host_in = <<>> /\ host_csi = FALSE
  /\ phase = "idle" /\ want = <<>> /\ out = <<>>
  /\ signal_pending = {} /\ signal_blocked = OwnMask /\ old_mask = {}
  /\ events = {} /\ left = 0
  /\ fed = <<>> /\ taken = <<>> /\ promised = FALSE /\ asked = FALSE
  /\ sets = 0 /\ writes = 0

\* A key is pressed on the host terminal.
Type ==
  LET n == Len(fed) + Len(host_in) + 1
  IN /\ n <= MaxTyped /\ Len(host_in) < MaxAhead
     /\ \E b \in Keys \cup {Letters[n]} : host_in' = Append(host_in, b)
     /\ UNCHANGED <<termios, ldisc, phase, want, out, signals, taken, promised, sets, writes>>

\* do_read and do_readv: the handler begins; want holds the lengths left to fill.
SysRead ==
  /\ phase = "idle"
  /\ \E v \in ReadVectors : want' = v
  /\ phase' = "read"
  /\ promised' = FALSE
  /\ UNCHANGED <<termios, ldisc, host_in, out, signals, taken, sets, writes>>

\* A chunk of the current buffer is read and copied to the process.  A short
\* chunk ends the call, as does a failed copy, whose bytes are gone.
ReadChunk ==
  LET chunk == IF Head(want) < RwChunk THEN Head(want) ELSE RwChunk
      ready == take_readable(readable_buf, termios, chunk)
      n == Len(ready)
      rest == IF Head(want) = n THEN Tail(want) ELSE <<Head(want) - n>> \o Tail(want)
  IN /\ phase = "read" /\ ready # <<>>
     /\ taken' = taken \o ready
     /\ readable_buf' = SubSeq(readable_buf, n + 1, Len(readable_buf))
     /\ \E copied \in BOOLEAN :
          IF copied /\ n = chunk /\ rest # <<>>
          THEN phase' = "read" /\ want' = rest
          ELSE phase' = "idle" /\ want' = <<>>
     /\ UNCHANGED <<termios, canonical_line_buf, last_was_cr, in_csi, host_csi, fed, asked,
                    host_in, out, signals, promised, sets, writes>>

\* TtyDevice::read finds nothing to take and reads from the host.  With nothing
\* typed it goes round again.
ReadFetches ==
  /\ phase = "read" /\ ~can_read_now(readable_buf, termios)
  /\ \E input \in prism_stream_read : FeedFromHost(input)
  /\ UNCHANGED <<termios, phase, want, out, signals, taken, promised, sets, writes>>

\* The host fails that read.
ReadFails ==
  /\ phase = "read" /\ ~can_read_now(readable_buf, termios)
  /\ phase' = "idle" /\ want' = <<>>
  /\ UNCHANGED <<termios, ldisc, host_in, out, signals, taken, promised, sets, writes>>

\* do_write and do_writev.
SysWrite ==
  /\ phase = "idle" /\ writes < MaxWrites /\ writes' = writes + 1
  /\ \E v \in WriteVectors : out' = v
  /\ phase' = "write"
  /\ UNCHANGED <<termios, ldisc, host_in, want, signals, taken, promised, sets>>

\* One chunk of the current buffer goes through TtyDevice::write, or the copy
\* from the process or the host fails and the call ends.
WriteChunk ==
  LET n == IF Len(Head(out)) < RwChunk THEN Len(Head(out)) ELSE RwChunk
      w == write(Ldisc, termios, SubSeq(Head(out), 1, n))
      rest == IF n = Len(Head(out)) THEN Tail(out)
              ELSE <<SubSeq(Head(out), n + 1, Len(Head(out)))>> \o Tail(out)
  IN /\ phase = "write"
     /\ \/ /\ \E sent \in {<<>>, w.tx} :
                /\ prism_stream_write(sent)
                /\ IF sent = w.tx /\ rest # <<>>
                   THEN phase' = "write" /\ out' = rest
                   ELSE phase' = "idle" /\ out' = <<>>
           /\ Store(w.state)
           /\ UNCHANGED fed
        \/ /\ phase' = "idle" /\ out' = <<>>
           /\ UNCHANGED ldisc
     /\ UNCHANGED <<termios, host_in, want, signals, taken, promised, sets, writes>>

\* TCSETS, TCSETSW and TCSETSF alike: the buffers stay as they are.
Tcsets ==
  /\ phase = "idle" /\ sets < MaxSets /\ sets' = sets + 1
  /\ termios' \in Termios \ {termios}
  /\ promised' = FALSE
  /\ UNCHANGED <<ldisc, host_in, phase, want, out, signals, taken, writes>>

(***************************************************************************)
(* ppoll                                                                   *)
(***************************************************************************)
\* Which signals are pending is what the calls before left.  Those
\* outside the process's own mask were delivered at the end of a call.
SysPpoll ==
  /\ phase = "idle" /\ phase' = "poll"
  /\ old_mask' = signal_blocked
  /\ signal_blocked' \in Masks \cup {signal_blocked}
  /\ signal_pending' \in Pending
  /\ events' \in PollEvents
  /\ left' \in Timeouts
  /\ UNCHANGED <<termios, ldisc, host_in, want, out, taken, promised, sets, writes>>

\* Mutant of EndPoll: leaves ppoll's mask in force.
EndPollKeepsMask ==
  /\ phase' = "idle"
  /\ old_mask' = {} /\ signal_pending' = {} /\ events' = {} /\ left' = 0
  /\ UNCHANGED <<signal_blocked>>

EndPoll ==
  /\ phase' = "idle"
  /\ signal_blocked' = old_mask
  /\ old_mask' = {} /\ signal_pending' = {} /\ events' = {} /\ left' = 0

has_deliverable_signal == signal_pending \ signal_blocked # {}

\* poll_readable's effect: input is fetched only when none can be read.
PollFetches ==
  IF "in" \in events /\ ~can_read_now(readable_buf, termios) /\ host_in # <<>>
  THEN \E input \in prism_stream_read : FeedFromHost(input)
  ELSE UNCHANGED <<ldisc, host_in>>

\* Mutant of PollSeesInput: what the host has counts, a whole line or not.
PollSeesHostInput == "in" \in events /\ (can_read_now(readable_buf, termios) \/ host_in # <<>>)

\* poll_readable's answer.
PollSeesInput == "in" \in events /\ can_read_now(readable_buf', termios)

\* Mutant of PollGoesOn: sleeps on although the deadline has come.
PollSleepsOn ==
  /\ phase' = phase
  /\ left' = IF left = NoTimeout THEN left ELSE left - 1
  /\ UNCHANGED <<signal_pending, signal_blocked, old_mask, events>>

\* A sleep of at most PPOLL_SLEEP_MS, then the next scan.
PollGoesOn ==
  /\ left # 0 /\ phase' = phase
  /\ left' = IF left = NoTimeout THEN left ELSE left - 1
  /\ UNCHANGED <<signal_pending, signal_blocked, old_mask, events>>

\* poll_scan_once: a descriptor that is ready, or not open.
PollReady == PollSeesInput \/ events \cap {"out", "nval"} # {}

\* One turn of do_ppoll's loop: poll_scan_once, then a deliverable signal, the
\* deadline, or a sleep.
PollScan ==
  /\ phase = "poll"
  /\ PollFetches
  /\ promised' = (promised \/ PollSeesInput)
  /\ \/ (PollReady \/ has_deliverable_signal \/ left = 0) /\ EndPoll
     \/ ~PollReady /\ ~has_deliverable_signal /\ PollGoesOn
  /\ UNCHANGED <<termios, want, out, taken, sets, writes>>

\* The timeout is no time, or a copy, the host or the clock fails.
PollFails ==
  /\ phase = "poll" /\ EndPoll
  /\ UNCHANGED <<termios, ldisc, host_in, want, out, taken, promised, sets, writes>>

Dispatcher == ReadChunk \/ ReadFetches \/ ReadFails \/ WriteChunk \/ PollScan \/ PollFails
Next == Type \/ SysRead \/ SysWrite \/ Tcsets \/ SysPpoll \/ Dispatcher
Spec == Init /\ [][Next]_vars

(***************************************************************************)
(* Properties                                                              *)
(***************************************************************************)
\* Types of the terminal's state and of the call in progress.
TypeOK ==
  /\ termios \in Termios \cup {default_termios}
  /\ canonical_line_buf \in Seq(Byte) /\ readable_buf \in Seq(Byte \cup {ReplyByte})
  /\ last_was_cr \in BOOLEAN /\ in_csi \in BOOLEAN /\ host_csi \in BOOLEAN
  /\ host_in \in Seq(Byte)
  /\ phase \in {"idle", "read", "write", "poll"}
  /\ want \in Seq(Nat) /\ (want # <<>> <=> phase = "read")
  /\ out \in Seq(Seq(Byte)) /\ (out # <<>> <=> phase = "write")
  /\ signal_pending \in Pending \cup {{}}
  /\ signal_blocked \in Masks \cup {OwnMask} /\ old_mask \in {OwnMask, {}}
  /\ events \subseteq {"in", "out", "nval"} /\ left \in Nat \cup {NoTimeout}
  /\ Len(fed) + Len(host_in) <= MaxTyped /\ promised \in BOOLEAN /\ asked \in BOOLEAN

\* What the line discipline should make of the keys f it was fed, said without
\* buffers.  What a key press stands for, and which ones count.
Key(f, i) == CASE f[i].byte = "cr" /\ Has(f[i].termios, "ICRNL") -> "nl"
               [] f[i].byte = "nl" /\ Has(f[i].termios, "INLCR") -> "cr"
               [] OTHER -> f[i].byte
Live(f) == {i \in DOMAIN f :
              /\ ~(f[i].byte = "nl" /\ i > 1 /\ f[i - 1].byte = "cr")
              /\ ~(f[i].byte = "cr" /\ Has(f[i].termios, "IGNCR"))}
Cooked(f) == {i \in Live(f) : Has(f[i].termios, "ICANON")}

\* The keys that edit, the ones that end a line, and the ones that leave a character.
Erases(f) == {i \in Cooked(f) : Key(f, i) = f[i].termios.verase}
Kills(f) == {i \in Cooked(f) \ Erases(f) : Key(f, i) = f[i].termios.vkill}
Text(f) == Cooked(f) \ (Erases(f) \cup Kills(f))
Ends(f) == {i \in Text(f) : Key(f, i) \in {"nl", f[i].termios.veof}}
Chars(f) == {i \in Text(f) : Key(f, i) # f[i].termios.veof}

\* Which characters a later key of their line takes back: an erase takes the
\* last one that is left.
SameLine(ends, i, j) == i < j /\ ends \cap (i..(j - 1)) = {}
Count(S, i, j) == Cardinality(S \cap (i..j))
Takes(chars, erases, ends, i, j) ==
  /\ SameLine(ends, i, j) /\ Count(chars, i, j) = Count(erases, i, j)
  /\ \A k \in i..(j - 1) : Count(chars, i, k) > Count(erases, i, k)
Kept(f) ==
  LET chars == Chars(f)
      erases == Erases(f)
      kills == Kills(f)
      ends == Ends(f)
  IN {i \in chars : /\ ~\E j \in erases : Takes(chars, erases, ends, i, j)
                    /\ ~\E k \in kills : SameLine(ends, i, k)}

\* The characters of the unfinished line, and when a byte can be read: when its
\* line ends or, typed in raw mode, at once.
Held(kept, ends) == {i \in kept : \A e \in ends : e < i}
Raw(f) == Live(f) \ Cooked(f)
Release(raw, ends, i) == IF i \in raw THEN i ELSE Min({e \in ends : e >= i})

\* The bytes at the places of `at' are the keys of S, each once: origin says
\* which byte is which key.
Spells(f, bytes, at, S, origin) ==
  /\ \A a \in at : bytes[a] = Key(f, origin[a])
  /\ \A i \in S : \E a \in at : origin[a] = i
InTime(raw, ends, at, origin) ==
  \A a, b \in at : a < b =>
    LET i == origin[a]
        j == origin[b]
    IN \/ Release(raw, ends, i) < Release(raw, ends, j)
       \/ Release(raw, ends, i) = Release(raw, ends, j) /\ i < j
InLine(at, origin) == \A a, b \in at : a < b => origin[a] < origin[b]

\* Replies of the parser come between the typed bytes.
TypedAt(bytes) == {a \in DOMAIN bytes : bytes[a] # ReplyByte}

\* feed_input over any chunking, with changes of mode in between: the typed bytes
\* given out and ready to be read are, in order, the characters not taken back,
\* each from the moment its line ends or, typed in raw mode, at once; the line
\* buffer holds the characters of the unfinished line.
InputFaithful ==
  LET given == taken \o readable_buf
      at == TypedAt(given)
      raw == Raw(fed)
      ends == Ends(fed)
      kept == Kept(fed)
      line == DOMAIN canonical_line_buf
      held == Held(kept, ends)
      released == (kept \ held) \cup raw
  IN /\ \E origin \in [at -> released] :
          Spells(fed, given, at, released, origin) /\ InTime(raw, ends, at, origin)
     /\ \E origin \in [line -> held] :
          Spells(fed, canonical_line_buf, line, held, origin) /\ InLine(line, origin)

\* After ppoll has reported input, a read finds it without waiting for the
\* host, whatever is typed or written meanwhile, until the process reads or
\* changes the terminal's mode.
PollThenRead == promised => can_read_now(readable_buf, termios)

\* ppoll's mask is in force only during ppoll, however the call ends.
MaskRestored == phase # "poll" => signal_blocked = OwnMask

\* Status queries stay with the server: the host terminal is never sent one.
HostSeesNoQuery == ~asked
=============================================================================
