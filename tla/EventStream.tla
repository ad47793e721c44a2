------------------------------ MODULE EventStream ------------------------------
(***************************************************************************)
(* The log (internal/buflog) and the stream of errors to the browsers      *)
(* (internal/events, cmd/events.go): every line goes to the buffer, and    *)
(* one that speaks of an error to the channel of every subscriber.         *)
(*                                                                         *)
(* Subscribing, unsubscribing and publishing hold one lock, a write to the *)
(* log the logger's. A line is its number; a channel and the buffer hold   *)
(* lines in order.                                                         *)
(***************************************************************************)
EXTENDS Integers, Sequences, FiniteSets

CONSTANTS
    Browsers,           \* connections to the event stream
    ChannelSize,        \* 100 (events.go:49)
    LogSize,            \* 5000 (main.go:81)
    MaxLines            \* bound on lines logged

ASSUME EventStreamAssumption == {ChannelSize, LogSize, MaxLines} \subseteq Nat \ {0}

VARIABLES
    subs,               \* ev.subs: subscribers and the lines in their channels
    stream,             \* a connection: [at, line], line = the one it is writing
    log,                \* bu.lines
    lines,              \* lines logged so far
    \* --- history, read by properties only ---
    errors,             \* of the lines, those that speak of an error
    since,              \* of a connection: the lines logged when it subscribed
    shown,              \* of a connection: the lines written to it, in order
    crowded             \* lines published while some channel was full

streamVars == <<subs, stream, log, lines, errors, since, shown, crowded>>

Off == [at |-> "off", line |-> 0]
StreamReading == [at |-> "reading", line |-> 0]

StreamInit ==
    /\ subs = <<>> /\ log = <<>> /\ lines = 0
    /\ stream = [b \in Browsers |-> Off]
    /\ errors = {} /\ crowded = {}
    /\ since = [b \in Browsers |-> 0] /\ shown = [b \in Browsers |-> <<>>]

Subscribed == DOMAIN subs
With(b, ch) == [d \in Subscribed \cup {b} |-> IF d = b THEN ch ELSE subs[d]]
Without(b) == [d \in Subscribed \ {b} |-> subs[d]]

\* EventStream begins: Subscribe. Its id is new.
Subscribe(b) ==
    /\ stream[b] = Off
    /\ subs' = With(b, <<>>)
    /\ stream' = [stream EXCEPT ![b] = StreamReading]
    /\ since' = [since EXCEPT ![b] = lines] /\ shown' = [shown EXCEPT ![b] = <<>>]
    /\ UNCHANGED <<log, lines, errors, crowded>>

\* Its loop: takes a line from the channel ...
TakeEvent(b) ==
    /\ stream[b].at = "reading" /\ subs[b] # <<>>
    /\ stream' = [stream EXCEPT ![b] = [at |-> "writing", line |-> Head(subs[b])]]
    /\ subs' = With(b, Tail(subs[b]))
    /\ UNCHANGED <<log, lines, errors, since, shown, crowded>>

\* ... and writes it, which takes as long as the browser reads slowly ...
WriteEvent(b) ==
    /\ stream[b].at = "writing"
    /\ shown' = [shown EXCEPT ![b] = Append(@, stream[b].line)]
    /\ stream' = [stream EXCEPT ![b] = StreamReading]
    /\ UNCHANGED <<subs, log, lines, errors, since, crowded>>

\* ... until the connection is closed, also when lines are left: Unsubscribe.
Unsubscribe(b) ==
    /\ stream[b].at = "reading"
    /\ subs' = Without(b)
    /\ stream' = [stream EXCEPT ![b] = Off]
    /\ UNCHANGED <<log, lines, errors, since, shown, crowded>>

\* Variant: one place of a channel is not used.
FullEarly(b) == Len(subs[b]) >= ChannelSize - 1

\* The channel of b has no room.
Full(b) == Len(subs[b]) >= ChannelSize

\* Publish: to the subscribers in any order, until the first whose channel is full.
Publish(line, given) ==
    LET full == {b \in Subscribed : Full(b)} IN
    /\ given \subseteq Subscribed \ full
    /\ full = {} => given = Subscribed
    /\ subs' = [b \in Subscribed |-> IF b \in given THEN Append(subs[b], line) ELSE subs[b]]
    /\ crowded' = IF \E b \in Subscribed : Len(subs[b]) = ChannelSize THEN crowded \cup {line} ELSE crowded

\* Variant: the newest line is the one that is dropped.
LoggedOldest(ls, line) == IF Len(ls) >= LogSize THEN ls ELSE Append(ls, line)

\* BufLog.Write: the oldest line makes room.
Logged(ls, line) == Append(IF Len(ls) >= LogSize THEN Tail(ls) ELSE ls, line)

\* A line is logged: to the buffer, and published if it speaks of an error (wri.Write).
LogLine(error) ==
    /\ lines < MaxLines /\ lines' = lines + 1
    /\ log' = Logged(log, lines')
    /\ IF error
       THEN errors' = errors \cup {lines'} /\ \E given \in SUBSET Subscribed : Publish(lines', given)
       ELSE UNCHANGED <<errors, subs, crowded>>
    /\ UNCHANGED <<stream, since, shown>>

StreamNext ==
    \/ \E b \in Browsers : Subscribe(b) \/ TakeEvent(b) \/ WriteEvent(b) \/ Unsubscribe(b)
    \/ \E error \in BOOLEAN : LogLine(error)

-----------------------------------------------------------------------------
(* What is checked.                                                        *)

StreamTypeOK ==
    /\ \A b \in Browsers : stream[b] # Off <=> b \in Subscribed
    /\ \A b \in Subscribed : Len(subs[b]) <= ChannelSize
    /\ Len(log) <= LogSize

Pending(b) == (IF stream[b].line = 0 THEN <<>> ELSE <<stream[b].line>>) \o subs[b]
Rising(s) == \A i \in 1..(Len(s) - 1) : s[i] < s[i + 1]

\* A browser is shown the errors logged since it connected, in order and once, and misses
\* one only if at that moment some channel was full, its own or another's; and the buffer
\* holds the last lines (internal/events/events.go:62-76, cmd/events.go:28-44,
\* internal/buflog/buflog.go:30-41).
MissedOnlyWhenFull ==
    /\ \A b \in Subscribed :
         LET got == shown[b] \o Pending(b) IN
         /\ Rising(got)
         /\ {got[i] : i \in 1..Len(got)} \subseteq {n \in errors : n > since[b]}
         /\ \A n \in errors \ crowded : n > since[b] => \E i \in 1..Len(got) : got[i] = n
    /\ log = [i \in 1..Len(log) |-> lines - Len(log) + i]
    /\ Len(log) < LogSize => Len(log) = lines
=============================================================================
