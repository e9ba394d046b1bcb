------------------------------- MODULE Output -------------------------------
(***************************************************************************)
(* What a caller gets to see of the output of a subprocess. The local       *)
(* backend keeps the end of a stream in a window of whole chunks, which is   *)
(* read by offset and not consumed (CollectedStream in harness-subprocess);  *)
(* the sandbox backend takes the whole output when the command has ended,    *)
(* masks what it takes for a secret, gives that to the streaming callback in *)
(* one piece, and returns it cut off at the limit (OutputCollector).        *)
(*                                                                         *)
(* A text is a sequence of bytes, and so are offsets and limits: a character *)
(* that a read or the cut splits is not restored. The names of keys stand    *)
(* for one, and a token of a well-known shape is masked as a listed secret.  *)
(***************************************************************************)
EXTENDS Integers, SequencesExt

CONSTANTS
    Chunk,      \* what may be printed at a time: sequences of bytes
    Secrets,    \* what is masked where it occurs: the secrets that the caller lists, in
                \* their order, then tokens of the well-known shapes
    Mask,       \* what it is replaced by
    Key,        \* the key of an assignment whose value is masked
    Separator,  \* the bytes that may stand between key and value
    Equals,     \* the one that the mask puts there
    Space,
    Limit,      \* maxBytes of the window and of the result
    MaxPrinted  \* bound of the length of the output, for model checking

Byte ==
    LET listed == UNION {Range(text) : text \in Chunk \union Range(Secrets) \union {Mask, Key}}
    IN listed \union Separator \union {Equals, Space}

ASSUME OutputAssumption ==
    /\ Chunk \union {Mask, Key} \subseteq Seq(Byte) /\ Secrets \in Seq(Seq(Byte))
    /\ <<>> \notin Chunk /\ Mask # <<>>
    /\ Limit \in Nat \ {0} /\ MaxPrinted \in Nat

VARIABLES
    printed,  \* external: the bytes the process has written to the stream
    starts,   \* where the chunks in the window start
    read,     \* the last read of a poller
    streamed, \* what the sandbox backend gave to the streaming callback
    result    \* what it returned

outputVars == <<printed, starts, read, streamed, result>>

NoResult == [text |-> <<>>, truncated |-> FALSE, returned |-> FALSE]

OutputInit ==
    /\ printed = <<>>
    /\ starts = <<>>
    /\ read = [asked |-> 0, from |-> 0, upTo |-> 0, lossy |-> FALSE]
    /\ streamed = <<>>
    /\ result = NoResult

----------------------------------------------------------------------------
\* push: the oldest chunks go as long as the others fill the window.
TrimmedToLimit(s, total) == SelectSeq(s, LAMBDA start : total - start <= Limit)
Trimmed(s, total) ==
    LET full == {k \in 1 .. Len(s) : total - s[k] >= Limit}
    IN IF full = {} THEN s ELSE SubSeq(s, Max(full), Len(s))

Push(chunk) ==
    /\ Len(printed) + Len(chunk) <= MaxPrinted
    /\ ~result.returned
    /\ printed' = printed \o chunk
    /\ starts' = Trimmed(Append(starts, Len(printed)), Len(printed'))
    /\ UNCHANGED <<read, streamed, result>>

WindowStart == IF starts = <<>> THEN 0 ELSE Head(starts)

\* readFrom, asked for what follows the last read.
ReadFrom ==
    /\ LET asked == read.upTo
           lossy == asked < WindowStart
       IN read' = [asked |-> asked, from |-> IF lossy THEN WindowStart ELSE asked,
                   upTo |-> Len(printed), lossy |-> lossy]
    /\ UNCHANGED <<printed, starts, streamed, result>>

----------------------------------------------------------------------------
Occurs(t, s) == {i \in 1 .. Len(t) - Len(s) + 1 : SubSeq(t, i, i + Len(s) - 1) = s}

\* The text with the bytes at hidden left out, and by in place of those at first.
Substituted(t, hidden, first, by) ==
    FlattenSeq([i \in 1 .. Len(t) |->
        IF i \in first THEN by ELSE IF i \in hidden THEN <<>> ELSE <<t[i]>>])

\* split(s): each occurrence from the left that begins after the end of the last one.
Found(t, s) ==
    CHOOSE found \in SUBSET Occurs(t, s) :
        \A i \in Occurs(t, s) : i \in found <=> \A j \in found : j < i => j + Len(s) <= i

\* split(s).join(Mask), of a secret that is not empty.
SplitJoin(t, s) ==
    LET found == Found(t, s)
        within == {i \in 1 .. Len(t) : \E j \in found : j <= i /\ i < j + Len(s)}
    IN IF s = <<>> THEN t ELSE Substituted(t, within, found, Mask)

\* A separator, with or without spaces around it, stands from position i to before v.
Separated(t, i, v) ==
    \E k \in i .. v - 1 : t[k] \in Separator /\ \A m \in (i .. v - 1) \ {k} : t[m] = Space

\* What an assignment hides: its separator and its value, up to the next space.
Hidden(t) ==
    {i \in 1 .. Len(t) : \E j \in Occurs(t, Key), v \in 1 .. Len(t) :
        /\ j + Len(Key) <= i /\ Separated(t, j + Len(Key), v)
        /\ \A m \in {v} \union v .. i : t[m] # Space}

MaskedValues(t) ==
    LET hidden == Hidden(t)
    IN Substituted(t, hidden, {i \in hidden : i - 1 \notin hidden}, <<Equals>> \o Mask)

\* redactSecrets: one secret after the other, then the values of assignments.
RedactSecrets(t) ==
    LET masked[n \in 0 .. Len(Secrets)] ==
            IF n = 0 THEN t ELSE SplitJoin(masked[n - 1], Secrets[n])
    IN MaskedValues(masked[Len(Secrets)])

TruncateOutput(t) == SubSeq(t, 1, Min({Limit, Len(t)}))

\* processOutput: what is masked is cut afterwards.
ProcessOutputCutFirst(t) == RedactSecrets(TruncateOutput(t))
ProcessOutput(t) == TruncateOutput(RedactSecrets(t))

\* The collector gets the whole output in one chunk when the command has ended, and none
\* of it after a timeout or an abort. The flag is computed from the unmasked output; the
\* "[truncated ... bytes]" that follows a text that was cut is left out.
Finalize(output) ==
    /\ ~result.returned
    /\ streamed' = RedactSecrets(output)
    /\ result' = [text |-> ProcessOutput(output), truncated |-> Len(output) > Limit,
                  returned |-> TRUE]
    /\ UNCHANGED <<printed, starts, read>>

OutputNext ==
    \/ \E chunk \in Chunk : Push(chunk)
    \/ ReadFrom
    \/ Finalize(printed) \/ Finalize(<<>>)

OutputSpec == OutputInit /\ [][OutputNext]_outputVars

----------------------------------------------------------------------------
OutputTypeOK ==
    /\ Len(printed) <= MaxPrinted
    /\ \A k \in 1 .. Len(starts) : starts[k] \in 0 .. Len(printed)
    /\ read \in [asked : Nat, from : Nat, upTo : 0 .. Len(printed), lossy : BOOLEAN]
    /\ {printed, streamed, result.text} \subseteq Seq(Byte)
    /\ {result.truncated, result.returned} \subseteq BOOLEAN

\* Secrets that a mask can neither hold nor complete.
Maskable == {s \in Range(Secrets) : s # <<>> /\ Range(s) \intersect Range(<<Equals>> \o Mask) = {}}

\* A poller that asks for what follows its last read misses nothing without being told,
\* and at most what is more than the limit before the end; without its oldest chunk the
\* window is below its limit. No maskable secret is left whole in what the callback is
\* given, though masks of other secrets and of values are put beside and after it, and
\* the text that is returned is the beginning of that.
OutputIsWhole ==
    /\ OutputTypeOK
    /\ read.lossy <=> read.from > read.asked
    /\ read.upTo - read.from >= Min({Limit, read.upTo - read.asked})
    /\ Len(starts) > 1 => Len(printed) - starts[2] < Limit
    /\ \A s \in Maskable : Occurs(streamed, s) = {}
    /\ IsPrefix(result.text, streamed)
=============================================================================
