------------------------------- MODULE Ranges -------------------------------
(***************************************************************************)
(* The bytes of a file over HTTP: ParseRange of internal/tgutil, and what    *)
(* ServeHTTP and streamBody of internal/stream make of a request.  A range  *)
(* is read from Telegram in windows that begin at a chunk's boundary; what  *)
(* is before the range or after it is cut off.  Telegram may return less    *)
(* than a window, nothing or an error, and the connection may break: the    *)
(* handler then ends the body early, and the reader asks for the rest.      *)
(*                                                                         *)
(* A byte is known by its position in the file; got is what the reader has, *)
(* in the order in which it came.                                           *)
(***************************************************************************)
EXTENDS Integers, Sequences

CONSTANTS
    Sizes,     \* the sizes a file may have
    Chunk,     \* StreamChunkSize
    Natives,   \* the largest int, on the machines there are
    MaxInt64,  \* what ParseInt can parse
    Numbers,   \* the numbers a reader may ask with
    MaxFails,  \* maxConsecutiveChunkFails
    MaxFaults, \* bound on the errors, empty answers and broken connections
    Blank,     \* no number
    Junk       \* something that is none

ASSUME RangesAssumption ==
    /\ Sizes \subseteq Nat /\ Natives \subseteq Nat /\ Numbers \subseteq Nat
    /\ Chunk \in Nat \ {0} /\ MaxInt64 \in Nat
    /\ MaxFails \in Nat \ {0} /\ MaxFaults \in Nat
    /\ Blank \notin Int /\ Junk \notin Int /\ Blank # Junk

Texts == Numbers \cup {Blank, Junk}

\* A Range header: absent, "bytes=first-last", or one that is not of this form.
Headers ==
    [form : {"absent", "noise"}, first : {Blank}, last : {Blank}]
    \cup [form : {"range"}, first : Texts, last : Texts]

VARIABLES
    size,      \* rec.Size
    native,    \* maxNativeInt()
    header,    \* of the request that is served
    at,        \* "idle", "chunks" and "whole" (a body), "ended" or, the reader through, "over"
    status,    \* of the response, with the range it announces
    start, end,
    length,    \* contentLength
    wireStart, skip, written, fails,
    first,     \* the first byte the reader wants
    wanted,    \* how many it wants from there on
    got,       \* the bytes it has
    faults,    \* those so far
    faulty     \* this response met one

rangesVars == <<size, native, header, at, status, start, end, length, wireStart, skip, written, fails,
          first, wanted, got, faults, faulty>>

-----------------------------------------------------------------------------
(* ParseRange.                                                              *)

Least(a, b) == IF a < b THEN a ELSE b

Parses(text) == text \in Nat /\ text <= MaxInt64

Answered(what, s, e) == [is |-> what, start |-> s, end |-> e]

\* (A suffix longer than the file starts before it.)
SuffixUncut(n, sz) == Answered("range", sz - n, sz - 1)

\* bytes=-n: the last n bytes.
Suffix(n, sz) == Answered("range", sz - Least(n, sz), sz - 1)

\* (An end beyond the file is cut to its size.)
LastByteAtSize(last, sz) == Least(last, sz)

\* An end beyond the file is the file's last byte.
LastByte(last, sz) == Least(last, sz - 1)

ParseRange(h, sz) ==
    CASE h.form = "absent" -> Answered("none", 0, 0)
      [] h.form # "absent" /\ sz <= 0 -> Answered("unsatisfiable", 0, 0)
      [] h.form = "noise" /\ sz > 0 -> Answered("malformed", 0, 0)
      [] h.form = "range" /\ sz > 0 ->
            IF h.first = Blank
            THEN IF Parses(h.last) /\ h.last > 0 THEN Suffix(h.last, sz) ELSE Answered("malformed", 0, 0)
            ELSE IF ~Parses(h.first) THEN Answered("malformed", 0, 0)
            ELSE IF h.first >= sz THEN Answered("unsatisfiable", 0, 0)
            ELSE IF h.last = Blank THEN Answered("range", h.first, sz - 1)
            ELSE IF ~Parses(h.last) \/ h.last < h.first THEN Answered("unsatisfiable", 0, 0)
            ELSE Answered("range", h.first, LastByte(h.last, sz))

-----------------------------------------------------------------------------
(* ServeHTTP, once the file is found and a client admitted.                 *)

RangesInit ==
    /\ size \in Sizes /\ native \in Natives
    /\ header = [form |-> "absent", first |-> Blank, last |-> Blank]
    /\ at = "idle" /\ status = 0
    /\ start = 0 /\ end = 0 /\ length = 0
    /\ wireStart = 0 /\ skip = 0 /\ written = 0 /\ fails = 0
    /\ first = 0 /\ wanted = 0 /\ got = <<>>
    /\ faults = 0 /\ faulty = FALSE

Respond(code, place, s, e) ==
    /\ status' = code /\ at' = place
    /\ start' = s /\ end' = e /\ length' = e - s + 1

\* The chunk boundary before byte s.
Window(s) == (s \div Chunk) * Chunk

\* A request with header h is answered; a body is about to begin unless there is
\* none to come, or it is a HEAD.
Serve(h, head) ==
    LET r     == ParseRange(h, size)
        whole == r.is = "none" \/ (r.start = 0 /\ r.end = size - 1)
    IN
    /\ header' = h
    /\ CASE r.is = "unsatisfiable" -> Respond(416, "ended", 0, -1)
         [] r.is = "malformed" -> Respond(400, "ended", 0, -1)
         [] r.is \in {"none", "range"} /\ whole ->
               Respond(200, IF head THEN "over" ELSE "whole", 0, size - 1)
         [] r.is = "range" /\ ~whole ->
               IF r.start > native \/ r.end > native
               THEN Respond(500, "ended", 0, -1)
               ELSE Respond(206, IF head THEN "over" ELSE "chunks", r.start, r.end)
    /\ wireStart' = Window(r.start) /\ skip' = r.start - Window(r.start)
    /\ written' = 0 /\ fails' = 0 /\ faulty' = FALSE

\* The first request of a reader, which takes what the response announces for
\* what it wants.
Ask(h) ==
    /\ at = "idle"
    /\ \E head \in BOOLEAN : Serve(h, head)
    /\ first' = start' /\ wanted' = length'
    /\ UNCHANGED <<size, native, got, faults>>

requestVars == <<size, native, header, status, start, end, length, first, wanted>>

-----------------------------------------------------------------------------
(* streamBody.                                                              *)

\* The body is over, complete or not.
EndBody == at' = "ended" /\ UNCHANGED <<wireStart, skip, written, got>>

Fault ==
    /\ faults < MaxFaults
    /\ faults' = faults + 1 /\ faulty' = TRUE

Fits == wireStart <= native - Chunk

Complete ==
    /\ at \in {"chunks", "whole"} /\ written = length
    /\ EndBody
    /\ UNCHANGED <<requestVars, fails, faults, faulty>>

Overflow ==
    /\ at = "chunks" /\ written < length /\ ~Fits
    /\ EndBody
    /\ UNCHANGED <<requestVars, fails, faults, faulty>>

\* DownloadChunkCtx fails: the transfer is given up at MaxFails failures in a row.
ChunkFails ==
    /\ at = "chunks" /\ written < length /\ Fits
    /\ Fault
    /\ fails' = fails + 1
    /\ IF fails' >= MaxFails THEN EndBody ELSE UNCHANGED <<at, wireStart, skip, written, got>>
    /\ UNCHANGED requestVars

\* It brings nothing.
ChunkIsEmpty ==
    /\ at = "chunks" /\ written < length /\ Fits
    /\ Fault
    /\ fails' = 0
    /\ EndBody
    /\ UNCHANGED requestVars

\* A window with nothing of the range in it.
SkipWindow(raw) ==
    /\ skip' = skip - raw
    /\ wireStart' = wireStart + raw
    /\ UNCHANGED <<written, got>>

\* (The window is written to its end.)
WindowLeft(raw) == raw - skip

\* What of the window is in the range.
InRange(raw) == Least(raw - skip, length - written)

\* n bytes of the window, from the first that is in the range.
Sent(n) == [i \in 1..n |-> wireStart + skip + i - 1]

\* The part of the window that is in the range goes to the reader.
WriteWindow(raw) ==
    /\ got' = got \o Sent(InRange(raw))
    /\ written' = written + InRange(raw)
    /\ skip' = 0
    /\ wireStart' = wireStart + raw

\* Telegram returns raw bytes from wireStart on, as many as it likes.
ReadChunk ==
    /\ at = "chunks" /\ written < length /\ Fits
    /\ \E raw \in 1..Least(Chunk, size - wireStart) :
          IF skip >= raw THEN SkipWindow(raw) ELSE WriteWindow(raw)
    /\ fails' = 0
    /\ UNCHANGED <<requestVars, at, faults, faulty>>

\* The connection breaks while it is written, and some of it arrives.
WriteBreaks ==
    /\ at = "chunks" /\ written < length /\ Fits
    /\ Fault
    /\ \E raw \in 1..Least(Chunk, size - wireStart) :
          /\ skip < raw
          /\ \E n \in 0..(InRange(raw) - 1) : got' = got \o Sent(n)
    /\ fails' = 0
    /\ at' = "ended" /\ UNCHANGED <<wireStart, skip, written>>
    /\ UNCHANGED requestVars

\* DownloadMedia writes the file from its beginning.
ReadWhole ==
    /\ at = "whole" /\ written < length
    /\ \E data \in 1..(length - written) :
          /\ got' = got \o [i \in 1..data |-> written + i - 1]
          /\ written' = written + data
    /\ UNCHANGED <<requestVars, at, wireStart, skip, fails, faults, faulty>>

WholeFails ==
    /\ at = "whole" /\ written < length
    /\ Fault
    /\ EndBody
    /\ UNCHANGED <<requestVars, fails>>

-----------------------------------------------------------------------------
(* The reader.                                                              *)

\* A body broke off before it was all there.
Broken == status \in {200, 206} /\ faulty /\ Len(got) < wanted

\* The reader asks for the rest.
Resume ==
    /\ at = "ended" /\ Broken
    /\ Serve([form |-> "range", first |-> first + Len(got), last |-> first + wanted - 1], FALSE)
    /\ UNCHANGED <<size, native, first, wanted, got, faults>>

\* It has everything, or there is nothing to be had.
Leave ==
    /\ at = "ended" /\ ~Broken
    /\ at' = "over"
    /\ UNCHANGED <<requestVars, wireStart, skip, written, fails, got, faults, faulty>>

Body == Complete \/ Overflow \/ ReadChunk \/ ReadWhole

RangesNext ==
    \/ \E h \in Headers : Ask(h)
    \/ Body \/ ChunkFails \/ ChunkIsEmpty \/ WriteBreaks \/ WholeFails
    \/ Resume \/ Leave
    \/ at = "over" /\ UNCHANGED rangesVars

RangesSpec == RangesInit /\ [][RangesNext]_rangesVars

\* Requests are served, windows come or fail, the reader resumes.
RangesFairSpec ==
    /\ RangesSpec
    /\ WF_rangesVars(Body \/ ChunkFails \/ ChunkIsEmpty \/ WriteBreaks \/ WholeFails)
    /\ WF_rangesVars(Resume \/ Leave)

-----------------------------------------------------------------------------
(* Properties.                                                              *)

RangesTypeOK ==
    /\ size \in Sizes /\ native \in Natives
    /\ header \in [form : {"absent", "noise", "range"}, first : Nat \cup {Blank, Junk},
                   last : Nat \cup {Blank, Junk}]
    /\ at \in {"idle", "chunks", "whole", "ended", "over"}
    /\ status \in {0, 200, 206, 400, 416, 500}
    /\ start \in Nat /\ end \in Nat \cup {-1} /\ length \in Nat
    /\ wireStart \in Nat /\ skip \in Nat /\ written \in Nat
    /\ fails \in Nat /\ first \in Nat /\ wanted \in Nat
    /\ got \in Seq(Nat)
    /\ faults \in 0..MaxFaults /\ faulty \in BOOLEAN

\* The bytes of a file of size sz that "bytes=first-last" asks for.
Asked(h, sz) ==
    {b \in 0..(sz - 1) :
        IF h.first = Blank THEN b >= sz - h.last
        ELSE b >= h.first /\ (h.last = Blank \/ b <= h.last)}

Sound(h) ==
    /\ h.form = "range"
    /\ h.first # Blank => Parses(h.first)
    /\ h.last # Blank => Parses(h.last)
    /\ h.first = Blank => h.last # Blank /\ h.last # 0

\* A well-formed header is answered by exactly the bytes it asks for: 206 with
\* the range, 200 if it is the whole file, 416 if there are none.
RangeAsAsked ==
    Sound(header) /\ at # "idle" =>
        /\ status \in {200, 206} => start..end = Asked(header, size)
        /\ status = 416 => Asked(header, size) = {}
        /\ status # 400

\* What the reader has is the file's bytes in order from the first it wanted,
\* none missing and none twice, however the windows were cut and however often
\* it had to resume.
BytesInOrder == got = [i \in 1..Len(got) |-> first + i - 1]

\* The body never exceeds what the headers announced, and falls short of it only
\* after a fault, or where an int cannot hold the end of the next window.
BodyAsAnnounced ==
    /\ status # 0 => written <= length
    /\ at = "ended" /\ status \in {200, 206} /\ ~faulty =>
          written = length \/ (status = 206 /\ ~Fits)

\* The body of a response, and what a reader has of several, is the range.
BodyIsTheRange == BytesInOrder /\ BodyAsAnnounced

\* Every reader comes to an end, and has then all it asked for, where an int can
\* hold every offset of the file.
ReaderIsServed ==
    at \in {"chunks", "whole"} ~> at = "over" /\ (Len(got) = wanted \/ native < size + Chunk)
=============================================================================
