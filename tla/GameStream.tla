----------------------------- MODULE GameStream -----------------------------
(***************************************************************************)
(* The two readers of PGN streams.  ingest/streaming.py reads chunks,      *)
(* decodes them incrementally and cuts the text at every blank line that a *)
(* tag follows; ingest/quarantine.py does the same chunk by chunk, tells   *)
(* where each game begins and keeps the games its handler refuses.         *)
(*                                                                         *)
(* Bytes are "n" (newline), "[" and "x"; "c1" "c2" is one character of two *)
(* bytes, written "E" when decoded, and "?" is the replacement character.  *)
(***************************************************************************)
EXTENDS Integers, Sequences, FiniteSets, SequencesExt

CONSTANTS
    Files,       \* byte streams to read
    ChunkSizes   \* sizes of a read

Bytes == {"n", "[", "x", "c1", "c2"}
StreamConstants == Files \subseteq Seq(Bytes) /\ ChunkSizes \subseteq Nat \ {0}

VARIABLES
    file, size,  \* the stream and the chunk size
    pos,         \* bytes read so far
    pending,     \* the incremental decoder: a first byte it waits with, or <<>>
    buf, games,  \* iter_pgn_games: its buffer and what it has yielded
    buf2, start, \* iter_pgn_games_with_offsets: its buffer and where that begins
    found,       \* the games it has yielded: [offset, raw]
    sidecar, ok, \* process_with_quarantine: the games kept, and the count of the others
    done

streamVars == <<file, size, pos, pending, buf, games, buf2, start, found, sidecar, ok, done>>

\* One byte more for the decoder, whose state is [out, wait].
Feed(st, b) ==
    LET fresh(out) == IF b = "c1" THEN [out |-> out, wait |-> <<b>>]
                      ELSE [out |-> Append(out, IF b = "c2" THEN "?" ELSE b), wait |-> <<>>]
    IN  IF st.wait = <<>> THEN fresh(st.out)
        ELSE IF b = "c2" THEN [out |-> Append(st.out, "E"), wait |-> <<>>]
        ELSE fresh(Append(st.out, "?"))
Flushed(st) == IF st.wait = <<>> THEN st.out ELSE Append(st.out, "?")
\* decoder.decode: what comes of the bytes, and what it waits with then.
Decoded(wait, bytes) ==
    LET after[n \in 0 .. Len(bytes)] ==
            IF n = 0 THEN [out |-> <<>>, wait |-> wait] ELSE Feed(after[n - 1], bytes[n])
    IN  after[Len(bytes)]
\* bytes.decode(errors="replace") of a chunk on its own.
DecodedAlone(bytes) == Flushed(Decoded(<<>>, bytes))

\* buf.find("\n\n[", 1), counted from one; 0 if there is none.
CutsFrom(text, first) ==
    {n \in first .. Len(text) - 2 : SubSeq(text, n, n + 2) = <<"n", "n", "[">>}
FirstFrom(text, first) ==
    CHOOSE n \in CutsFrom(text, first) : \A k \in CutsFrom(text, first) : n <= k
Cut(text) == IF CutsFrom(text, 2) = {} THEN 0 ELSE FirstFrom(text, 2)

Blank(text) == \A n \in DOMAIN text : text[n] = "n"
Leading(text) ==
    CHOOSE n \in 0 .. Len(text) : (\A k \in 1 .. n : text[k] = "n")
                               /\ (n = Len(text) \/ text[n + 1] # "n")
Stripped(text) ==
    IF Blank(text) THEN <<>>
    ELSE SubSeq(text, Leading(text) + 1, Len(text) - Leading(Reverse(text)))
Yielded(text) == IF Blank(text) THEN <<>> ELSE <<Stripped(text)>>

StreamInit ==
    /\ file \in Files /\ size \in ChunkSizes
    /\ pos = 0 /\ pending = <<>> /\ buf = <<>> /\ games = <<>>
    /\ buf2 = <<>> /\ start = 0 /\ found = <<>>
    /\ sidecar = <<>> /\ ok = 0 /\ done = FALSE

CutBuf ==
    /\ Cut(buf) # 0
    /\ games' = games \o Yielded(SubSeq(buf, 1, Cut(buf) - 1))
    /\ buf' = SubSeq(buf, Cut(buf) + 2, Len(buf))
    /\ UNCHANGED <<file, size, pos, pending, buf2, start, found, sidecar, ok, done>>

Offsets(segment, at) ==
    IF Blank(segment) THEN <<>>
    ELSE <<[offset |-> at + Leading(segment), raw |-> Stripped(segment)]>>
\* A game is handled as soon as it is yielded, and kept verbatim if that fails.
Handle(records) ==
    /\ found' = found \o records
    /\ IF records = <<>> THEN UNCHANGED <<sidecar, ok>>
       ELSE \/ sidecar' = sidecar \o records /\ ok' = ok
            \/ ok' = ok + 1 /\ sidecar' = sidecar
BadCutBuf2Long ==
    /\ Cut(buf) = 0 /\ Cut(buf2) # 0
    /\ Handle(Offsets(SubSeq(buf2, 1, Cut(buf2) - 1), start))
    /\ buf2' = SubSeq(buf2, Cut(buf2) + 3, Len(buf2))
    /\ start' = start + Cut(buf2) + 2
    /\ UNCHANGED <<file, size, pos, pending, buf, games, done>>
CutBuf2 ==
    /\ Cut(buf) = 0 /\ Cut(buf2) # 0
    /\ Handle(Offsets(SubSeq(buf2, 1, Cut(buf2) - 1), start))
    /\ buf2' = SubSeq(buf2, Cut(buf2) + 2, Len(buf2))
    /\ start' = start + Cut(buf2) + 1
    /\ UNCHANGED <<file, size, pos, pending, buf, games, done>>

\* Both readers take the next chunk when their buffers hold no whole game.
Read ==
    LET chunk == SubSeq(file, pos + 1, IF pos + size < Len(file) THEN pos + size ELSE Len(file))
        st == Decoded(pending, chunk)
    IN  /\ Cut(buf) = 0 /\ Cut(buf2) = 0 /\ chunk # <<>>
        /\ pos' = pos + Len(chunk)
        /\ buf' = buf \o st.out /\ pending' = st.wait
        /\ buf2' = buf2 \o DecodedAlone(chunk)
        /\ UNCHANGED <<file, size, games, start, found, sidecar, ok, done>>

End ==
    /\ Cut(buf) = 0 /\ Cut(buf2) = 0 /\ pos = Len(file) /\ ~ done
    /\ games' = games \o Yielded(buf \o Flushed([out |-> <<>>, wait |-> pending]))
    /\ Handle(Offsets(buf2, start))
    /\ done' = TRUE
    /\ UNCHANGED <<file, size, pos, pending, buf, buf2, start>>

StreamNext == CutBuf \/ CutBuf2 \/ Read \/ End
StreamSpec == StreamInit /\ [][StreamNext]_streamVars
-----------------------------------------------------------------------------
\* The games of a text from each of its characters on, cut in one go.
GamesFrom(text) ==
    LET from[n \in 1 .. Len(text) + 1] ==
            IF CutsFrom(text, n + 1) = {} THEN Yielded(SubSeq(text, n, Len(text)))
            ELSE Yielded(SubSeq(text, n, FirstFrom(text, n + 1) - 1))
                 \o from[FirstFrom(text, n + 1) + 2]
    IN  from

\* What the import reads does not depend on how the stream was cut into chunks,
\* in the middle of a character or of a blank line.
ChunksDoNotMatter == done => games = GamesFrom(DecodedAlone(file))[1]

\* Every game is either handled or kept, verbatim and in order.
Accounted ==
    /\ ok + Len(sidecar) = Len(found)
    /\ \A n \in 1 .. Len(sidecar) - 1 : sidecar[n].offset < sidecar[n + 1].offset

\* With one-byte characters only, the reader with offsets reads the same games,
\* and a game stands in the stream where its offset says.
OneByte == \A n \in DOMAIN file : file[n] \notin {"c1", "c2"}
SameGames == done => [n \in DOMAIN found |-> found[n].raw] = games
OffsetsTrue == \A n \in DOMAIN found : \E last \in found[n].offset .. Len(file) :
    DecodedAlone(SubSeq(file, found[n].offset + 1, last)) = found[n].raw

\* Where a stream is cut does not matter, every game is accounted for, and with
\* one-byte characters both readers give the same games at true offsets
\* (iter_pgn_games, iter_pgn_games_with_offsets, process_with_quarantine).
StreamsCut ==
    /\ ChunksDoNotMatter
    /\ Accounted
    /\ OneByte => SameGames /\ OffsetsTrue
=============================================================================
